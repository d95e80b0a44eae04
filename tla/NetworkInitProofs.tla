-------------------------- MODULE NetworkInitProofs --------------------------
(***************************************************************************)
(* For every network, every EEPROM and memory, any number of calls and of  *)
(* faults: what the master knows of a slave is its own, a slave is ready   *)
(* when init returns Ok, and init fails only for a cause.                  *)
(***************************************************************************)
EXTENDS NetworkInit, FiniteSetTheorems, TLAPS

Word4 == [1 .. 4 -> U16]

SmType == [kind : {"none", "MailboxRx", "MailboxTx", "ProcessDataRx", "ProcessDataTx"},
           size : 0 .. MAX_SM_SIZE, start : U16]

InfoType ==
  [configured_address : Nat, vender_id : U16, product_code : U16, revision_number : U16,
   linked : SUBSET (0 .. 3), ram_size_kb : Nat, number_of_fmmu : Nat, number_of_sm : Nat,
   pdo_start : Nat, pdo_size : Nat, sm : [SmNumber -> SmType],
   support_dc : BOOLEAN, support_coe : BOOLEAN]

SlaveType == [info : InfoType, mailbox_count : {0}, status_fmmu : BOOLEAN]

SiiType == [state : SiiState, address : 0 .. 28, read_size : {0, 4, 8}, data : Word4]

InitType ==
  [state : SlaveInitState, n : 0 .. 4, first : BOOLEAN, position : Pos,
   error : {"none", "UnexpectedWkc", "FailedToLoadEEPROM", "SiiRead", "AlStateTransition"},
   info : InfoType, al : AL!Task, sii : SiiType]

\* The registers of a slave; values of sync managers that an old PDU wrote have no type.
IsRegs(g) ==
  /\ g = [dirty |-> g.dirty, station |-> g.station, sm |-> g.sm, active |-> g.active]
  /\ g.sm = [n \in SmNumber |-> g.sm[n]]

EeType == [busy : BOOLEAN, loading : 0 .. 28, address : 0 .. 28, command_error : BOOLEAN,
           data : Word4]

CountCommand == [op |-> "BWR", reg |-> <<"DlControl", 0>>]

(* A PDU in the socket is the count or for one slave.  One that asks for a *)
(* state asks for Init, or for the state in which the slave is and stays.  *)
PduOk(q) ==
  /\ q = [command |-> q.command, position |-> q.position, value |-> q.value,
          recv_flag |-> q.recv_flag, wkc |-> q.wkc, answer |-> q.answer]
  /\ q.recv_flag \in BOOLEAN /\ q.wkc \in 0 .. Len(bus.slaves)
  /\ \/ q = NoPdu
     \/ q.command = CountCommand /\ q.position = -1
     \/ /\ q.command.op \in {"APRD", "APWR"} /\ q.position \in Slaves
        /\ q.command = [op |-> q.command.op, reg |-> q.command.reg]
        /\ q.wkc \in {0, 1}

WriteOk(q) ==
  q.command.op = "APWR" =>
    /\ q.command.reg[1] = "SiiAddress" => q.value.data \in 0 .. 28
    /\ q.command.reg[1] = "SiiAccess" => q.value.owner \in BOOLEAN
    /\ q.command.reg[1] = "AlControl" =>
         /\ q.value.ack \in BOOLEAN
         /\ ~q.recv_flag =>
              \/ q.value.al = "Init"
              \/ q.value.al = al[q.position] /\ request[q.position] = "none"

DevicesOk ==
  /\ al \in [Pos -> AlStates]
  /\ err \in [Pos -> BOOLEAN]
  /\ pdi \in [Pos -> BOOLEAN]
  /\ request \in [Pos -> {"none", "Init"}]
  /\ ee \in [Pos -> EeType]
  /\ regs = [p \in Pos |-> regs[p]]
  /\ \A p \in Pos :
       /\ err[p] => request[p] = "none"
       /\ ee[p].command_error => faults > 0
       /\ p \notin Slaves => ~ee[p].busy /\ ~pdi[p]
       /\ p \in Slaves /\ ~Profile(p).long => ee[p].data[3] = 0 /\ ee[p].data[4] = 0
       /\ IsRegs(regs[p])
       /\ p \in Slaves => regs[p].dirty \subseteq Registers(Profile(p))

----------------------------------------------------------------------------
(* How far the slave's task has come, with the count of its states with a  *)
(* counter, and when a register is reset.                                  *)
Rank(i) ==
  CASE i.state = "SetLoopPort" -> 1
    [] i.state = "RequestInitState" -> 2
    [] i.state = "ResetErrorCount" -> 3
    [] i.state = "SetWatchDogDivider" -> 4
    [] i.state = "DisableDlWatchDog" -> 5
    [] i.state = "DisableSmWatchDog" -> 6
    [] i.state = "CheckDlStatus" -> 7
    [] i.state = "CheckDlInfo" -> 8
    [] i.state = "ClearFmmu" -> 10 + i.n
    [] i.state = "ClearSm" -> 20 + i.n
    [] i.state = "GetVenderID" -> 31
    [] i.state = "GetProductCode" -> 32
    [] i.state = "GetRevision" -> 33
    [] i.state = "GetProtocol" -> 34
    [] i.state = "GetRxMailboxSize" -> 35
    [] i.state = "GetRxMailboxOffset" -> 36
    [] i.state = "GetTxMailboxSize" -> 37
    [] i.state = "GetTxMailboxOffset" -> 38
    [] i.state = "SetSmControl" -> 40 + 2 * i.n
    [] i.state = "SetSmActivation" -> 41 + 2 * i.n
    [] i.state = "SetStationAddress" -> 50
    [] i.state = "CheckPdiControl" -> 51
    [] i.state = "ClearDcActivation" -> 52
    [] i.state = "ClearCyclicOperationStartTime" -> 53
    [] i.state = "ClearSync0CycleTime" -> 54
    [] i.state = "ClearSync1CycleTime" -> 55
    [] i.state = "Complete" -> 56
    [] OTHER -> 0

ResetAt(r) ==
  CASE r[1] = "DlControl" -> 1
    [] r[1] = "RxErrorCounter" -> 3
    [] r[1] = "WatchDogDivider" -> 4
    [] r[1] = "DlUserWatchDog" -> 5
    [] r[1] = "SyncManagerChannelWatchDog" -> 6
    [] r[1] = "FmmuRegister" /\ r[2] \in FmmuCleared -> 10 + r[2]
    [] r[1] = "SyncManagerControl" /\ r[2] \in SmCleared -> 20 + r[2]
    [] r[1] = "DcActivation" -> 52
    [] r[1] = "CyclicOperationStartTime" -> 53
    [] r[1] = "Sync0CycleTime" -> 54
    [] r[1] = "Sync1CycleTime" -> 55
    [] OTHER -> 99

CountsRight(i) ==
  /\ i.state = "ClearFmmu" => i.n \in FmmuCleared
  /\ i.state \in {"SetSmControl", "SetSmActivation"} => i.n \in SmNumber

\* The sync manager that is set up for a channel.
SmValue(sm) == IF IsMailbox(sm) THEN sm ELSE NoSm

\* The state of the slave at p and its registers.
SlaveDone(i, p) ==
  /\ Rank(i) > 2 => al[p] = "Init"
  /\ \A r \in regs[p].dirty : Rank(i) <= ResetAt(r)
  /\ \A n \in SmNumber :
       /\ Rank(i) > 40 + 2 * n => regs[p].sm[n] = SmValue(i.info.sm[n])
       /\ Rank(i) > 41 + 2 * n => (n \in regs[p].active <=> IsMailbox(i.info.sm[n]))
  /\ Rank(i) > 50 => regs[p].station = p + 1 /\ i.info.configured_address = p + 1

\* What the task has found out from the registers.
LinkKnown(i, p) ==
  /\ Rank(i) > 7 => Profile(p).loaded /\ i.info.linked = Profile(p).linked
  /\ Rank(i) > 8 =>
       /\ i.info.support_dc = Profile(p).dc /\ i.info.ram_size_kb = Profile(p).ram
       /\ i.info.number_of_fmmu = Profile(p).fmmu /\ i.info.number_of_sm = Profile(p).sm

\* The channels before and between the reads of the EEPROM about them: size, then start.
\* known: the EEPROM was never read in spite of an error.
SmKnown(i, p, known, n, at) ==
  /\ Rank(i) <= at => i.info.sm[n] = NoSm /\ i.info.sm[n + 2] = NoSm
  /\ known =>
       /\ Rank(i) > at => i.info.sm[n + 2] = SmIn(p, n + 2)
       /\ Rank(i) = at + 1 => i.info.sm[n] = [SmIn(p, n) EXCEPT !.start = 0]
       /\ Rank(i) > at + 1 => i.info.sm[n] = SmIn(p, n)

EepromKnown(i, p, known) ==
  /\ known =>
       /\ Rank(i) > 31 => i.info.vender_id = Profile(p).eeprom[VenderId]
       /\ Rank(i) > 32 => i.info.product_code = Profile(p).eeprom[ProductCode]
       /\ Rank(i) > 33 => i.info.revision_number = Profile(p).eeprom[RevisionNumber]
       /\ Rank(i) > 34 =>
            i.info.support_coe = ((Profile(p).eeprom[MailboxProtocol] \div 4) % 2 = 1)
  /\ SmKnown(i, p, known, 0, 35)
  /\ SmKnown(i, p, known, 1, 37)

AreaRight(info) ==
  info.pdo_size > 0 =>
    /\ \A n \in {0, 1} : Area(info.pdo_start, info.pdo_size)
                           \cap Area(info.sm[n].start, info.sm[n].size) = {}
    /\ MailboxesInRam(info) =>
         Area(info.pdo_start, info.pdo_size) \subseteq RamStart .. RamEnd(info)

AreaKnown(i) ==
  /\ Rank(i) < 40 => i.info.pdo_size = 0
  /\ AreaRight(i.info)

Found(i, p, known) ==
  /\ CountsRight(i) /\ SlaveDone(i, p)
  /\ LinkKnown(i, p) /\ EepromKnown(i, p, known) /\ AreaKnown(i)

----------------------------------------------------------------------------
\* The transfer to Init.
AlPrepared(t, p) ==
  /\ t.to = [all |-> FALSE, slaves |-> {p}] /\ t.target = "Init"
  /\ t.state \in {"Read", "ResetError", "OffAck", "ResetSiiOwnership", "Request", "Poll"}
  /\ t.state \in {"ResetError", "OffAck"} => t.reset = al[p] /\ request[p] = "none"
  /\ t.state \in {"ResetSiiOwnership", "Request", "Poll"} => ~err[p]
  /\ t.state = "Poll" => t.timeout = 5000

AlUnderWay(i, p) == i.state = "RequestInitState" => AlPrepared(i.al, p)

\* What is noted when the PDU is sent.
SentOf(i, p) ==
  /\ i.state = "SetStationAddress" => i.info.configured_address = p + 1
  /\ i.state = "RequestInitState" /\ i.al.state = "Request" => i.al.timeout = 5000

\* The words at the address are in the register, or the EEPROM has failed.
Loaded(p, a) == ee[p].data = Words(Profile(p), a, <<0, 0, 0, 0>>)

Loading(p, a) ==
  \/ ee[p].busy /\ ee[p].loading = a
  \/ ~ee[p].busy /\ (ee[p].command_error \/ Loaded(p, a))

\* What a reader that has sent its PDU relies on; back: the PDU has come back.
SiiPrepared(r, p, back) ==
  /\ r.state \in {"SetOwnership", "CheckOwnership", "SetAddress", "Read"} => ~ee[p].busy
  /\ r.state \notin {"Init", "SetOwnership"} => ~pdi[p]
  /\ r.state = "SetReadOperation" => ee[p].address = r.address /\ (~back => ~ee[p].busy)
  /\ r.state = "Wait" => Loading(p, r.address)
  /\ r.state = "Read" => Loaded(p, r.address)

SiiUnderWay(i, p, known, back) ==
  i.state \in SiiStates =>
    /\ i.sii.address = SiiAddressOf(i.state)
    /\ i.sii.state \notin {"Idle", "Error", "Complete"}
    /\ known => SiiPrepared(i.sii, p, back)

\* The PDU in the socket is the one of the slave's task.
Own(i) ==
  LET q == InitPdu(i) IN
  /\ socket # NoPdu /\ task.command = socket.command
  /\ socket.command = q.command /\ socket.position = q.position /\ socket.value = q.value

\* A PDU that was counted has been executed, and what it read is or was so.
WriteAnswered(i, p) ==
  /\ i.state \in WriteStates => RegisterOf(i) \notin regs[p].dirty
  /\ i.state = "SetSmControl" => regs[p].sm[i.n] = SmValue(i.info.sm[i.n])
  /\ i.state = "SetSmActivation" => (i.n \in regs[p].active <=> IsMailbox(i.info.sm[i.n]))
  /\ i.state = "SetStationAddress" => regs[p].station = p + 1

ReadAnswered(i, p) ==
  /\ i.state = "CheckDlStatus" => socket.answer = ReadOf(p, "DlStatus")
  /\ i.state = "CheckDlInfo" => socket.answer = ReadOf(p, "DlInformation")

AlAnswered(i, p) ==
  i.state = "RequestInitState" /\ i.al.state \in {"Read", "Poll"} =>
    /\ socket.answer.change_err \in BOOLEAN
    /\ \E a \in AlStates : socket.answer.bits = AL!Bits(a) /\ (a = "Init" => al[p] = "Init")
    /\ socket.answer.change_err =>
         err[p] /\ socket.answer.bits = AL!Bits(al[p]) /\ request[p] = "none"
    /\ ~socket.answer.change_err => ~err[p]

SiiAnswered(i, p, known) ==
  i.state \in SiiStates =>
    /\ i.sii.state \in {"Init", "Wait"} =>
         {socket.answer.busy, socket.answer.command_error} \subseteq BOOLEAN
    /\ i.sii.state = "Wait" /\ socket.answer.command_error => faults > 0
    /\ i.sii.state = "Read" => socket.answer \in Word4
    /\ known =>
         /\ i.sii.state = "Init" /\ ~socket.answer.busy => ~ee[p].busy
         /\ i.sii.state = "SetOwnership" => ~pdi[p]
         /\ i.sii.state = "SetAddress" => ee[p].address = i.sii.address
         /\ i.sii.state = "SetReadOperation" => Loading(p, i.sii.address)
         /\ i.sii.state = "Wait" /\ ~socket.answer.busy /\ ~socket.answer.command_error =>
              Loaded(p, i.sii.address) /\ ~ee[p].busy
         /\ i.sii.state = "Read" => socket.answer = Words(Profile(p), i.sii.address, <<0, 0, 0, 0>>)

Answered(i, p, known) ==
  /\ socket.wkc # 1 => faults > 0
  /\ socket.wkc = 1 =>
       /\ WriteAnswered(i, p) /\ ReadAnswered(i, p)
       /\ AlAnswered(i, p) /\ SiiAnswered(i, p, known)

----------------------------------------------------------------------------
\* The task of the slave at p has sent its PDU; back: the PDU has come back.
WorkSent(i, p, known, back) ==
  /\ i \in InitType /\ i.state \notin Ended /\ i.position = p
  /\ Found(i, p, known) /\ AlUnderWay(i, p) /\ SentOf(i, p) /\ SiiUnderWay(i, p, known, back)

WorkUnderWay(i, p, known, back) ==
  WorkSent(i, p, known, back) /\ Own(i) /\ (back => Answered(i, p, known))

\* The next slave is initialised, or its first PDU was missed.
SlaveUnderWay ==
  \E i \in {task.init}, p \in {Len(network)}, known \in {Len(network) \notin ignored},
     back \in {socket.recv_flag} :
       /\ i.position = p /\ task.count = p /\ p < task.num_slaves
       /\ task.state = "StartInitSlaves" => i.state = "SetLoopPort"
       /\ (i.state = "Error" /\ socket = NoPdu) \/ WorkUnderWay(i, p, known, back)

\* A slave that was pushed.
OwnInfo(p, info) ==
  /\ info.number_of_fmmu = Profile(p).fmmu /\ info.number_of_sm = Profile(p).sm
  /\ info.support_dc = Profile(p).dc /\ info.linked = Profile(p).linked
  /\ p \notin ignored =>
       /\ info.vender_id = Profile(p).eeprom[VenderId]
       /\ info.product_code = Profile(p).eeprom[ProductCode]
       /\ info.revision_number = Profile(p).eeprom[RevisionNumber]
       /\ info.support_coe = ((Profile(p).eeprom[MailboxProtocol] \div 4) % 2 = 1)
       /\ \A n \in SmNumber : info.sm[n] = SmIn(p, n)

ReadySlave(p, info) ==
  /\ al[p] = "Init"
  /\ regs[p].station = p + 1 /\ info.configured_address = p + 1
  /\ \A r \in regs[p].dirty : 56 <= ResetAt(r)
  /\ \A n \in SmNumber :
       /\ regs[p].sm[n] = SmValue(info.sm[n])
       /\ n \in regs[p].active <=> IsMailbox(info.sm[n])
  /\ AreaRight(info)

\* The count; the command of a new task, or the PDU of the count.
Counting ==
  /\ task.command \in {DefaultCommand, CountCommand}
  /\ task.command = CountCommand => socket.command = CountCommand
  /\ socket.recv_flag => faults > 0 \/ (socket.command = task.command /\ socket.wkc = Len(bus.slaves))
  /\ faults = 0 =>
       task.command = socket.command /\ (socket.command = CountCommand \/ socket = NoPdu)

CountKept == miscounted \/ task.num_slaves = Len(bus.slaves)

IsTask(t) ==
  /\ t = [state |-> t.state, count |-> t.count, num_slaves |-> t.num_slaves,
          error |-> t.error, command |-> t.command, init |-> t.init]
  /\ t.state \in NetworkInitState /\ t.count \in Nat /\ t.num_slaves \in Nat
  /\ t.init \in InitType

NetworkOk ==
  /\ network \in Seq(SlaveType)
  /\ Len(network) <= Len(bus.slaves) /\ Len(network) <= bus.capacity
  /\ task.num_slaves <= Len(bus.slaves)
  /\ task.state = "Complete" => Len(network) = task.num_slaves

SocketOk ==
  /\ \E q \in {socket} : PduOk(q) /\ WriteOk(q)
  /\ ~Busy /\ task.error # "GivenUp" => socket = NoPdu

\* The slaves that were pushed.
SlavesRight ==
  /\ \A k \in 1 .. Len(network) : \A info \in {network[k].info} : OwnInfo(k - 1, info)
  /\ task.state \in {"StartInitSlaves", "WaitInitSlaves", "Complete"} =>
       /\ \A k \in 1 .. Len(network) : \A info \in {network[k].info} : ReadySlave(k - 1, info)
       /\ CountKept

TaskRight ==
  /\ task.state = "CountSlaves" => Counting
  /\ task.state \in {"StartInitSlaves", "WaitInitSlaves"} => SlaveUnderWay
  /\ task.error = "GivenUp" => task.state = "Error" /\ faults > 0

Unsupported(p) == ~Profile(p).loaded \/ ~Profile(p).lrw \/ (Profile(p).dc /\ ~Profile(p).dc_range)

Overflow(info, p) == AreaOverflows([info EXCEPT !.sm = [n \in SmNumber |-> SmIn(p, n)]])

\* Why the task t may end as it does.
Excuse(t, s) ==
  /\ t.state = "Error" =>
       /\ t.error = "TooManySlaves" => Len(s) = bus.capacity /\ bus.capacity < Len(bus.slaves)
       /\ t.error = "FailedToLoadEEPROM" => ~Profile(t.init.position).loaded
       /\ t.error \notin {"TooManySlaves", "FailedToLoadEEPROM"} => faults > 0
  /\ t.state = "panic" =>
       Unsupported(t.init.position) \/ Overflow(t.init.info, t.init.position) \/ t.init.position \in ignored

Excused == \E t \in {task}, s \in {network} : Excuse(t, s)

\* The counters of the model.
CountersOk ==
  /\ faults \in 0 .. MaxFaults /\ calls \in 0 .. MaxCalls
  /\ ignored \subseteq Pos /\ miscounted \in BOOLEAN

NetworkInv ==
  /\ bus \in Buses /\ IsTask(task) /\ NetworkOk /\ SocketOk /\ DevicesOk /\ CountersOk
  /\ SlavesRight /\ TaskRight /\ Excused

\* The slaves of the network and their positions.
LEMMA BusFacts ==
  ASSUME bus \in Buses
  PROVE  /\ Len(bus.slaves) \in 0 .. MaxSlaves /\ MaxSlaves \in Nat /\ bus.capacity \in Nat
         /\ Slaves = 0 .. Len(bus.slaves) - 1 /\ Slaves \subseteq Pos
         /\ 0 \in Pos
         /\ \A p \in Slaves : IsProfile(Profile(p))
  BY BusAssumption DEF Slaves, Pos, Profile

\* Numbers as large as these are kept from the provers.
LEMMA Numbers ==
  /\ U16 \subseteq Nat /\ 0 \in U16 /\ MAX_SM_SIZE \in Nat /\ 0 \in 0 .. MAX_SM_SIZE
  /\ RamStart \in Nat
  BY SMT DEF U16, MAX_SM_SIZE, RamStart

\* The values of a sync manager in SlaveInfo, and which of them are mailboxes.
LEMMA SmTypes ==
  /\ NoSm \in SmType
  /\ \A kind \in {"ProcessDataRx", "ProcessDataTx"} :
       /\ ProcessDataSm(kind) \in SmType
       /\ ~IsMailbox(ProcessDataSm(kind)) /\ ProcessDataSm(kind).start = 0
  /\ \A kind \in {"MailboxRx", "MailboxTx"}, size \in 0 .. MAX_SM_SIZE :
       /\ MailboxSm(kind, size) \in SmType
       /\ IsMailbox(MailboxSm(kind, size)) /\ MailboxSm(kind, size).start = 0
       /\ MailboxSm(kind, size).size = size
  /\ ~IsMailbox(NoSm)
<1>1. NoSm \in SmType /\ ~IsMailbox(NoSm)
  BY Numbers, SMT DEF NoSm, SmType, IsMailbox
<1>2. ASSUME NEW kind \in {"ProcessDataRx", "ProcessDataTx"}
      PROVE  /\ ProcessDataSm(kind) \in SmType
             /\ ~IsMailbox(ProcessDataSm(kind)) /\ ProcessDataSm(kind).start = 0
  <2>1. ProcessDataSm(kind) = [kind |-> kind, size |-> 0, start |-> 0]
    BY SMT DEF ProcessDataSm, NoSm
  <2>2. QED
    BY <2>1, Numbers, SMT DEF SmType, IsMailbox
<1>3. ASSUME NEW kind \in {"MailboxRx", "MailboxTx"}, NEW size \in 0 .. MAX_SM_SIZE
      PROVE  /\ MailboxSm(kind, size) \in SmType
             /\ IsMailbox(MailboxSm(kind, size)) /\ MailboxSm(kind, size).start = 0
             /\ MailboxSm(kind, size).size = size
  BY Numbers, SMT DEF MailboxSm, SmType, IsMailbox
<1>4. QED
  BY <1>1, <1>2, <1>3

\* SlaveInfo::default says nothing of a sync manager.
LEMMA NewInfoType ==
  /\ NewInfo \in InfoType /\ NewInfo.pdo_size = 0
  /\ \A n \in SmNumber : NewInfo.sm[n] = NoSm
  BY SmTypes, Numbers, SMT DEF NewInfo, InfoType, SmNumber

\* An empty data register.
LEMMA ZeroWords == <<0, 0, 0, 0>> \in Word4
<1>1. \A k \in 1 .. 4 : <<0, 0, 0, 0>>[k] = 0
  OBVIOUS
<1>2. <<0, 0, 0, 0>> = [k \in 1 .. 4 |-> <<0, 0, 0, 0>>[k]]
  OBVIOUS
<1>3. QED
  BY <1>1, <1>2, Numbers DEF Word4

\* SiiReader::new.
LEMMA NewSiiType == NewSiiReader \in SiiType
  BY ZeroWords DEF NewSiiReader, SiiType, SiiState

\* The result of a read of four words that is known.
LEMMA WordsType ==
  ASSUME NEW f, IsProfile(f), NEW a \in 0 .. 28, NEW old \in Word4
  PROVE  Words(f, a, old) \in Word4
<1>1. \A k \in 1 .. 4 : a + k - 1 \in 0 .. 31
  OBVIOUS
<1>2. QED
  BY <1>1 DEF Words, Word4, IsProfile

\* The same but for the fields named.
SameInfo(names, u, x) ==
  /\ "configured_address" \in names \/ u.configured_address = x.configured_address
  /\ "vender_id" \in names \/ u.vender_id = x.vender_id
  /\ "product_code" \in names \/ u.product_code = x.product_code
  /\ "revision_number" \in names \/ u.revision_number = x.revision_number
  /\ "linked" \in names \/ u.linked = x.linked
  /\ "ram_size_kb" \in names \/ u.ram_size_kb = x.ram_size_kb
  /\ "number_of_fmmu" \in names \/ u.number_of_fmmu = x.number_of_fmmu
  /\ "number_of_sm" \in names \/ u.number_of_sm = x.number_of_sm
  /\ "pdo_start" \in names \/ u.pdo_start = x.pdo_start
  /\ "pdo_size" \in names \/ u.pdo_size = x.pdo_size
  /\ "sm" \in names \/ u.sm = x.sm
  /\ "support_dc" \in names \/ u.support_dc = x.support_dc
  /\ "support_coe" \in names \/ u.support_coe = x.support_coe

\* set_process_data_sm_size_offset: whatever the EEPROM says, the area lies apart from the
\* mailboxes, and in the RAM if they do.
LEMMA AreaIsRight ==
  ASSUME NEW info \in InfoType, info.pdo_size = 0
  PROVE  LET u == WithProcessDataArea(info) IN
         u \in InfoType /\ SameInfo({"pdo_start", "pdo_size"}, u, info) /\ AreaRight(u)
<1> DEFINE u == WithProcessDataArea(info)
           before == Excess(MailboxStart(info), RamStart)
           behind == Excess(RamEnd(info), MailboxEnd(info))
<1>1. /\ info.sm[0] \in SmType /\ info.sm[1] \in SmType /\ info.ram_size_kb \in Nat
  BY DEF InfoType, SmNumber
<1>2. \A n \in {0, 1} : info.sm[n].size \in Nat /\ info.sm[n].start \in Nat
  <2>1. ASSUME NEW sm \in SmType
        PROVE  sm.size \in Nat /\ sm.start \in Nat
    <3>1. sm.size \in 0 .. MAX_SM_SIZE /\ sm.start \in U16
      BY DEF SmType
    <3>2. sm.start \in Nat
      BY <3>1, Numbers, Zenon
    <3>3. sm.size \in Nat
      BY <3>1, SMT
    <3>4. QED
      BY <3>2, <3>3
  <2>2. QED
    BY <1>1, <2>1
<1>3. MailboxEnd(info) + 1 \in Nat /\ MailboxEnd(info) \in Int /\ RamEnd(info) \in Nat /\ MailboxStart(info) \in Nat
  BY <1>1, <1>2, SMT DEF MailboxEnd, Larger, RamEnd, RamStart, MailboxStart, Smaller
<1>4. before \in Nat /\ behind \in Nat
  BY <1>3, Numbers, SMT DEF Excess
<1>5. ASSUME NEW start \in Nat, NEW size \in Nat, u = [info EXCEPT !.pdo_start = start, !.pdo_size = size]
      PROVE  u \in InfoType /\ u.pdo_start = start /\ u.pdo_size = size /\ SameInfo({"pdo_start", "pdo_size"}, u, info)
  <2> DEFINE v == [info EXCEPT !.pdo_start = start]
  <2>1. v \in InfoType /\ v.pdo_start = start /\ SameInfo({"pdo_start", "pdo_size"}, v, info)
    BY SMT DEF InfoType, SameInfo
  <2>2. u = [v EXCEPT !.pdo_size = size]
    BY <1>5
  <2> HIDE DEF u, v
  <2>3. u \in InfoType /\ u.pdo_start = v.pdo_start /\ u.pdo_size = size /\ SameInfo({"pdo_start", "pdo_size"}, u, v)
    BY <2>1, <2>2, SMT DEF InfoType, SameInfo
  <2>4. QED
    BY <2>1, <2>3 DEF SameInfo
<1>6. CASE ~(IsMailbox(info.sm[0]) /\ IsMailbox(info.sm[1]))
  <2>1. u = [info EXCEPT !.pdo_start = 0]
    BY <1>6 DEF WithProcessDataArea
  <2>2. u \in InfoType /\ u.pdo_size = 0 /\ SameInfo({"pdo_start", "pdo_size"}, u, info)
    BY <2>1, SMT DEF InfoType, SameInfo
  <2>3. AreaRight(u)
    BY <2>2, SMT DEF AreaRight
  <2>4. QED
    BY <2>2, <2>3
<1>7. CASE IsMailbox(info.sm[0]) /\ IsMailbox(info.sm[1]) /\ before > behind
  <2>1. ~(before <= behind)
    BY <1>4, <1>7
  <2>2. u = [info EXCEPT !.pdo_start = RamStart, !.pdo_size = before]
    BY <1>7, <2>1, Zenon DEF WithProcessDataArea
  <2> HIDE DEF u
  <2>3. u \in InfoType /\ u.pdo_start = RamStart /\ u.pdo_size = before /\ SameInfo({"pdo_start", "pdo_size"}, u, info)
    BY <1>4, <1>5, <2>2, Numbers
  <2>4. before > 0 => RamStart + before = MailboxStart(info)
    BY <1>3, Numbers, SMT DEF Excess
  <2>5. \A n \in {0, 1} : MailboxStart(info) <= info.sm[n].start
    BY <1>2, SMT DEF MailboxStart, Smaller
  <2>6. RamEnd(u) = RamEnd(info) /\ u.sm = info.sm
    BY <2>3 DEF RamEnd, SameInfo
  <2> HIDE DEF before
  <2>7. ASSUME u.pdo_size > 0, NEW n \in {0, 1}
        PROVE  Area(u.pdo_start, u.pdo_size) \cap Area(u.sm[n].start, u.sm[n].size) = {}
    <3>1. u.pdo_start + u.pdo_size <= info.sm[n].start
      BY <2>3, <2>4, <2>5, <2>7
    <3>2. QED
      BY <1>2, <1>3, <1>4, <2>3, <2>6, <3>1, Numbers, SMT DEF Area
  <2>8. ASSUME u.pdo_size > 0, MailboxesInRam(u)
        PROVE  Area(u.pdo_start, u.pdo_size) \subseteq RamStart .. RamEnd(u)
    <3>1. MailboxStart(info) <= RamEnd(info) + 1
      BY <1>2, <1>3, <2>6, <2>8, Numbers, SMT DEF MailboxesInRam, MailboxStart, Smaller
    <3>2. QED
      BY <1>3, <1>4, <2>3, <2>4, <2>6, <2>8, <3>1, Numbers, SMT DEF Area
  <2>9. AreaRight(u)
    BY <2>7, <2>8, Zenon DEF AreaRight
  <2>10. QED
    BY <2>3, <2>9 DEF u
<1>8. CASE IsMailbox(info.sm[0]) /\ IsMailbox(info.sm[1]) /\ before <= behind
  <2>1. ~(before > behind)
    BY <1>4, <1>8
  <2>2. u = [info EXCEPT !.pdo_start = MailboxEnd(info) + 1, !.pdo_size = behind]
    BY <1>8, <2>1, Zenon DEF WithProcessDataArea
  <2> HIDE DEF u
  <2>3. u \in InfoType /\ u.pdo_start = MailboxEnd(info) + 1 /\ u.pdo_size = behind /\ SameInfo({"pdo_start", "pdo_size"}, u, info)
    BY <1>3, <1>4, <1>5, <2>2
  <2>4. behind > 0 => MailboxEnd(info) + behind = RamEnd(info)
    BY <1>3, Numbers, SMT DEF Excess
  <2>5. \A n \in {0, 1} : info.sm[n].start + info.sm[n].size <= MailboxEnd(info) + 1
    BY <1>2, SMT DEF MailboxEnd, Larger
  <2>6. RamEnd(u) = RamEnd(info) /\ u.sm = info.sm
    BY <2>3 DEF RamEnd, SameInfo
  <2> HIDE DEF behind
  <2>7. ASSUME u.pdo_size > 0, NEW n \in {0, 1}
        PROVE  Area(u.pdo_start, u.pdo_size) \cap Area(u.sm[n].start, u.sm[n].size) = {}
    <3>1. info.sm[n].start + info.sm[n].size <= u.pdo_start
      BY <2>3, <2>5, <2>7
    <3>2. QED
      BY <1>2, <1>3, <1>4, <2>3, <2>6, <3>1, SMT DEF Area
  <2>8. ASSUME u.pdo_size > 0, MailboxesInRam(u)
        PROVE  Area(u.pdo_start, u.pdo_size) \subseteq RamStart .. RamEnd(u)
    <3>1. RamStart <= MailboxEnd(info) + 1
      BY <1>2, <1>3, <2>5, <2>6, <2>8, Numbers, SMT DEF MailboxesInRam
    <3>2. QED
      BY <1>3, <1>4, <2>3, <2>4, <2>6, <2>8, <3>1, Numbers, SMT DEF Area
  <2>9. AreaRight(u)
    BY <2>7, <2>8, Zenon DEF AreaRight
  <2>10. QED
    BY <2>3, <2>9 DEF u
<1>9. QED
  BY <1>4, <1>6, <1>7, <1>8

\* The parts of the task that a step to another state leaves alone.
SameTask(a, b) ==
  a.position = b.position /\ a.info = b.info /\ a.al = b.al /\ a.sii = b.sii /\ a.error = b.error

\* The place of the task, state by state.
LEMMA RankValues ==
  ASSUME NEW i \in InitType
  PROVE  /\ i.state = "SetLoopPort" => Rank(i) = 1
         /\ i.state = "RequestInitState" => Rank(i) = 2
         /\ i.state = "ResetErrorCount" => Rank(i) = 3
         /\ i.state = "SetWatchDogDivider" => Rank(i) = 4
         /\ i.state = "DisableDlWatchDog" => Rank(i) = 5
         /\ i.state = "DisableSmWatchDog" => Rank(i) = 6
         /\ i.state = "CheckDlStatus" => Rank(i) = 7
         /\ i.state = "CheckDlInfo" => Rank(i) = 8
         /\ i.state = "ClearFmmu" => Rank(i) = 10 + i.n
         /\ i.state = "ClearSm" => Rank(i) = 20 + i.n
         /\ i.state = "GetVenderID" => Rank(i) = 31
         /\ i.state = "GetProductCode" => Rank(i) = 32
         /\ i.state = "GetRevision" => Rank(i) = 33
         /\ i.state = "GetProtocol" => Rank(i) = 34
         /\ i.state = "GetRxMailboxSize" => Rank(i) = 35
         /\ i.state = "GetRxMailboxOffset" => Rank(i) = 36
         /\ i.state = "GetTxMailboxSize" => Rank(i) = 37
         /\ i.state = "GetTxMailboxOffset" => Rank(i) = 38
         /\ i.state = "SetSmControl" => Rank(i) = 40 + 2 * i.n
         /\ i.state = "SetSmActivation" => Rank(i) = 41 + 2 * i.n
         /\ i.state = "SetStationAddress" => Rank(i) = 50
         /\ i.state = "CheckPdiControl" => Rank(i) = 51
         /\ i.state = "ClearDcActivation" => Rank(i) = 52
         /\ i.state = "ClearCyclicOperationStartTime" => Rank(i) = 53
         /\ i.state = "ClearSync0CycleTime" => Rank(i) = 54
         /\ i.state = "ClearSync1CycleTime" => Rank(i) = 55
         /\ i.state = "Complete" => Rank(i) = 56
         /\ i.state \in {"Idle", "Error", "panic"} => Rank(i) = 0
  BY ZenonT(60) DEF Rank

\* The fields of the slave's task.
LEMMA InitFields ==
  ASSUME NEW i \in InitType
  PROVE  /\ i.state \in SlaveInitState /\ i.n \in 0 .. 4 /\ i.first \in BOOLEAN /\ i.position \in Pos
         /\ i.info \in InfoType /\ i.al \in AL!Task /\ i.sii \in SiiType
         /\ i.error \in {"none", "UnexpectedWkc", "FailedToLoadEEPROM", "SiiRead", "AlStateTransition"}
  BY DEF InitType

\* A step to another state starts its count and its inner task anew.
LEMMA GotoMoves ==
  ASSUME NEW i \in InitType, NEW state \in SlaveInitState
  PROVE  LET u == Goto(i, state) IN
         u \in InitType /\ u.state = state /\ u.n = 0 /\ u.first = TRUE /\ SameTask(u, i)
<1> DEFINE v == [i EXCEPT !.state = state]
           w == [v EXCEPT !.n = 0]
           u == [w EXCEPT !.first = TRUE]
<1>1. v \in InitType /\ v.state = state /\ SameTask(v, i)
  BY DEF InitType, SameTask
<1>2. w \in InitType /\ w.n = 0 /\ w.state = v.state /\ SameTask(w, v)
  <2> HIDE DEF v
  <2> QED BY <1>1 DEF InitType, SameTask
<1>3. u \in InitType /\ u.first = TRUE /\ u.state = w.state /\ u.n = w.n /\ SameTask(u, w)
  <2> HIDE DEF w
  <2> QED BY <1>2 DEF InitType, SameTask
<1>4. Goto(i, state) = u
  BY DEF Goto
<1> HIDE DEF u, v, w
<1>5. QED
  BY <1>1, <1>2, <1>3, <1>4 DEF SameTask

\* The places of the writes and where they lead.
WriteRanks == {1} \cup 3 .. 6 \cup 10 .. 13 \cup 20 .. 24 \cup 40 .. 47 \cup {50} \cup 52 .. 55

AfterRank(r) == CASE r = 13 -> 20 [] r = 24 -> 31 [] r = 47 -> 50 [] OTHER -> r + 1

Moved(u, i) ==
  /\ u \in InitType /\ SameTask(u, i) /\ CountsRight(u)
  /\ u.state \notin {"Idle", "Error", "panic"}
  /\ u.state \in SiiStates \cup {"RequestInitState"} => u.first
  /\ Rank(i) \in WriteRanks /\ Rank(u) = AfterRank(Rank(i))

\* A step of the counter of ClearFmmu, ClearSm and the sync managers.
LEMMA CountMoves ==
  ASSUME NEW i \in InitType, i.n < 4
  PROVE  LET u == [i EXCEPT !.n = @ + 1] IN
         u \in InitType /\ u.state = i.state /\ u.n = i.n + 1 /\ SameTask(u, i)
<1>1. i.n + 1 \in 0 .. 4
  BY InitFields
<1>2. QED
  BY <1>1 DEF InitType, SameTask

\* A step to the state of the next place.
LEMMA GotoRank ==
  ASSUME NEW i \in InitType, NEW state \in SlaveInitState, state \notin {"Idle", "Error", "panic"},
         CountsRight(Goto(i, state)),
         Rank(i) \in WriteRanks, Rank(Goto(i, state)) = AfterRank(Rank(i))
  PROVE  Moved(Goto(i, state), i)
  BY GotoMoves DEF Moved

\* After a write the slave's task is at the next place: no register is left out.
LEMMA WriteMoves ==
  ASSUME NEW i \in InitType, i.state \in WriteStates, CountsRight(i)
  PROVE  Moved(AfterWrite(i), i)
<1> DEFINE u == AfterWrite(i)
<1>0. /\ \A s \in SlaveInitState : Goto(i, s) \in InitType /\ Goto(i, s).state = s /\ Goto(i, s).n = 0
      /\ i.n \in 0 .. 4
      /\ SlaveInitState = SiiStates \cup ReadStates \cup WriteStates \cup Ended \cup {"RequestInitState"}
  BY GotoMoves, InitFields DEF SlaveInitState
<1>1. CASE i.state = "SetLoopPort"
  <2>1. u = Goto(i, "RequestInitState")
    BY <1>1 DEF AfterWrite
  <2>2. "RequestInitState" \in SlaveInitState
    BY DEF SlaveInitState, ReadStates, WriteStates, Ended
  <2>3. Rank(i) \in WriteRanks /\ Rank(Goto(i, "RequestInitState")) = AfterRank(Rank(i))
    BY <1>0, <1>1, <2>2, RankValues DEF WriteRanks, AfterRank
  <2>4. CountsRight(Goto(i, "RequestInitState"))
    BY <1>0, <2>2 DEF CountsRight
  <2>5. QED
    BY <2>1, <2>2, <2>3, <2>4, GotoRank
<1>2. CASE i.state = "ResetErrorCount"
  <2>1. u = Goto(i, "SetWatchDogDivider")
    BY <1>2 DEF AfterWrite
  <2>2. "SetWatchDogDivider" \in SlaveInitState
    BY DEF SlaveInitState, ReadStates, WriteStates, Ended
  <2>3. Rank(i) \in WriteRanks /\ Rank(Goto(i, "SetWatchDogDivider")) = AfterRank(Rank(i))
    BY <1>0, <1>2, <2>2, RankValues DEF WriteRanks, AfterRank
  <2>4. CountsRight(Goto(i, "SetWatchDogDivider"))
    BY <1>0, <2>2 DEF CountsRight
  <2>5. QED
    BY <2>1, <2>2, <2>3, <2>4, GotoRank
<1>3. CASE i.state = "SetWatchDogDivider"
  <2>1. u = Goto(i, "DisableDlWatchDog")
    BY <1>3 DEF AfterWrite
  <2>2. "DisableDlWatchDog" \in SlaveInitState
    BY DEF SlaveInitState, ReadStates, WriteStates, Ended
  <2>3. Rank(i) \in WriteRanks /\ Rank(Goto(i, "DisableDlWatchDog")) = AfterRank(Rank(i))
    BY <1>0, <1>3, <2>2, RankValues DEF WriteRanks, AfterRank
  <2>4. CountsRight(Goto(i, "DisableDlWatchDog"))
    BY <1>0, <2>2 DEF CountsRight
  <2>5. QED
    BY <2>1, <2>2, <2>3, <2>4, GotoRank
<1>4. CASE i.state = "DisableDlWatchDog"
  <2>1. u = Goto(i, "DisableSmWatchDog")
    BY <1>4 DEF AfterWrite
  <2>2. "DisableSmWatchDog" \in SlaveInitState
    BY DEF SlaveInitState, ReadStates, WriteStates, Ended
  <2>3. Rank(i) \in WriteRanks /\ Rank(Goto(i, "DisableSmWatchDog")) = AfterRank(Rank(i))
    BY <1>0, <1>4, <2>2, RankValues DEF WriteRanks, AfterRank
  <2>4. CountsRight(Goto(i, "DisableSmWatchDog"))
    BY <1>0, <2>2 DEF CountsRight
  <2>5. QED
    BY <2>1, <2>2, <2>3, <2>4, GotoRank
<1>5. CASE i.state = "DisableSmWatchDog"
  <2>1. u = Goto(i, "CheckDlStatus")
    BY <1>5 DEF AfterWrite
  <2>2. "CheckDlStatus" \in SlaveInitState
    BY DEF SlaveInitState, ReadStates, WriteStates, Ended
  <2>3. Rank(i) \in WriteRanks /\ Rank(Goto(i, "CheckDlStatus")) = AfterRank(Rank(i))
    BY <1>0, <1>5, <2>2, RankValues DEF WriteRanks, AfterRank
  <2>4. CountsRight(Goto(i, "CheckDlStatus"))
    BY <1>0, <2>2 DEF CountsRight
  <2>5. QED
    BY <2>1, <2>2, <2>3, <2>4, GotoRank
<1>6. CASE i.state = "SetStationAddress"
  <2>1. u = Goto(i, "CheckPdiControl")
    BY <1>6 DEF AfterWrite
  <2>2. "CheckPdiControl" \in SlaveInitState
    BY DEF SlaveInitState, ReadStates, WriteStates, Ended
  <2>3. Rank(i) \in WriteRanks /\ Rank(Goto(i, "CheckPdiControl")) = AfterRank(Rank(i))
    BY <1>0, <1>6, <2>2, RankValues DEF WriteRanks, AfterRank
  <2>4. CountsRight(Goto(i, "CheckPdiControl"))
    BY <1>0, <2>2 DEF CountsRight
  <2>5. QED
    BY <2>1, <2>2, <2>3, <2>4, GotoRank
<1>7. CASE i.state = "ClearDcActivation"
  <2>1. u = Goto(i, "ClearCyclicOperationStartTime")
    BY <1>7 DEF AfterWrite
  <2>2. "ClearCyclicOperationStartTime" \in SlaveInitState
    BY DEF SlaveInitState, ReadStates, WriteStates, Ended
  <2>3. Rank(i) \in WriteRanks /\ Rank(Goto(i, "ClearCyclicOperationStartTime")) = AfterRank(Rank(i))
    BY <1>0, <1>7, <2>2, RankValues DEF WriteRanks, AfterRank
  <2>4. CountsRight(Goto(i, "ClearCyclicOperationStartTime"))
    BY <1>0, <2>2 DEF CountsRight
  <2>5. QED
    BY <2>1, <2>2, <2>3, <2>4, GotoRank
<1>8. CASE i.state = "ClearCyclicOperationStartTime"
  <2>1. u = Goto(i, "ClearSync0CycleTime")
    BY <1>8 DEF AfterWrite
  <2>2. "ClearSync0CycleTime" \in SlaveInitState
    BY DEF SlaveInitState, ReadStates, WriteStates, Ended
  <2>3. Rank(i) \in WriteRanks /\ Rank(Goto(i, "ClearSync0CycleTime")) = AfterRank(Rank(i))
    BY <1>0, <1>8, <2>2, RankValues DEF WriteRanks, AfterRank
  <2>4. CountsRight(Goto(i, "ClearSync0CycleTime"))
    BY <1>0, <2>2 DEF CountsRight
  <2>5. QED
    BY <2>1, <2>2, <2>3, <2>4, GotoRank
<1>9. CASE i.state = "ClearSync0CycleTime"
  <2>1. u = Goto(i, "ClearSync1CycleTime")
    BY <1>9 DEF AfterWrite
  <2>2. "ClearSync1CycleTime" \in SlaveInitState
    BY DEF SlaveInitState, ReadStates, WriteStates, Ended
  <2>3. Rank(i) \in WriteRanks /\ Rank(Goto(i, "ClearSync1CycleTime")) = AfterRank(Rank(i))
    BY <1>0, <1>9, <2>2, RankValues DEF WriteRanks, AfterRank
  <2>4. CountsRight(Goto(i, "ClearSync1CycleTime"))
    BY <1>0, <2>2 DEF CountsRight
  <2>5. QED
    BY <2>1, <2>2, <2>3, <2>4, GotoRank
<1>10. CASE i.state = "ClearSync1CycleTime"
  <2>1. u = Goto(i, "Complete")
    BY <1>10 DEF AfterWrite
  <2>2. "Complete" \in SlaveInitState
    BY DEF SlaveInitState, ReadStates, WriteStates, Ended
  <2>3. Rank(i) \in WriteRanks /\ Rank(Goto(i, "Complete")) = AfterRank(Rank(i))
    BY <1>0, <1>10, <2>2, RankValues DEF WriteRanks, AfterRank
  <2>4. CountsRight(Goto(i, "Complete"))
    BY <1>0, <2>2 DEF CountsRight
  <2>5. QED
    BY <2>1, <2>2, <2>3, <2>4, GotoRank
<1>11. CASE i.state = "ClearFmmu"
  <2>0. u = IF i.n < 3 THEN [i EXCEPT !.n = @ + 1] ELSE Goto(i, "ClearSm")
    BY <1>11 DEF AfterWrite
  <2>1. CASE i.n < 3
    <3>1. u = [i EXCEPT !.n = @ + 1]
      BY <2>0, <2>1
    <3>2. u \in InitType /\ u.state = i.state /\ u.n = i.n + 1 /\ SameTask(u, i)
      BY <1>0, <2>1, <3>1, CountMoves
    <3> HIDE DEF u
    <3>3. Rank(i) \in WriteRanks /\ Rank(u) = AfterRank(Rank(i))
      BY <1>0, <1>11, <2>1, <3>2, RankValues DEF WriteRanks, AfterRank
    <3>4. CountsRight(u)
      BY <1>0, <1>11, <2>1, <3>2 DEF CountsRight, FmmuCleared
    <3>5. u.state \notin SiiStates \cup {"RequestInitState", "Idle", "Error", "panic"}
      BY <1>11, <3>2 DEF SiiStates
    <3>6. Moved(u, i)
      BY <3>2, <3>3, <3>4, <3>5 DEF Moved
    <3>7. QED
      BY <3>6 DEF u
  <2>2. CASE ~(i.n < 3)
    <3>1. u = Goto(i, "ClearSm")
      BY <2>0, <2>2
    <3>2. "ClearSm" \in SlaveInitState
      BY DEF SlaveInitState, WriteStates
    <3>3. i.n = 3
      BY <1>0, <1>11, <2>2 DEF CountsRight, FmmuCleared
    <3>4. Rank(i) \in WriteRanks /\ Rank(Goto(i, "ClearSm")) = AfterRank(Rank(i))
      BY <1>0, <1>11, <3>2, <3>3, RankValues DEF WriteRanks, AfterRank
    <3>5. CountsRight(Goto(i, "ClearSm"))
      BY <1>0, <3>2 DEF CountsRight
    <3>6. QED
      BY <3>1, <3>2, <3>4, <3>5, GotoRank
  <2>3. QED
    BY <2>1, <2>2
<1>12. CASE i.state = "ClearSm"
  <2>0. u = IF i.n < 4 THEN [i EXCEPT !.n = @ + 1] ELSE Goto(i, "GetVenderID")
    BY <1>12 DEF AfterWrite
  <2>1. CASE i.n < 4
    <3>1. u = [i EXCEPT !.n = @ + 1]
      BY <2>0, <2>1
    <3>2. u \in InitType /\ u.state = i.state /\ u.n = i.n + 1 /\ SameTask(u, i)
      BY <1>0, <2>1, <3>1, CountMoves
    <3> HIDE DEF u
    <3>3. Rank(i) \in WriteRanks /\ Rank(u) = AfterRank(Rank(i))
      BY <1>0, <1>12, <2>1, <3>2, RankValues DEF WriteRanks, AfterRank
    <3>4. CountsRight(u)
      BY <1>0, <1>12, <2>1, <3>2 DEF CountsRight, FmmuCleared
    <3>5. u.state \notin SiiStates \cup {"RequestInitState", "Idle", "Error", "panic"}
      BY <1>12, <3>2 DEF SiiStates
    <3>6. Moved(u, i)
      BY <3>2, <3>3, <3>4, <3>5 DEF Moved
    <3>7. QED
      BY <3>6 DEF u
  <2>2. CASE ~(i.n < 4)
    <3>1. u = Goto(i, "GetVenderID")
      BY <2>0, <2>2
    <3>2. "GetVenderID" \in SlaveInitState
      BY DEF SlaveInitState, SiiStates
    <3>3. i.n = 4
      BY <1>0, <1>12, <2>2 DEF CountsRight, FmmuCleared
    <3>4. Rank(i) \in WriteRanks /\ Rank(Goto(i, "GetVenderID")) = AfterRank(Rank(i))
      BY <1>0, <1>12, <3>2, <3>3, RankValues DEF WriteRanks, AfterRank
    <3>5. CountsRight(Goto(i, "GetVenderID"))
      BY <1>0, <3>2 DEF CountsRight
    <3>6. QED
      BY <3>1, <3>2, <3>4, <3>5, GotoRank
  <2>3. QED
    BY <2>1, <2>2
<1>13. CASE i.state = "SetSmControl"
  <2>1. u = [i EXCEPT !.state = "SetSmActivation"]
    BY <1>13 DEF AfterWrite
  <2>2. "SetSmActivation" \in SlaveInitState
    BY DEF SlaveInitState, WriteStates
  <2>3. u \in InitType /\ u.state = "SetSmActivation" /\ u.n = i.n /\ SameTask(u, i)
    BY <2>1, <2>2 DEF InitType, SameTask
  <2> HIDE DEF u
  <2>4. Rank(i) \in WriteRanks /\ Rank(u) = AfterRank(Rank(i))
    BY <1>0, <1>13, <2>3, RankValues DEF WriteRanks, AfterRank, CountsRight, SmNumber
  <2>5. CountsRight(u) /\ u.state \notin SiiStates \cup {"RequestInitState", "Idle", "Error", "panic"}
    BY <1>13, <2>3 DEF CountsRight, SiiStates
  <2>6. Moved(u, i)
    BY <2>3, <2>4, <2>5 DEF Moved
  <2>7. QED
    BY <2>6 DEF u
<1>14. CASE i.state = "SetSmActivation" /\ i.n < 3
  <2> DEFINE v == [i EXCEPT !.state = "SetSmControl"]
  <2>1. u = [v EXCEPT !.n = @ + 1]
    BY <1>0, <1>14 DEF AfterWrite
  <2>2. "SetSmControl" \in SlaveInitState
    BY DEF SlaveInitState, WriteStates
  <2>3. v \in InitType /\ v.state = "SetSmControl" /\ v.n = i.n /\ SameTask(v, i)
    BY <2>2 DEF InitType, SameTask
  <2> HIDE DEF v
  <2>4. u \in InitType /\ u.state = v.state /\ u.n = v.n + 1 /\ SameTask(u, v)
    BY <1>0, <1>14, <2>1, <2>3, CountMoves
  <2> HIDE DEF u
  <2>5. u \in InitType /\ u.state = "SetSmControl" /\ u.n = i.n + 1 /\ SameTask(u, i)
    BY <2>3, <2>4 DEF SameTask
  <2>6. Rank(i) \in WriteRanks /\ Rank(u) = AfterRank(Rank(i))
    BY <1>0, <1>14, <2>5, RankValues DEF WriteRanks, AfterRank
  <2>7. CountsRight(u) /\ u.state \notin SiiStates \cup {"RequestInitState", "Idle", "Error", "panic"}
    BY <1>0, <1>14, <2>5 DEF CountsRight, SiiStates, SmNumber
  <2>8. Moved(u, i)
    BY <2>5, <2>6, <2>7 DEF Moved
  <2>9. QED
    BY <2>8 DEF u
<1>15. CASE i.state = "SetSmActivation" /\ ~(i.n < 3)
  <2>0. i.n = 3
    BY <1>0, <1>15 DEF CountsRight, SmNumber
  <2>1. u = Goto(i, "SetStationAddress")
    BY <2>0, <1>15 DEF AfterWrite
  <2>2. "SetStationAddress" \in SlaveInitState
    BY DEF SlaveInitState, WriteStates
  <2>3. Rank(i) \in WriteRanks /\ Rank(Goto(i, "SetStationAddress")) = AfterRank(Rank(i))
    BY <1>0, <1>15, <2>0, <2>2, RankValues DEF WriteRanks, AfterRank
  <2>4. CountsRight(Goto(i, "SetStationAddress"))
    BY <1>0, <2>2 DEF CountsRight
  <2>5. QED
    BY <2>1, <2>2, <2>3, <2>4, GotoRank
<1>16. QED
  BY <1>1, <1>2, <1>3, <1>4, <1>5, <1>6, <1>7, <1>8, <1>9, <1>10, <1>11, <1>12, <1>13, <1>14, <1>15 DEF WriteStates

SingleRegisters == {"DlControl", "RxErrorCounter", "WatchDogDivider", "DlUserWatchDog",
                    "SyncManagerChannelWatchDog", "DcActivation", "CyclicOperationStartTime",
                    "Sync0CycleTime", "Sync1CycleTime"}

\* A register that may be left dirty is one of those that the task resets, with a number.
LEMMA RegisterForm ==
  ASSUME NEW f, IsProfile(f), NEW r \in Registers(f)
  PROVE  /\ r = <<r[1], r[2]>> /\ r[2] \in Nat
         /\ r[1] \in SingleRegisters \cup {"FmmuRegister", "SyncManagerControl"}
         /\ r[1] \in SingleRegisters => r[2] = 0
         /\ r[1] \in {"DcActivation", "CyclicOperationStartTime", "Sync0CycleTime", "Sync1CycleTime"} => f.dc
<1>1. f.fmmu \in Nat /\ f.sm \in Nat
  BY DEF IsProfile
<1>2. CASE r \in {<<s, 0>> : s \in {"DlControl", "RxErrorCounter", "WatchDogDivider", "DlUserWatchDog",
                     "SyncManagerChannelWatchDog"}}
  BY <1>2 DEF SingleRegisters
<1>3. CASE r \in {<<"FmmuRegister", n>> : n \in 0 .. f.fmmu - 1}
  BY <1>1, <1>3 DEF SingleRegisters
<1>4. CASE r \in {<<"SyncManagerControl", n>> : n \in 0 .. f.sm - 1}
  BY <1>1, <1>4 DEF SingleRegisters
<1>5. CASE f.dc /\ r \in {<<s, 0>> : s \in {"DcActivation", "CyclicOperationStartTime",
                                                "Sync0CycleTime", "Sync1CycleTime"}}
  BY <1>5 DEF SingleRegisters
<1>6. QED
  BY <1>2, <1>3, <1>4, <1>5 DEF Registers

\* The place at which a register is reset, by name.
LEMMA ResetValues ==
  ASSUME NEW r, r = <<r[1], r[2]>>
  PROVE  /\ r[1] = "DlControl" => ResetAt(r) = 1
         /\ r[1] = "RxErrorCounter" => ResetAt(r) = 3
         /\ r[1] = "WatchDogDivider" => ResetAt(r) = 4
         /\ r[1] = "DlUserWatchDog" => ResetAt(r) = 5
         /\ r[1] = "SyncManagerChannelWatchDog" => ResetAt(r) = 6
         /\ r[1] = "FmmuRegister" => ResetAt(r) = IF r[2] \in FmmuCleared THEN 10 + r[2] ELSE 99
         /\ r[1] = "SyncManagerControl" => ResetAt(r) = IF r[2] \in SmCleared THEN 20 + r[2] ELSE 99
         /\ r[1] = "DcActivation" => ResetAt(r) = 52
         /\ r[1] = "CyclicOperationStartTime" => ResetAt(r) = 53
         /\ r[1] = "Sync0CycleTime" => ResetAt(r) = 54
         /\ r[1] = "Sync1CycleTime" => ResetAt(r) = 55
  BY DEF ResetAt

ResetRanks == {1} \cup 3 .. 6 \cup 10 .. 13 \cup 20 .. 24 \cup 52 .. 55 \cup {99}

\* A register is reset at the place of a write, or never; a DC register only where there is
\* DC.
LEMMA ResetRange ==
  ASSUME NEW f, IsProfile(f), NEW r \in Registers(f)
  PROVE  /\ ResetAt(r) \in ResetRanks
         /\ ResetAt(r) \in 52 .. 55 => f.dc
  BY RegisterForm, ResetValues DEF ResetRanks, SingleRegisters, FmmuCleared, SmCleared

\* The register that is reset at the place of the task is the one the task writes.
LEMMA ResetHere ==
  ASSUME NEW f, IsProfile(f), NEW r \in Registers(f), NEW i \in InitType, i.state \in WriteStates,
         CountsRight(i), ResetAt(r) = Rank(i)
  PROVE  r = RegisterOf(i)
<1>0. i.n \in 0 .. 4
  BY InitFields
<1>1. CASE i.state = "SetLoopPort"
  <2>1. RegisterOf(i) = <<"DlControl", 0>>
    BY <1>1 DEF RegisterOf, SiiStates
  <2>2. r[1] = "DlControl"
    BY <1>1, RegisterForm, ResetValues, RankValues DEF SingleRegisters, FmmuCleared, SmCleared
  <2>3. QED
    BY <2>1, <2>2, RegisterForm DEF SingleRegisters
<1>2. CASE i.state = "ResetErrorCount"
  <2>1. RegisterOf(i) = <<"RxErrorCounter", 0>>
    BY <1>2 DEF RegisterOf, SiiStates
  <2>2. r[1] = "RxErrorCounter"
    BY <1>2, RegisterForm, ResetValues, RankValues DEF SingleRegisters, FmmuCleared, SmCleared
  <2>3. QED
    BY <2>1, <2>2, RegisterForm DEF SingleRegisters
<1>3. CASE i.state = "SetWatchDogDivider"
  <2>1. RegisterOf(i) = <<"WatchDogDivider", 0>>
    BY <1>3 DEF RegisterOf, SiiStates
  <2>2. r[1] = "WatchDogDivider"
    BY <1>3, RegisterForm, ResetValues, RankValues DEF SingleRegisters, FmmuCleared, SmCleared
  <2>3. QED
    BY <2>1, <2>2, RegisterForm DEF SingleRegisters
<1>4. CASE i.state = "DisableDlWatchDog"
  <2>1. RegisterOf(i) = <<"DlUserWatchDog", 0>>
    BY <1>4 DEF RegisterOf, SiiStates
  <2>2. r[1] = "DlUserWatchDog"
    BY <1>4, RegisterForm, ResetValues, RankValues DEF SingleRegisters, FmmuCleared, SmCleared
  <2>3. QED
    BY <2>1, <2>2, RegisterForm DEF SingleRegisters
<1>5. CASE i.state = "DisableSmWatchDog"
  <2>1. RegisterOf(i) = <<"SyncManagerChannelWatchDog", 0>>
    BY <1>5 DEF RegisterOf, SiiStates
  <2>2. r[1] = "SyncManagerChannelWatchDog"
    BY <1>5, RegisterForm, ResetValues, RankValues DEF SingleRegisters, FmmuCleared, SmCleared
  <2>3. QED
    BY <2>1, <2>2, RegisterForm DEF SingleRegisters
<1>6. CASE i.state = "ClearDcActivation"
  <2>1. RegisterOf(i) = <<"DcActivation", 0>>
    BY <1>6 DEF RegisterOf, SiiStates
  <2>2. r[1] = "DcActivation"
    BY <1>6, RegisterForm, ResetValues, RankValues DEF SingleRegisters, FmmuCleared, SmCleared
  <2>3. QED
    BY <2>1, <2>2, RegisterForm DEF SingleRegisters
<1>7. CASE i.state = "ClearCyclicOperationStartTime"
  <2>1. RegisterOf(i) = <<"CyclicOperationStartTime", 0>>
    BY <1>7 DEF RegisterOf, SiiStates
  <2>2. r[1] = "CyclicOperationStartTime"
    BY <1>7, RegisterForm, ResetValues, RankValues DEF SingleRegisters, FmmuCleared, SmCleared
  <2>3. QED
    BY <2>1, <2>2, RegisterForm DEF SingleRegisters
<1>8. CASE i.state = "ClearSync0CycleTime"
  <2>1. RegisterOf(i) = <<"Sync0CycleTime", 0>>
    BY <1>8 DEF RegisterOf, SiiStates
  <2>2. r[1] = "Sync0CycleTime"
    BY <1>8, RegisterForm, ResetValues, RankValues DEF SingleRegisters, FmmuCleared, SmCleared
  <2>3. QED
    BY <2>1, <2>2, RegisterForm DEF SingleRegisters
<1>9. CASE i.state = "ClearSync1CycleTime"
  <2>1. RegisterOf(i) = <<"Sync1CycleTime", 0>>
    BY <1>9 DEF RegisterOf, SiiStates
  <2>2. r[1] = "Sync1CycleTime"
    BY <1>9, RegisterForm, ResetValues, RankValues DEF SingleRegisters, FmmuCleared, SmCleared
  <2>3. QED
    BY <2>1, <2>2, RegisterForm DEF SingleRegisters
<1>10. CASE i.state = "ClearFmmu"
  <2>1. RegisterOf(i) = <<"FmmuRegister", i.n>>
    BY <1>10 DEF RegisterOf, SiiStates
  <2>2. r[1] = "FmmuRegister" /\ r[2] = i.n
    BY <1>0, <1>10, RegisterForm, ResetValues, RankValues DEF SingleRegisters, FmmuCleared, SmCleared, CountsRight
  <2>3. QED
    BY <2>1, <2>2, RegisterForm
<1>11. CASE i.state = "ClearSm"
  <2>1. RegisterOf(i) = <<"SyncManagerControl", i.n>>
    BY <1>11 DEF RegisterOf, SiiStates
  <2>2. r[1] = "SyncManagerControl" /\ r[2] = i.n
    BY <1>0, <1>11, RegisterForm, ResetValues, RankValues DEF SingleRegisters, FmmuCleared, SmCleared, CountsRight
  <2>3. QED
    BY <2>1, <2>2, RegisterForm
<1>12. CASE i.state \in {"SetSmControl", "SetSmActivation", "SetStationAddress"}
  <2>1. Rank(i) \in 40 .. 50
    BY <1>0, <1>12, RankValues DEF CountsRight, SmNumber
  <2>2. QED
    BY <2>1, ResetRange DEF ResetRanks
<1>13. QED
  BY <1>1, <1>2, <1>3, <1>4, <1>5, <1>6, <1>7, <1>8, <1>9, <1>10, <1>11, <1>12 DEF WriteStates

\* The parts of Found after a write that was executed.
LEMMA WriteFound ==
  ASSUME bus \in Buses, NEW p \in Slaves, NEW known \in BOOLEAN, NEW i \in InitType,
         i.state \in WriteStates, Found(i, p, known), WriteAnswered(i, p),
         i.state = "SetStationAddress" => i.info.configured_address = p + 1,
         regs[p].dirty \subseteq Registers(Profile(p))
  PROVE  Found(AfterWrite(i), p, known)
<1> DEFINE u == AfterWrite(i)
<1>1. Moved(u, i)
  BY WriteMoves DEF Found
<1> HIDE DEF u
<1>2. /\ Rank(i) \in WriteRanks /\ Rank(u) = AfterRank(Rank(i)) /\ u.info = i.info
      /\ u \in InitType /\ CountsRight(u) /\ CountsRight(i) /\ i.n \in 0 .. 4
  BY <1>1, InitFields DEF Moved, SameTask, Found
<1>3. SlaveDone(u, p)
  <2>1. Rank(u) > 2 => al[p] = "Init"
    <3>1. CASE Rank(i) > 2
      BY <3>1 DEF Found, SlaveDone
    <3>2. CASE ~(Rank(i) > 2)
      BY <1>2, <3>2 DEF WriteRanks, AfterRank
    <3>3. QED
      BY <3>1, <3>2
  <2>2. ASSUME NEW r \in regs[p].dirty
        PROVE  Rank(u) <= ResetAt(r)
    <3>1. r \in Registers(Profile(p)) /\ IsProfile(Profile(p))
      BY BusFacts
    <3>2. ResetAt(r) \in ResetRanks
      BY <3>1, ResetRange
    <3>3. Rank(i) <= ResetAt(r)
      BY DEF Found, SlaveDone
    <3>4. ResetAt(r) # Rank(i)
      BY <1>2, <3>1, ResetHere DEF WriteAnswered
    <3>5. QED
      BY <1>2, <3>2, <3>3, <3>4 DEF WriteRanks, AfterRank, ResetRanks
  <2>3. ASSUME NEW n \in SmNumber
        PROVE  /\ Rank(u) > 40 + 2 * n => regs[p].sm[n] = SmValue(u.info.sm[n])
               /\ Rank(u) > 41 + 2 * n => (n \in regs[p].active <=> IsMailbox(u.info.sm[n]))
    <3>1. CASE Rank(i) = 40 + 2 * n
      <4>1. i.state = "SetSmControl" /\ i.n = n
        BY <1>2, <3>1, RankValues DEF WriteStates, SmNumber, CountsRight, FmmuCleared
      <4>2. regs[p].sm[n] = SmValue(u.info.sm[n])
        BY <1>2, <4>1 DEF WriteAnswered
      <4>3. Rank(u) = 41 + 2 * n
        BY <1>2, <3>1 DEF AfterRank, SmNumber
      <4>4. QED
        BY <4>2, <4>3 DEF SmNumber
    <3>2. CASE Rank(i) = 41 + 2 * n
      <4>1. i.state = "SetSmActivation" /\ i.n = n
        BY <1>2, <3>2, RankValues DEF WriteStates, SmNumber, CountsRight, FmmuCleared
      <4>2. n \in regs[p].active <=> IsMailbox(u.info.sm[n])
        BY <1>2, <4>1 DEF WriteAnswered
      <4>3. Rank(i) > 40 + 2 * n
        BY <1>2, <3>2 DEF SmNumber
      <4>4. regs[p].sm[n] = SmValue(u.info.sm[n])
        BY <1>2, <4>3 DEF Found, SlaveDone
      <4>5. QED
        BY <4>2, <4>4
    <3>3. CASE Rank(i) \notin {40 + 2 * n, 41 + 2 * n}
      <4>1. /\ Rank(u) > 40 + 2 * n => Rank(i) > 40 + 2 * n
            /\ Rank(u) > 41 + 2 * n => Rank(i) > 41 + 2 * n
        BY <1>2, <3>3 DEF WriteRanks, AfterRank, SmNumber
      <4>2. QED
        BY <1>2, <4>1 DEF Found, SlaveDone
    <3>4. QED
      BY <3>1, <3>2, <3>3
  <2>4. Rank(u) > 50 => regs[p].station = p + 1 /\ u.info.configured_address = p + 1
    <3>1. CASE Rank(i) > 50
      BY <1>2, <3>1 DEF Found, SlaveDone
    <3>2. CASE Rank(i) = 50
      <4>1. i.state = "SetStationAddress"
        BY <1>2, <3>2, RankValues DEF WriteStates, SmNumber, CountsRight, FmmuCleared
      <4>2. QED
        BY <1>2, <4>1 DEF WriteAnswered
    <3>3. CASE Rank(i) < 50
      BY <1>2, <3>3 DEF WriteRanks, AfterRank
    <3>4. QED
      BY <1>2, <3>1, <3>2, <3>3 DEF WriteRanks
  <2>5. QED
    BY <2>1, <2>2, <2>3, <2>4 DEF SlaveDone
<1>4. LinkKnown(u, p)
  <2>1. (Rank(u) > 7 => Rank(i) > 7) /\ (Rank(u) > 8 => Rank(i) > 8)
    BY <1>2 DEF WriteRanks, AfterRank
  <2>2. QED
    BY <1>2, <2>1 DEF Found, LinkKnown
<1>5. EepromKnown(u, p, known)
  <2>1. \A c \in 31 .. 38 : (Rank(u) > c <=> Rank(i) > c) /\ (Rank(u) <= c <=> Rank(i) <= c)
    BY <1>2 DEF WriteRanks, AfterRank
  <2>2. Rank(u) # 36 /\ Rank(u) # 38
    BY <1>2 DEF WriteRanks, AfterRank
  <2>3. QED
    BY <1>2, <2>1, <2>2 DEF Found, EepromKnown, SmKnown
<1>6. AreaKnown(u)
  <2>1. Rank(u) < 40 => Rank(i) < 40
    BY <1>2 DEF WriteRanks, AfterRank
  <2>2. QED
    BY <1>2, <2>1 DEF Found, AreaKnown
<1>7. QED
  BY <1>2, <1>3, <1>4, <1>5, <1>6 DEF Found, u

\* A state that is not over, with its inner task ready to send.
ToSend(u, p, known) ==
  /\ u.state \in Ended => u.state = "Complete"
  /\ u.state = "RequestInitState" => u.first \/ AlUnderWay(u, p)
  /\ u.state \in SiiStates => u.first \/ SiiUnderWay(u, p, known, FALSE)

\* What an answer makes of the task of the slave at p.
Outcome(u, i, p, known) ==
  /\ u \in InitType /\ u.position = i.position
  /\ \/ u.state = "Error" /\ u.error = "FailedToLoadEEPROM" /\ ~Profile(p).loaded
     \/ u.state = "Error" /\ u.error # "FailedToLoadEEPROM" /\ faults > 0
     \/ u.state = "panic" /\ (Unsupported(p) \/ Overflow(u.info, p) \/ ~known)
     \/ u.state \notin {"Error", "panic"} /\ Found(u, p, known) /\ ToSend(u, p, known)

\* The states of the slave's task are those that read, that write, that have an inner task,
\* and the ends.
LEMMA StateNames ==
  ASSUME NEW s
  PROVE  /\ s \in ReadStates \cup WriteStates \cup SiiStates \cup Ended \cup {"RequestInitState"}
              <=> s \in SlaveInitState
         /\ s \in SiiStates => s \notin WriteStates \cup ReadStates \cup Ended \cup {"RequestInitState"}
         /\ s \in ReadStates => s \notin WriteStates \cup Ended \cup {"RequestInitState"}
         /\ s \in WriteStates => s \notin Ended \cup {"RequestInitState"}
         /\ "RequestInitState" \notin Ended
  BY DEF SlaveInitState, ReadStates, WriteStates, SiiStates, Ended

\* A task fails or panics and keeps the rest.
LEMMA EndMoves ==
  ASSUME NEW i \in InitType
  PROVE  /\ \A e \in {"UnexpectedWkc", "FailedToLoadEEPROM", "SiiRead", "AlStateTransition"} :
              LET u == InitFails(i, e) IN
              /\ u \in InitType /\ u.state = "Error" /\ u.error = e /\ u.position = i.position
         /\ LET u == Panics(i) IN
            /\ u \in InitType /\ u.state = "panic" /\ u.info = i.info /\ u.position = i.position
            /\ u.al = i.al
<1>1. {"Error", "panic"} \subseteq SlaveInitState
  BY DEF SlaveInitState, Ended
<1>2. ASSUME NEW e \in {"UnexpectedWkc", "FailedToLoadEEPROM", "SiiRead", "AlStateTransition"}
      PROVE  LET u == InitFails(i, e) IN
             u \in InitType /\ u.state = "Error" /\ u.error = e /\ u.position = i.position
  <2> DEFINE v == [i EXCEPT !.state = "Error"]
  <2>1. v \in InitType /\ v.state = "Error" /\ v.position = i.position
    BY <1>1 DEF InitType
  <2>2. InitFails(i, e) = [v EXCEPT !.error = e]
    BY DEF InitFails
  <2> HIDE DEF v
  <2>3. QED
    BY <2>1, <2>2 DEF InitType
<1>3. QED
  BY <1>1, <1>2 DEF Panics, InitType

\* Found looks at the place and the information only.
LEMMA FoundSame ==
  ASSUME NEW i, NEW u, NEW p, NEW known, u.state = i.state, u.n = i.n, u.info = i.info,
         Found(i, p, known)
  PROVE  Found(u, p, known) /\ Rank(u) = Rank(i)
<1>1. Rank(u) = Rank(i)
  BY DEF Rank
<1>2. CountsRight(u) /\ SlaveDone(u, p)
  BY <1>1 DEF Found, CountsRight, SlaveDone
<1>3. LinkKnown(u, p) /\ EepromKnown(u, p, known) /\ AreaKnown(u)
  BY <1>1 DEF Found, LinkKnown, EepromKnown, SmKnown, AreaKnown
<1>4. QED
  BY <1>1, <1>2, <1>3 DEF Found

\* A step that does not look at the registers of the slave passes none that is to be reset.
LEMMA Passes ==
  ASSUME bus \in Buses, NEW p \in Slaves, NEW i, NEW u, SlaveDone(i, p),
         regs[p].dirty \subseteq Registers(Profile(p)),
         \/ Rank(i) \in 31 .. 37 /\ Rank(u) = Rank(i) + 1
         \/ <<Rank(i), Rank(u)>> \in {<<2, 3>>, <<7, 8>>, <<8, 10>>, <<38, 40>>, <<51, 52>>}
         \/ Rank(i) = 51 /\ Rank(u) = 56 /\ ~Profile(p).dc
  PROVE  \A r \in regs[p].dirty : Rank(u) <= ResetAt(r)
<1> SUFFICES ASSUME NEW r \in regs[p].dirty
             PROVE  Rank(u) <= ResetAt(r)
  OBVIOUS
<1>1. /\ ResetAt(r) \in ResetRanks
      /\ ResetAt(r) \in 52 .. 55 => Profile(p).dc
  BY BusFacts, ResetRange
<1>2. Rank(i) <= ResetAt(r)
  BY DEF SlaveDone
<1>3. QED
  BY <1>1, <1>2 DEF ResetRanks

\* CheckDlStatus, CheckDlInfo and CheckPdiControl: the answer is kept, or the task ends for
\* a cause.
LEMMA ReadOutcome ==
  ASSUME bus \in Buses, NEW p \in Slaves, NEW known \in BOOLEAN, NEW i \in InitType,
         i.state \in ReadStates, Found(i, p, known), ReadAnswered(i, p),
         regs[p].dirty \subseteq Registers(Profile(p))
  PROVE  Outcome(AfterRead(i, socket.answer), i, p, known)
<1> DEFINE u == AfterRead(i, socket.answer)
           f == Profile(p)
<1>0. /\ IsProfile(f) /\ i.info \in InfoType
      /\ "CheckDlInfo" \in SlaveInitState /\ "ClearFmmu" \in SlaveInitState
      /\ "ClearDcActivation" \in SlaveInitState /\ "Complete" \in SlaveInitState
  BY BusFacts, InitFields DEF SlaveInitState, ReadStates, WriteStates, Ended
<1>1. CASE i.state = "CheckDlStatus"
  <2>0. Rank(i) = 7
    BY <1>1, RankValues
  <2>1. socket.answer = [pdi_operational |-> f.loaded, linked |-> f.linked]
    BY <1>1 DEF ReadAnswered, ReadOf
  <2>2. CASE ~f.loaded
    <3>1. u = InitFails(i, "FailedToLoadEEPROM")
      BY <1>1, <2>1, <2>2 DEF AfterRead
    <3>2. QED
      BY <2>2, <3>1, EndMoves DEF Outcome
  <2>3. CASE f.loaded
    <3> DEFINE x == [i.info EXCEPT !.linked = f.linked]
    <3> DEFINE v == [i EXCEPT !.info = x]
    <3>1. u = Goto(v, "CheckDlInfo")
      BY <1>1, <2>1, <2>3 DEF AfterRead
    <3>2. x \in InfoType /\ x.linked = f.linked /\ SameInfo({"linked"}, x, i.info)
      BY <1>0 DEF IsProfile, InfoType, SameInfo
    <3> HIDE DEF x, u
    <3>v. v \in InitType /\ v.info = x /\ v.position = i.position
      BY <3>2 DEF InitType
    <3> HIDE DEF v
    <3>3. u \in InitType /\ u.state = "CheckDlInfo" /\ u.info = x /\ u.position = i.position
      BY <1>0, <3>1, <3>v, GotoMoves DEF SameTask
    <3>4. Rank(u) = 8
      BY <3>3, RankValues
    <3>5. CountsRight(u) /\ ToSend(u, p, known)
      BY <3>3, SMT DEF CountsRight, ToSend, SiiStates, Ended
    <3>6. SlaveDone(u, p)
      BY <2>0, <3>4, Passes DEF Found, SlaveDone, SmNumber
    <3>7. LinkKnown(u, p)
      BY <2>3, <3>2, <3>3, <3>4 DEF LinkKnown
    <3>8. EepromKnown(u, p, known)
      BY <2>0, <3>2, <3>3, <3>4 DEF Found, EepromKnown, SmKnown, SameInfo
    <3>9. AreaKnown(u)
      BY <2>0, <3>2, <3>3, <3>4 DEF Found, AreaKnown, SameInfo, AreaRight
    <3>10. QED
      BY <3>3, <3>5, <3>6, <3>7, <3>8, <3>9 DEF Found, Outcome, u
  <2>4. QED
    BY <2>2, <2>3
<1>2. CASE i.state = "CheckDlInfo"
  <2>0. Rank(i) = 8
    BY <1>2, RankValues
  <2>1. socket.answer = [dc |-> f.dc, dc_range |-> f.dc_range, lrw |-> f.lrw,
                         ram |-> f.ram, fmmu |-> f.fmmu, sm |-> f.sm]
    BY <1>2 DEF ReadAnswered, ReadOf
  <2>2. CASE ~((f.dc => f.dc_range) /\ f.lrw)
    <3>1. u = Panics(i)
      BY <1>2, <2>1, <2>2 DEF AfterRead
    <3>2. QED
      BY <2>2, <3>1, EndMoves DEF Outcome, Unsupported
  <2>3. CASE (f.dc => f.dc_range) /\ f.lrw
    <3> DEFINE x1 == [i.info EXCEPT !.support_dc = f.dc]
               x2 == [x1 EXCEPT !.ram_size_kb = f.ram]
               x3 == [x2 EXCEPT !.number_of_fmmu = f.fmmu]
               x == [x3 EXCEPT !.number_of_sm = f.sm]
    <3>0. /\ x1 \in InfoType /\ x1.support_dc = f.dc /\ SameInfo({"support_dc"}, x1, i.info)
          /\ x2 \in InfoType /\ x2.ram_size_kb = f.ram /\ SameInfo({"ram_size_kb"}, x2, x1)
          /\ x3 \in InfoType /\ x3.number_of_fmmu = f.fmmu /\ SameInfo({"number_of_fmmu"}, x3, x2)
          /\ x \in InfoType /\ x.number_of_sm = f.sm /\ SameInfo({"number_of_sm"}, x, x3)
      <4>1. x1 \in InfoType /\ x1.support_dc = f.dc /\ SameInfo({"support_dc"}, x1, i.info)
        BY <1>0 DEF IsProfile, InfoType, SameInfo
      <4>2. x2 \in InfoType /\ x2.ram_size_kb = f.ram /\ SameInfo({"ram_size_kb"}, x2, x1)
        <5> HIDE DEF x1
        <5> QED BY <1>0, <4>1 DEF IsProfile, InfoType, SameInfo
      <4>3. x3 \in InfoType /\ x3.number_of_fmmu = f.fmmu /\ SameInfo({"number_of_fmmu"}, x3, x2)
        <5> HIDE DEF x2
        <5> QED BY <1>0, <4>2 DEF IsProfile, InfoType, SameInfo
      <4>4. x \in InfoType /\ x.number_of_sm = f.sm /\ SameInfo({"number_of_sm"}, x, x3)
        <5> HIDE DEF x3
        <5> QED BY <1>0, <4>3 DEF IsProfile, InfoType, SameInfo
      <4> HIDE DEF x1, x2, x3, x
      <4>5. QED
        BY <4>1, <4>2, <4>3, <4>4
    <3> DEFINE v == [i EXCEPT !.info = x]
    <3>1. u = Goto(v, "ClearFmmu")
      BY <1>2, <2>1, <2>3 DEF AfterRead
    <3> HIDE DEF x1, x2, x3, x, u
    <3>2. /\ x \in InfoType /\ x.support_dc = f.dc /\ x.ram_size_kb = f.ram
          /\ x.number_of_fmmu = f.fmmu /\ x.number_of_sm = f.sm
          /\ x.linked = i.info.linked /\ x.sm = i.info.sm /\ x.pdo_size = i.info.pdo_size
      BY <3>0 DEF SameInfo
    <3>v. v \in InitType /\ v.info = x /\ v.position = i.position
      BY <3>2 DEF InitType
    <3> HIDE DEF v
    <3>3. u \in InitType /\ u.state = "ClearFmmu" /\ u.info = x /\ u.position = i.position /\ u.n = 0
      BY <1>0, <3>1, <3>v, GotoMoves DEF SameTask
    <3>4. Rank(u) = 10
      BY <3>3, RankValues
    <3>5. CountsRight(u) /\ ToSend(u, p, known)
      BY <3>3, SMT DEF CountsRight, ToSend, SiiStates, Ended, FmmuCleared
    <3>6. SlaveDone(u, p)
      BY <2>0, <3>4, Passes DEF Found, SlaveDone, SmNumber
    <3>7. LinkKnown(u, p)
      BY <2>0, <3>2, <3>3, <3>4 DEF LinkKnown, Found
    <3>8. EepromKnown(u, p, known)
      BY <2>0, <3>2, <3>3, <3>4 DEF Found, EepromKnown, SmKnown
    <3>9. AreaKnown(u)
      BY <2>0, <3>2, <3>3, <3>4 DEF Found, AreaKnown, AreaRight
    <3>10. QED
      BY <3>3, <3>5, <3>6, <3>7, <3>8, <3>9 DEF Found, Outcome, u
  <2>4. QED
    BY <2>2, <2>3
<1>3. CASE i.state = "CheckPdiControl"
  <2>0. Rank(i) = 51
    BY <1>3, RankValues
  <2> DEFINE s == IF i.info.support_dc THEN "ClearDcActivation" ELSE "Complete"
  <2>1. u = Goto(i, s)
    BY <1>3 DEF AfterRead
  <2>2. s \in {"ClearDcActivation", "Complete"} /\ s \in SlaveInitState
    BY <1>0
  <2> HIDE DEF s, u
  <2>3. /\ u \in InitType /\ u.state = s /\ u.info = i.info /\ u.position = i.position /\ u.n = 0
    BY <2>1, <2>2, GotoMoves DEF SameTask
  <2>4. i.info.support_dc = f.dc
    BY <2>0 DEF Found, LinkKnown
  <2>5. \/ Rank(u) = 52 \/ (Rank(u) = 56 /\ ~f.dc)
    <3>1. CASE i.info.support_dc
      BY <2>3, <3>1, RankValues DEF s
    <3>2. CASE ~i.info.support_dc
      BY <2>3, <2>4, <3>2, RankValues DEF s
    <3>3. QED
      BY <3>1, <3>2
  <2>6. CountsRight(u) /\ ToSend(u, p, known)
    <3>1. u.state \in {"ClearDcActivation", "Complete"}
      BY <2>2, <2>3
    <3>2. QED
      BY <3>1 DEF CountsRight, ToSend, Ended, SiiStates
  <2>7. SlaveDone(u, p)
    <3>1. \A r \in regs[p].dirty : Rank(u) <= ResetAt(r)
      BY <2>0, <2>5, Passes DEF Found
    <3>2. \A n \in SmNumber : 51 > 40 + 2 * n /\ 51 > 41 + 2 * n
      BY DEF SmNumber
    <3>3. QED
      BY <2>0, <2>3, <3>1, <3>2 DEF Found, SlaveDone
  <2>8. LinkKnown(u, p) /\ EepromKnown(u, p, known) /\ AreaKnown(u)
    BY <2>0, <2>3, <2>5 DEF Found, LinkKnown, EepromKnown, SmKnown, AreaKnown
  <2>9. u.state \notin {"Error", "panic"}
    BY <2>2, <2>3
  <2>10. QED
    BY <2>3, <2>6, <2>7, <2>8, <2>9 DEF Found, Outcome, u
<1>4. QED
  BY <1>1, <1>2, <1>3 DEF ReadStates

MailboxName(n) == IF n = 0 THEN "MailboxRx" ELSE "MailboxTx"
ProcessName(n) == IF n = 0 THEN "ProcessDataRx" ELSE "ProcessDataTx"
SizeWord(n) == IF n = 0 THEN StandardRxMailboxSize ELSE StandardTxMailboxSize
OffsetWord(n) == IF n = 0 THEN StandardRxMailboxOffset ELSE StandardTxMailboxOffset

\* The size of a mailbox that has this word for it.
CappedSize(w) == IF w < MAX_SM_SIZE THEN w ELSE MAX_SM_SIZE

\* The size of a mailbox fits the buffer of the master.
LEMMA CappedType ==
  ASSUME NEW w \in U16
  PROVE  CappedSize(w) \in 0 .. MAX_SM_SIZE
<1>1. w \in Nat
  BY Numbers, Zenon
<1>2. QED
  BY <1>1, Numbers DEF CappedSize

\* What the EEPROM says of the channels n and n + 2.
LEMMA SmInValues ==
  ASSUME NEW p, NEW n \in {0, 1}
  PROVE  /\ MailboxIn(p, SizeWord(n)) =>
              /\ SmIn(p, n) = [kind |-> MailboxName(n), size |-> CappedSize(Profile(p).eeprom[SizeWord(n)]),
                               start |-> Profile(p).eeprom[OffsetWord(n)]]
              /\ SmIn(p, n + 2) = ProcessDataSm(ProcessName(n))
         /\ ~MailboxIn(p, SizeWord(n)) /\ Profile(p).sm >= 2 =>
              /\ SmIn(p, n) = ProcessDataSm(ProcessName(n))
              /\ SmIn(p, n + 2) = NoSm
         /\ ~MailboxIn(p, SizeWord(n)) /\ ~(Profile(p).sm >= 2) =>
              /\ SmIn(p, n) = NoSm
              /\ SmIn(p, n + 2) = NoSm
<1>1. CASE n = 0
  BY <1>1, SMT DEF SmIn, MailboxName, ProcessName, SizeWord, OffsetWord, CappedSize, Smaller,
         StandardRxMailboxSize, StandardTxMailboxSize, StandardRxMailboxOffset, StandardTxMailboxOffset
<1>2. CASE n = 1
  BY <1>2, SMT DEF SmIn, MailboxName, ProcessName, SizeWord, OffsetWord, CappedSize, Smaller,
         StandardRxMailboxSize, StandardTxMailboxSize, StandardRxMailboxOffset, StandardTxMailboxOffset
<1>3. QED
  BY <1>1, <1>2

SmWritten(x, info, n, sm) ==
  /\ x \in InfoType /\ SameInfo({"sm"}, x, info) /\ x.sm[n] = sm
  /\ \A m \in SmNumber \ {n} : x.sm[m] = info.sm[m]

\* One entry of SlaveInfo::sm.
LEMMA SmSet ==
  ASSUME NEW info \in InfoType, NEW n \in SmNumber, NEW sm \in SmType, NEW x,
         x = WithSm(info, n, sm)
  PROVE  SmWritten(x, info, n, sm)
<1> DEFINE s == [info.sm EXCEPT ![n] = sm]
<1>1. info.sm \in [SmNumber -> SmType]
  BY DEF InfoType
<1>2. s \in [SmNumber -> SmType] /\ s[n] = sm /\ \A m \in SmNumber \ {n} : s[m] = info.sm[m]
  BY <1>1
<1> HIDE DEF s
<1>3. x = [info EXCEPT !.sm = s]
  BY DEF s, WithSm
<1>4. x \in InfoType /\ SameInfo({"sm"}, x, info) /\ x.sm = s
  BY <1>2, <1>3 DEF InfoType, SameInfo
<1>5. QED
  BY <1>2, <1>4 DEF SmWritten

\* The names and the EEPROM words of the channels n and n + 2.
LEMMA NameTypes ==
  ASSUME NEW n \in {0, 1}
  PROVE  /\ MailboxName(n) \in {"MailboxRx", "MailboxTx"}
         /\ ProcessName(n) \in {"ProcessDataRx", "ProcessDataTx"}
         /\ ProcessDataSm(ProcessName(n)) \in SmType /\ ~IsMailbox(ProcessDataSm(ProcessName(n)))
         /\ n \in SmNumber /\ n + 2 \in SmNumber /\ n + 2 # n
         /\ SizeWord(n) \in 0 .. 28 /\ OffsetWord(n) \in 0 .. 28
<1>1. MailboxName(n) \in {"MailboxRx", "MailboxTx"} /\ ProcessName(n) \in {"ProcessDataRx", "ProcessDataTx"}
  BY DEF MailboxName, ProcessName
<1>2. ProcessDataSm(ProcessName(n)) \in SmType /\ ~IsMailbox(ProcessDataSm(ProcessName(n)))
  BY <1>1, SmTypes
<1>3. QED
  BY <1>1, <1>2 DEF SmNumber, SizeWord, OffsetWord,
         StandardRxMailboxSize, StandardTxMailboxSize, StandardRxMailboxOffset, StandardTxMailboxOffset

\* GetRxMailboxSize and GetTxMailboxSize, whatever words were read.
LEMMA MailboxStep ==
  ASSUME NEW info \in InfoType, NEW n \in {0, 1}, NEW data \in Word4, NEW x, x = WithMailbox(info, n, data)
  PROVE  /\ x \in InfoType /\ SameInfo({"sm"}, x, info)
         /\ \A m \in SmNumber \ {n, n + 2} : x.sm[m] = info.sm[m]
         /\ 4 <= info.number_of_sm /\ NotZero(data) =>
              /\ x.sm[n] = MailboxSm(MailboxName(n), CappedSize(AsU16(data)))
              /\ x.sm[n + 2] = ProcessDataSm(ProcessName(n))
         /\ ~(4 <= info.number_of_sm /\ NotZero(data)) =>
              /\ x.sm[n] = IF 2 <= info.number_of_sm THEN ProcessDataSm(ProcessName(n)) ELSE info.sm[n]
              /\ x.sm[n + 2] = info.sm[n + 2]
<1> DEFINE mailbox == MailboxSm(MailboxName(n), CappedSize(AsU16(data)))
           process == ProcessDataSm(ProcessName(n))
<1>0. n \in SmNumber
  BY NameTypes
<1>1. AsU16(data) \in U16
  BY DEF AsU16, Word4
<1>2. mailbox \in SmType /\ process \in SmType
  BY <1>1, CappedType, NameTypes, SmTypes
<1>3. CASE 4 <= info.number_of_sm /\ NotZero(data)
  <2> DEFINE k == n + 2
  <2>0. PICK y : y = WithSm(info, n, mailbox)
    OBVIOUS
  <2>1. x = WithSm(y, k, process)
    BY <1>3, <2>0, Zenon DEF WithMailbox, MailboxName, ProcessName, CappedSize
  <2>k. k \in SmNumber /\ k # n
    BY NameTypes
  <2> HIDE DEF mailbox, process, k
  <2>w. SmWritten(y, info, n, mailbox)
    BY <1>0, <1>2, <2>0, SmSet
  <2>2. y \in InfoType /\ SameInfo({"sm"}, y, info) /\ y.sm[n] = mailbox
    BY <2>w DEF SmWritten
  <2>m. \A m \in SmNumber \ {n} : y.sm[m] = info.sm[m]
    BY <2>w DEF SmWritten
  <2>x. SmWritten(x, y, k, process)
    BY <1>2, <2>1, <2>2, <2>k, SmSet
  <2>3. /\ x \in InfoType /\ SameInfo({"sm"}, x, y) /\ x.sm[k] = process
        /\ \A m \in SmNumber \ {k} : x.sm[m] = y.sm[m]
    BY <2>x DEF SmWritten
  <2>4. SameInfo({"sm"}, x, info)
    BY <2>2, <2>3 DEF SameInfo
  <2>5. QED
    <3>1. x.sm[n] = mailbox /\ \A m \in SmNumber \ {n, k} : x.sm[m] = info.sm[m]
      BY <1>0, <2>2, <2>3, <2>k, <2>m
    <3>2. QED
      BY <1>3, <2>3, <2>4, <3>1 DEF mailbox, process, k
<1>4. CASE ~(4 <= info.number_of_sm /\ NotZero(data)) /\ 2 <= info.number_of_sm
  <2>1. x = WithSm(info, n, process)
    BY <1>4, Zenon DEF WithMailbox, ProcessName
  <2> HIDE DEF mailbox, process
  <2>w. SmWritten(x, info, n, process)
    BY <1>0, <1>2, <2>1, SmSet
  <2>2. x \in InfoType /\ SameInfo({"sm"}, x, info) /\ x.sm[n] = process
        /\ \A m \in SmNumber \ {n} : x.sm[m] = info.sm[m]
    BY <2>w DEF SmWritten
  <2>3. QED
    BY <1>4, <2>2, NameTypes DEF process
<1>5. CASE ~(4 <= info.number_of_sm /\ NotZero(data)) /\ ~(2 <= info.number_of_sm)
  <2>1. x = info
    BY <1>5 DEF WithMailbox
  <2>2. QED
    BY <1>5, <2>1 DEF SameInfo
<1>6. QED
  BY <1>3, <1>4, <1>5

\* GetRxMailboxOffset and GetTxMailboxOffset, whatever words were read.
LEMMA OffsetStep ==
  ASSUME NEW info \in InfoType, NEW n \in {0, 1}, NEW data \in Word4, NEW x, x = WithOffset(info, n, data)
  PROVE  /\ x \in InfoType /\ SameInfo({"sm"}, x, info)
         /\ \A m \in SmNumber \ {n} : x.sm[m] = info.sm[m]
         /\ IsMailbox(info.sm[n]) => x.sm[n] = [info.sm[n] EXCEPT !.start = AsU16(data)]
         /\ ~IsMailbox(info.sm[n]) => x.sm[n] = info.sm[n]
<1>0. n \in SmNumber
  BY NameTypes
<1>1. AsU16(data) \in U16
  BY DEF AsU16, Word4
<1>2. CASE IsMailbox(info.sm[n])
  <2> DEFINE sm == [info.sm[n] EXCEPT !.start = AsU16(data)]
  <2>1. x = WithSm(info, n, sm)
    BY <1>2, Zenon DEF WithOffset
  <2>2. info.sm[n] \in SmType
    BY NameTypes DEF InfoType
  <2>3. sm \in SmType
    BY <1>1, <2>2 DEF SmType
  <2> HIDE DEF sm
  <2>4. SmWritten(x, info, n, sm)
    BY <1>0, <2>1, <2>3, SmSet
  <2>5. QED
    BY <1>2, <2>4 DEF SmWritten, sm
<1>3. CASE ~IsMailbox(info.sm[n])
  <2>1. x = info
    BY <1>3 DEF WithOffset
  <2>2. QED
    BY <1>3, <2>1 DEF SameInfo
<1>4. QED
  BY <1>2, <1>3

NoWords == <<0, 0, 0, 0>>

\* The first word of the data register is the word at the address.
LEMMA WordsFirst ==
  ASSUME NEW f, NEW a \in Nat
  PROVE  AsU16(Words(f, a, NoWords)) = f.eeprom[a]
  BY DEF AsU16, Words

\* A process data channel starts at 0 until it is configured.
LEMMA ProcessForm ==
  ASSUME NEW kind
  PROVE  /\ ProcessDataSm(kind) = [kind |-> kind, size |-> 0, start |-> 0]
         /\ [ProcessDataSm(kind) EXCEPT !.start = 0] = ProcessDataSm(kind)
<1>1. ProcessDataSm(kind) = [kind |-> kind, size |-> 0, start |-> 0]
  BY SMT DEF ProcessDataSm, NoSm
<1>2. QED
  BY <1>1

\* GetRxMailboxSize or GetTxMailboxSize, with the words of the slave's EEPROM.
SizeRead(p, info, n, data, x) ==
  /\ Profile(p).sm \in Nat /\ info \in InfoType /\ data \in Word4
  /\ x = WithMailbox(info, n, data)
  /\ data = Words(Profile(p), SizeWord(n), NoWords) /\ info.number_of_sm = Profile(p).sm
  /\ info.sm[n] = NoSm /\ info.sm[n + 2] = NoSm

SizeKnown(p, n, x) ==
  x.sm[n] = [SmIn(p, n) EXCEPT !.start = 0] /\ x.sm[n + 2] = SmIn(p, n + 2)

\* After the size was read the channels n and n + 2 are those of the EEPROM but for the
\* start.
LEMMA MailboxKnown ==
  ASSUME NEW p, NEW info, NEW n \in {0, 1}, NEW data, NEW x, SizeRead(p, info, n, data, x)
  PROVE  SizeKnown(p, n, x)
<1> USE DEF SizeRead, SizeKnown
<1>1. AsU16(data) = Profile(p).eeprom[SizeWord(n)]
  BY NameTypes, WordsFirst
<1>2. MailboxIn(p, SizeWord(n)) <=> 4 <= info.number_of_sm /\ NotZero(data)
  <2>1. NotZero(data) <=> \E k \in 1 .. 4 : Words(Profile(p), SizeWord(n), <<0, 0, 0, 0>>)[k] # 0
    BY Zenon DEF NotZero, NoWords
  <2>2. (4 <= info.number_of_sm) <=> (Profile(p).sm >= 4)
    BY SMT
  <2>3. QED
    BY <2>1, <2>2, Zenon DEF MailboxIn
<1>3. CASE MailboxIn(p, SizeWord(n))
  <2>1. /\ x.sm[n] = MailboxSm(MailboxName(n), CappedSize(AsU16(data)))
        /\ x.sm[n + 2] = ProcessDataSm(ProcessName(n))
    BY <1>2, <1>3, MailboxStep
  <2>2. /\ SmIn(p, n) = [kind |-> MailboxName(n), size |-> CappedSize(AsU16(data)),
                         start |-> Profile(p).eeprom[OffsetWord(n)]]
        /\ SmIn(p, n + 2) = ProcessDataSm(ProcessName(n))
    BY <1>1, <1>3, SmInValues, Zenon
  <2>3. [SmIn(p, n) EXCEPT !.start = 0] = MailboxSm(MailboxName(n), CappedSize(AsU16(data)))
    BY <2>2 DEF MailboxSm
  <2>4. QED
    BY <2>1, <2>2, <2>3
<1>4. CASE ~MailboxIn(p, SizeWord(n))
  <2>1. /\ x.sm[n] = IF 2 <= info.number_of_sm THEN ProcessDataSm(ProcessName(n)) ELSE NoSm
        /\ x.sm[n + 2] = NoSm
    BY <1>2, <1>4, MailboxStep
  <2>2. (2 <= info.number_of_sm) <=> (Profile(p).sm >= 2)
    BY SMT
  <2>3. /\ SmIn(p, n) = IF 2 <= info.number_of_sm THEN ProcessDataSm(ProcessName(n)) ELSE NoSm
        /\ SmIn(p, n + 2) = NoSm
    BY <1>4, <2>2, SmInValues, Zenon
  <2>4. [NoSm EXCEPT !.start = 0] = NoSm
    BY DEF NoSm
  <2>5. [ProcessDataSm(ProcessName(n)) EXCEPT !.start = 0] = ProcessDataSm(ProcessName(n))
    BY ProcessForm
  <2>6. QED
    BY <2>1, <2>3, <2>4, <2>5, Zenon
<1>5. QED
  BY <1>3, <1>4

OffsetRead(p, info, n, data, x) ==
  /\ x = WithOffset(info, n, data) /\ data = Words(Profile(p), OffsetWord(n), NoWords)
  /\ info.sm[n] = [SmIn(p, n) EXCEPT !.start = 0]

\* After the offset was read the channel n is that of the EEPROM.
LEMMA OffsetKnown ==
  ASSUME NEW p, Profile(p).sm \in Nat, NEW info \in InfoType, NEW n \in {0, 1}, NEW data \in Word4,
         NEW x, OffsetRead(p, info, n, data, x)
  PROVE  x.sm[n] = SmIn(p, n)
<1>r. /\ x = WithOffset(info, n, data) /\ data = Words(Profile(p), OffsetWord(n), NoWords)
      /\ info.sm[n] = [SmIn(p, n) EXCEPT !.start = 0]
  BY DEF OffsetRead
<1>1. AsU16(data) = Profile(p).eeprom[OffsetWord(n)]
  BY <1>r, NameTypes, WordsFirst
<1>0. ASSUME NEW sm, sm = info.sm[n]
      PROVE  /\ IsMailbox(sm) => x.sm[n] = [sm EXCEPT !.start = AsU16(data)]
             /\ ~IsMailbox(sm) => x.sm[n] = sm
  <2>1. CASE IsMailbox(sm)
    <3>1. x = WithSm(info, n, [sm EXCEPT !.start = AsU16(data)])
      BY <1>r, <1>0, <2>1, Zenon DEF WithOffset
    <3>2. info.sm[n] \in SmType /\ n \in SmNumber
      BY NameTypes DEF InfoType
    <3>3. [sm EXCEPT !.start = AsU16(data)] \in SmType
      <4>1. AsU16(data) \in U16
        BY DEF AsU16, Word4
      <4>2. sm \in SmType
        BY <1>0, <3>2
      <4>3. QED
        BY <4>1, <4>2 DEF SmType
    <3>4. PICK y \in SmType : y = [sm EXCEPT !.start = AsU16(data)]
      BY <3>3
    <3>5. SmWritten(x, info, n, y)
      BY <3>1, <3>2, <3>4, SmSet
    <3>6. QED
      BY <2>1, <3>4, <3>5 DEF SmWritten
  <2>2. CASE ~IsMailbox(sm)
    <3>1. x = info
      BY <1>r, <1>0, <2>2, Zenon DEF WithOffset
    <3>2. QED
      BY <1>0, <2>2, <3>1, Zenon
  <2>3. QED
    BY <2>1, <2>2
<1>2. CASE MailboxIn(p, SizeWord(n))
  <2>1. SmIn(p, n) = [kind |-> MailboxName(n), size |-> CappedSize(Profile(p).eeprom[SizeWord(n)]),
                      start |-> AsU16(data)]
    BY <1>1, <1>2, SmInValues, Zenon
  <2>2. info.sm[n] = [kind |-> MailboxName(n), size |-> CappedSize(Profile(p).eeprom[SizeWord(n)]), start |-> 0]
    BY <1>r, <2>1
  <2>3. IsMailbox(info.sm[n])
    BY <2>2, NameTypes DEF IsMailbox
  <2>4. x.sm[n] = [info.sm[n] EXCEPT !.start = AsU16(data)]
    BY <2>3, <1>0
  <2>5. PICK sm : sm = info.sm[n]
    OBVIOUS
  <2>6. [sm EXCEPT !.start = AsU16(data)] = SmIn(p, n)
    BY <2>1, <2>2, <2>5
  <2>7. QED
    BY <2>4, <2>5, <2>6
<1>3. CASE ~MailboxIn(p, SizeWord(n))
  <2>1. SmIn(p, n) \in {NoSm, ProcessDataSm(ProcessName(n))}
    BY <1>3, SmInValues, Zenon
  <2>2. info.sm[n] = SmIn(p, n)
    <3>1. [NoSm EXCEPT !.start = 0] = NoSm
      BY DEF NoSm
    <3>2. [ProcessDataSm(ProcessName(n)) EXCEPT !.start = 0] = ProcessDataSm(ProcessName(n))
      BY ProcessForm
    <3>3. QED
      BY <1>r, <2>1, <3>1, <3>2, Zenon
  <2>3. ~IsMailbox(info.sm[n])
    BY <2>1, <2>2, NameTypes, SmTypes, Zenon
  <2>4. QED
    BY <2>2, <2>3, <1>0
<1>4. QED
  BY <1>2, <1>3

\* What the reads of the EEPROM leave alone.
KeptBySii(a, b) ==
  /\ a.linked = b.linked /\ a.support_dc = b.support_dc /\ a.ram_size_kb = b.ram_size_kb
  /\ a.number_of_fmmu = b.number_of_fmmu /\ a.number_of_sm = b.number_of_sm

SiiPlace(u, i) ==
  /\ u.state \in SiiStates \cup {"SetSmControl"} /\ u.n = 0 /\ u.first = TRUE
  /\ u.position = i.position
  /\ Rank(i) \in 31 .. 38 /\ Rank(u) = IF Rank(i) = 38 THEN 40 ELSE Rank(i) + 1

\* A read of the EEPROM that leads to the next place.
LEMMA SiiStep ==
  ASSUME bus \in Buses, NEW p \in Slaves, NEW known \in BOOLEAN, NEW i \in InitType, NEW u \in InitType,
         Found(i, p, known), regs[p].dirty \subseteq Registers(Profile(p)),
         SiiPlace(u, i), KeptBySii(u.info, i.info), EepromKnown(u, p, known), AreaKnown(u)
  PROVE  Outcome(u, i, p, known)
<1>1. CountsRight(u) /\ ToSend(u, p, known) /\ u.state \notin {"Error", "panic"}
  <2>1. CountsRight(u)
    BY DEF CountsRight, SiiStates, SmNumber, SiiPlace
  <2>2. ToSend(u, p, known) /\ u.state \notin {"Error", "panic"}
    BY DEF ToSend, SiiStates, Ended, SiiPlace
  <2>3. QED
    BY <2>1, <2>2
<1>2. \A r \in regs[p].dirty : Rank(u) <= ResetAt(r)
  BY Passes DEF Found, SiiPlace
<1>3. SlaveDone(u, p)
  BY <1>2 DEF Found, SlaveDone, SmNumber, SiiPlace
<1>4. LinkKnown(u, p)
  BY DEF Found, LinkKnown, SiiPlace, KeptBySii
<1>5. QED
  BY <1>1, <1>3, <1>4 DEF Found, Outcome, SiiPlace

\* The offset of a mailbox changes no other channel.
LEMMA OffsetOthers ==
  ASSUME NEW info \in InfoType, NEW data \in Word4, NEW n \in SmNumber, NEW x, x = WithOffset(info, n, data)
  PROVE  \A m \in SmNumber : m # n => x.sm[m] = info.sm[m]
<1>1. CASE IsMailbox(info.sm[n])
  <2>1. x = WithSm(info, n, [info.sm[n] EXCEPT !.start = AsU16(data)])
    BY <1>1, Zenon DEF WithOffset
  <2>2. x.sm = [info.sm EXCEPT ![n] = [info.sm[n] EXCEPT !.start = AsU16(data)]]
    BY <2>1 DEF WithSm, InfoType
  <2>3. info.sm \in [SmNumber -> SmType]
    BY DEF InfoType
  <2>4. QED
    BY <2>2, <2>3
<1>2. CASE ~IsMailbox(info.sm[n])
  <2>1. x = info
    BY <1>2 DEF WithOffset
  <2>2. QED
    BY <2>1
<1>3. QED
  BY <1>1, <1>2

\* What each read of the EEPROM makes of the task; the last one computes the process data
\* area or panics.
LEMMA AfterSiiOutcome ==
  ASSUME bus \in Buses, NEW p \in Slaves, NEW known \in BOOLEAN, NEW i \in InitType,
         i.state \in SiiStates, Found(i, p, known), regs[p].dirty \subseteq Registers(Profile(p)),
         NEW data \in Word4, known => data = Words(Profile(p), SiiAddressOf(i.state), NoWords)
  PROVE  Outcome(AfterSii(i, data), i, p, known)
<1>0. PICK u : u = AfterSii(i, data)
  OBVIOUS
<1>i. i.info \in InfoType /\ AsU16(data) \in U16
  BY InitFields DEF AsU16, Word4
<1>p. Profile(p).sm \in Nat
  BY BusFacts DEF IsProfile
<1>1. CASE i.state = "GetVenderID"
  <2>1. PICK x : x = [i.info EXCEPT !.vender_id = AsU16(data)]
    OBVIOUS
  <2>2. PICK v : v = [i EXCEPT !.info = x]
    OBVIOUS
  <2>3. u = Goto(v, "GetProductCode")
    BY <1>0, <1>1, <2>1, <2>2 DEF AfterSii
  <2>4. x \in InfoType /\ x.vender_id = AsU16(data) /\ SameInfo({"vender_id"}, x, i.info)
    BY <1>i, <2>1 DEF InfoType, SameInfo
  <2>5. "GetProductCode" \in SlaveInitState /\ "GetProductCode" \in SiiStates
    BY DEF SlaveInitState, SiiStates
  <2>6. u \in InitType /\ u.state = "GetProductCode" /\ u.n = 0 /\ u.first = TRUE /\ u.info = x /\ u.position = i.position
    <3>1. v \in InitType /\ v.info = x /\ v.position = i.position
      BY <2>2, <2>4 DEF InitType
    <3>2. QED
      BY <2>3, <2>5, <3>1, GotoMoves DEF SameTask
  <2>7. Rank(i) = 31 /\ Rank(u) = 32
    BY <1>1, <2>6, RankValues
  <2>8. known => AsU16(data) = Profile(p).eeprom[VenderId]
    BY <1>1, WordsFirst DEF SiiAddressOf, VenderId
  <2>9. EepromKnown(u, p, known)
    BY <2>4, <2>6, <2>7, <2>8 DEF Found, EepromKnown, SmKnown, SameInfo
  <2>10. AreaKnown(u)
    BY <2>4, <2>6, <2>7 DEF Found, AreaKnown, SameInfo, AreaRight
  <2>11. Outcome(u, i, p, known)
    <3>1. KeptBySii(u.info, i.info)
      BY <2>4, <2>6 DEF SameInfo, KeptBySii
    <3>2. SiiPlace(u, i)
      BY <2>5, <2>6, <2>7 DEF SiiPlace
    <3>3. QED
      BY <2>6, <2>9, <2>10, <3>1, <3>2, SiiStep
  <2>12. QED
    BY <1>0, <2>11
<1>2. CASE i.state = "GetProductCode"
  <2>1. PICK x : x = [i.info EXCEPT !.product_code = AsU16(data)]
    OBVIOUS
  <2>2. PICK v : v = [i EXCEPT !.info = x]
    OBVIOUS
  <2>3. u = Goto(v, "GetRevision")
    BY <1>0, <1>2, <2>1, <2>2 DEF AfterSii
  <2>4. x \in InfoType /\ x.product_code = AsU16(data) /\ SameInfo({"product_code"}, x, i.info)
    BY <1>i, <2>1 DEF InfoType, SameInfo
  <2>5. "GetRevision" \in SlaveInitState /\ "GetRevision" \in SiiStates
    BY DEF SlaveInitState, SiiStates
  <2>6. u \in InitType /\ u.state = "GetRevision" /\ u.n = 0 /\ u.first = TRUE /\ u.info = x /\ u.position = i.position
    <3>1. v \in InitType /\ v.info = x /\ v.position = i.position
      BY <2>2, <2>4 DEF InitType
    <3>2. QED
      BY <2>3, <2>5, <3>1, GotoMoves DEF SameTask
  <2>7. Rank(i) = 32 /\ Rank(u) = 33
    BY <1>2, <2>6, RankValues
  <2>8. known => AsU16(data) = Profile(p).eeprom[ProductCode]
    BY <1>2, WordsFirst DEF SiiAddressOf, ProductCode
  <2>9. EepromKnown(u, p, known)
    BY <2>4, <2>6, <2>7, <2>8 DEF Found, EepromKnown, SmKnown, SameInfo
  <2>10. AreaKnown(u)
    BY <2>4, <2>6, <2>7 DEF Found, AreaKnown, SameInfo, AreaRight
  <2>11. Outcome(u, i, p, known)
    <3>1. KeptBySii(u.info, i.info)
      BY <2>4, <2>6 DEF SameInfo, KeptBySii
    <3>2. SiiPlace(u, i)
      BY <2>5, <2>6, <2>7 DEF SiiPlace
    <3>3. QED
      BY <2>6, <2>9, <2>10, <3>1, <3>2, SiiStep
  <2>12. QED
    BY <1>0, <2>11
<1>3. CASE i.state = "GetRevision"
  <2>1. PICK x : x = [i.info EXCEPT !.revision_number = AsU16(data)]
    OBVIOUS
  <2>2. PICK v : v = [i EXCEPT !.info = x]
    OBVIOUS
  <2>3. u = Goto(v, "GetProtocol")
    BY <1>0, <1>3, <2>1, <2>2 DEF AfterSii
  <2>4. x \in InfoType /\ x.revision_number = AsU16(data) /\ SameInfo({"revision_number"}, x, i.info)
    BY <1>i, <2>1 DEF InfoType, SameInfo
  <2>5. "GetProtocol" \in SlaveInitState /\ "GetProtocol" \in SiiStates
    BY DEF SlaveInitState, SiiStates
  <2>6. u \in InitType /\ u.state = "GetProtocol" /\ u.n = 0 /\ u.first = TRUE /\ u.info = x /\ u.position = i.position
    <3>1. v \in InitType /\ v.info = x /\ v.position = i.position
      BY <2>2, <2>4 DEF InitType
    <3>2. QED
      BY <2>3, <2>5, <3>1, GotoMoves DEF SameTask
  <2>7. Rank(i) = 33 /\ Rank(u) = 34
    BY <1>3, <2>6, RankValues
  <2>8. known => AsU16(data) = Profile(p).eeprom[RevisionNumber]
    BY <1>3, WordsFirst DEF SiiAddressOf, RevisionNumber
  <2>9. EepromKnown(u, p, known)
    BY <2>4, <2>6, <2>7, <2>8 DEF Found, EepromKnown, SmKnown, SameInfo
  <2>10. AreaKnown(u)
    BY <2>4, <2>6, <2>7 DEF Found, AreaKnown, SameInfo, AreaRight
  <2>11. Outcome(u, i, p, known)
    <3>1. KeptBySii(u.info, i.info)
      BY <2>4, <2>6 DEF SameInfo, KeptBySii
    <3>2. SiiPlace(u, i)
      BY <2>5, <2>6, <2>7 DEF SiiPlace
    <3>3. QED
      BY <2>6, <2>9, <2>10, <3>1, <3>2, SiiStep
  <2>12. QED
    BY <1>0, <2>11
<1>4. CASE i.state = "GetProtocol"
  <2>1. PICK x : x = [i.info EXCEPT !.support_coe = ((AsU16(data) \div 4) % 2 = 1)]
    OBVIOUS
  <2>2. PICK v : v = [i EXCEPT !.info = x]
    OBVIOUS
  <2>3. u = Goto(v, "GetRxMailboxSize")
    BY <1>0, <1>4, <2>1, <2>2 DEF AfterSii
  <2>4. x \in InfoType /\ x.support_coe = ((AsU16(data) \div 4) % 2 = 1) /\ SameInfo({"support_coe"}, x, i.info)
    BY <1>i, <2>1 DEF InfoType, SameInfo
  <2>5. "GetRxMailboxSize" \in SlaveInitState /\ "GetRxMailboxSize" \in SiiStates
    BY DEF SlaveInitState, SiiStates
  <2>6. u \in InitType /\ u.state = "GetRxMailboxSize" /\ u.n = 0 /\ u.first = TRUE /\ u.info = x /\ u.position = i.position
    <3>1. v \in InitType /\ v.info = x /\ v.position = i.position
      BY <2>2, <2>4 DEF InitType
    <3>2. QED
      BY <2>3, <2>5, <3>1, GotoMoves DEF SameTask
  <2>7. Rank(i) = 34 /\ Rank(u) = 35
    BY <1>4, <2>6, RankValues
  <2>8. known => AsU16(data) = Profile(p).eeprom[MailboxProtocol]
    BY <1>4, WordsFirst DEF SiiAddressOf, MailboxProtocol
  <2>9. EepromKnown(u, p, known)
    BY <2>4, <2>6, <2>7, <2>8 DEF Found, EepromKnown, SmKnown, SameInfo
  <2>10. AreaKnown(u)
    BY <2>4, <2>6, <2>7 DEF Found, AreaKnown, SameInfo, AreaRight
  <2>11. Outcome(u, i, p, known)
    <3>1. KeptBySii(u.info, i.info)
      BY <2>4, <2>6 DEF SameInfo, KeptBySii
    <3>2. SiiPlace(u, i)
      BY <2>5, <2>6, <2>7 DEF SiiPlace
    <3>3. QED
      BY <2>6, <2>9, <2>10, <3>1, <3>2, SiiStep
  <2>12. QED
    BY <1>0, <2>11
<1>5. CASE i.state = "GetRxMailboxSize"
  <2>1. PICK x : x = WithMailbox(i.info, 0, data)
    OBVIOUS
  <2>2. PICK v : v = [i EXCEPT !.info = x]
    OBVIOUS
  <2>3. u = Goto(v, "GetRxMailboxOffset")
    BY <1>0, <1>5, <2>1, <2>2 DEF AfterSii
  <2>4. /\ x \in InfoType /\ SameInfo({"sm"}, x, i.info)
        /\ x.sm[1] = i.info.sm[1] /\ x.sm[3] = i.info.sm[3]
    <3>1. x \in InfoType /\ SameInfo({"sm"}, x, i.info)
      BY <1>i, <2>1, MailboxStep
    <3>0. 0 \in SmNumber
      BY DEF SmNumber
    <3>2. \A m \in SmNumber \ {0, 2} : x.sm[m] = i.info.sm[m]
      BY <1>i, <2>1, <3>0, MailboxStep
    <3>3. QED
      BY <3>1, <3>2 DEF SmNumber
  <2>5. "GetRxMailboxOffset" \in SlaveInitState /\ "GetRxMailboxOffset" \in SiiStates
    BY DEF SlaveInitState, SiiStates
  <2>6. u \in InitType /\ u.state = "GetRxMailboxOffset" /\ u.n = 0 /\ u.first = TRUE /\ u.info = x /\ u.position = i.position
    <3>1. v \in InitType /\ v.info = x /\ v.position = i.position
      BY <2>2, <2>4 DEF InitType
    <3>2. QED
      BY <2>3, <2>5, <3>1, GotoMoves DEF SameTask
  <2>7. Rank(i) = 35 /\ Rank(u) = 36
    BY <1>5, <2>6, RankValues
  <2>8. known => x.sm[0] = [SmIn(p, 0) EXCEPT !.start = 0] /\ x.sm[2] = SmIn(p, 2)
    <3>1. i.info.sm[0] = NoSm /\ i.info.sm[2] = NoSm /\ i.info.number_of_sm = Profile(p).sm
      BY <2>7 DEF Found, EepromKnown, SmKnown, LinkKnown
    <3>2. known => data = Words(Profile(p), SizeWord(0), NoWords)
      BY <1>5 DEF SiiAddressOf, SizeWord
    <3>3. ASSUME known
          PROVE  x.sm[0] = [SmIn(p, 0) EXCEPT !.start = 0] /\ x.sm[2] = SmIn(p, 2)
      <4>1. data = Words(Profile(p), SizeWord(0), NoWords)
        BY <3>2, <3>3
      <4>2. SizeRead(p, i.info, 0, data, x)
        BY <1>i, <1>p, <2>1, <3>1, <3>3, <4>1 DEF SizeRead
      <4>3. SizeKnown(p, 0, x)
        BY <4>2, MailboxKnown
      <4>4. QED
        BY <4>3 DEF SizeKnown
    <3>4. QED
      BY <3>3
  <2>9. EepromKnown(u, p, known)
    <3>1. SmKnown(u, p, known, 0, 35)
      BY <2>4, <2>6, <2>7, <2>8 DEF Found, EepromKnown, SmKnown
    <3>2. SmKnown(u, p, known, 1, 37)
      BY <2>4, <2>6, <2>7, <2>8 DEF Found, EepromKnown, SmKnown
    <3>3. QED
      BY <2>4, <2>6, <2>7, <3>1, <3>2 DEF Found, EepromKnown, SameInfo
  <2>10. AreaKnown(u)
    <3>1. u.info.pdo_size = 0
      BY <2>4, <2>6, <2>7 DEF Found, AreaKnown, SameInfo
    <3>2. QED
      BY <3>1 DEF AreaKnown, AreaRight
  <2>11. Outcome(u, i, p, known)
    <3>1. KeptBySii(u.info, i.info)
      BY <2>4, <2>6 DEF SameInfo, KeptBySii
    <3>2. SiiPlace(u, i)
      BY <2>5, <2>6, <2>7 DEF SiiPlace
    <3>3. QED
      BY <2>6, <2>9, <2>10, <3>1, <3>2, SiiStep
  <2>12. QED
    BY <1>0, <2>11
<1>6. CASE i.state = "GetRxMailboxOffset"
  <2>1. PICK x : x = WithOffset(i.info, 0, data)
    OBVIOUS
  <2>2. PICK v : v = [i EXCEPT !.info = x]
    OBVIOUS
  <2>3. u = Goto(v, "GetTxMailboxSize")
    BY <1>0, <1>6, <2>1, <2>2 DEF AfterSii
  <2>4. /\ x \in InfoType /\ SameInfo({"sm"}, x, i.info)
        /\ x.sm[1] = i.info.sm[1] /\ x.sm[3] = i.info.sm[3] /\ x.sm[2] = i.info.sm[2]
    <3>1. x \in InfoType /\ SameInfo({"sm"}, x, i.info)
      BY <1>i, <2>1, OffsetStep
    <3>0. 0 \in SmNumber
      BY DEF SmNumber
    <3>2. \A m \in SmNumber : m # 0 => x.sm[m] = i.info.sm[m]
      BY <1>i, <2>1, <3>0, OffsetOthers
    <3>3. QED
      BY <3>1, <3>2 DEF SmNumber
  <2>5. "GetTxMailboxSize" \in SlaveInitState /\ "GetTxMailboxSize" \in SiiStates
    BY DEF SlaveInitState, SiiStates
  <2>6. u \in InitType /\ u.state = "GetTxMailboxSize" /\ u.n = 0 /\ u.first = TRUE /\ u.info = x /\ u.position = i.position
    <3>1. v \in InitType /\ v.info = x /\ v.position = i.position
      BY <2>2, <2>4 DEF InitType
    <3>2. QED
      BY <2>3, <2>5, <3>1, GotoMoves DEF SameTask
  <2>7. Rank(i) = 36 /\ Rank(u) = 37
    BY <1>6, <2>6, RankValues
  <2>8. known => x.sm[0] = SmIn(p, 0)
    <3>1. known => i.info.sm[0] = [SmIn(p, 0) EXCEPT !.start = 0]
      BY <2>7 DEF Found, EepromKnown, SmKnown, LinkKnown
    <3>2. known => data = Words(Profile(p), OffsetWord(0), NoWords)
      BY <1>6 DEF SiiAddressOf, OffsetWord
    <3>3. ASSUME known
          PROVE  x.sm[0] = SmIn(p, 0)
      <4>1. data = Words(Profile(p), OffsetWord(0), NoWords)
        BY <3>2, <3>3
      <4>2. OffsetRead(p, i.info, 0, data, x)
        BY <2>1, <3>1, <3>3, <4>1, Zenon DEF OffsetRead
      <4>3. PICK info \in InfoType, n \in {0, 1} : info = i.info /\ n = 0
        BY <1>i
      <4>4. OffsetRead(p, info, n, data, x)
        BY <4>2, <4>3, Zenon
      <4>5. x.sm[n] = SmIn(p, n)
        BY <1>p, <4>4, OffsetKnown
      <4>6. QED
        BY <4>3, <4>5
    <3>4. QED
      BY <3>3
  <2>9. EepromKnown(u, p, known)
    <3>1. SmKnown(u, p, known, 0, 35)
      BY <2>4, <2>6, <2>7, <2>8 DEF Found, EepromKnown, SmKnown
    <3>2. SmKnown(u, p, known, 1, 37)
      BY <2>4, <2>6, <2>7, <2>8 DEF Found, EepromKnown, SmKnown
    <3>3. QED
      BY <2>4, <2>6, <2>7, <3>1, <3>2 DEF Found, EepromKnown, SameInfo
  <2>10. AreaKnown(u)
    <3>1. u.info.pdo_size = 0
      BY <2>4, <2>6, <2>7 DEF Found, AreaKnown, SameInfo
    <3>2. QED
      BY <3>1 DEF AreaKnown, AreaRight
  <2>11. Outcome(u, i, p, known)
    <3>1. KeptBySii(u.info, i.info)
      BY <2>4, <2>6 DEF SameInfo, KeptBySii
    <3>2. SiiPlace(u, i)
      BY <2>5, <2>6, <2>7 DEF SiiPlace
    <3>3. QED
      BY <2>6, <2>9, <2>10, <3>1, <3>2, SiiStep
  <2>12. QED
    BY <1>0, <2>11
<1>7. CASE i.state = "GetTxMailboxSize"
  <2>1. PICK x : x = WithMailbox(i.info, 1, data)
    OBVIOUS
  <2>2. PICK v : v = [i EXCEPT !.info = x]
    OBVIOUS
  <2>3. u = Goto(v, "GetTxMailboxOffset")
    BY <1>0, <1>7, <2>1, <2>2 DEF AfterSii
  <2>4. /\ x \in InfoType /\ SameInfo({"sm"}, x, i.info)
        /\ x.sm[0] = i.info.sm[0] /\ x.sm[2] = i.info.sm[2]
    <3>1. x \in InfoType /\ SameInfo({"sm"}, x, i.info)
      BY <1>i, <2>1, MailboxStep
    <3>0. 1 \in SmNumber
      BY DEF SmNumber
    <3>2. \A m \in SmNumber \ {1, 3} : x.sm[m] = i.info.sm[m]
      BY <1>i, <2>1, <3>0, MailboxStep
    <3>3. QED
      BY <3>1, <3>2 DEF SmNumber
  <2>5. "GetTxMailboxOffset" \in SlaveInitState /\ "GetTxMailboxOffset" \in SiiStates
    BY DEF SlaveInitState, SiiStates
  <2>6. u \in InitType /\ u.state = "GetTxMailboxOffset" /\ u.n = 0 /\ u.first = TRUE /\ u.info = x /\ u.position = i.position
    <3>1. v \in InitType /\ v.info = x /\ v.position = i.position
      BY <2>2, <2>4 DEF InitType
    <3>2. QED
      BY <2>3, <2>5, <3>1, GotoMoves DEF SameTask
  <2>7. Rank(i) = 37 /\ Rank(u) = 38
    BY <1>7, <2>6, RankValues
  <2>8. known => x.sm[1] = [SmIn(p, 1) EXCEPT !.start = 0] /\ x.sm[3] = SmIn(p, 3)
    <3>1. i.info.sm[1] = NoSm /\ i.info.sm[3] = NoSm /\ i.info.number_of_sm = Profile(p).sm
      BY <2>7 DEF Found, EepromKnown, SmKnown, LinkKnown
    <3>2. known => data = Words(Profile(p), SizeWord(1), NoWords)
      BY <1>7 DEF SiiAddressOf, SizeWord
    <3>3. ASSUME known
          PROVE  x.sm[1] = [SmIn(p, 1) EXCEPT !.start = 0] /\ x.sm[3] = SmIn(p, 3)
      <4>1. data = Words(Profile(p), SizeWord(1), NoWords)
        BY <3>2, <3>3
      <4>2. SizeRead(p, i.info, 1, data, x)
        BY <1>i, <1>p, <2>1, <3>1, <3>3, <4>1 DEF SizeRead
      <4>3. SizeKnown(p, 1, x)
        BY <4>2, MailboxKnown
      <4>4. QED
        BY <4>3 DEF SizeKnown
    <3>4. QED
      BY <3>3
  <2>9. EepromKnown(u, p, known)
    <3>1. SmKnown(u, p, known, 0, 35)
      BY <2>4, <2>6, <2>7, <2>8 DEF Found, EepromKnown, SmKnown
    <3>2. SmKnown(u, p, known, 1, 37)
      BY <2>4, <2>6, <2>7, <2>8 DEF Found, EepromKnown, SmKnown
    <3>3. QED
      BY <2>4, <2>6, <2>7, <3>1, <3>2 DEF Found, EepromKnown, SameInfo
  <2>10. AreaKnown(u)
    <3>1. u.info.pdo_size = 0
      BY <2>4, <2>6, <2>7 DEF Found, AreaKnown, SameInfo
    <3>2. QED
      BY <3>1 DEF AreaKnown, AreaRight
  <2>11. Outcome(u, i, p, known)
    <3>1. KeptBySii(u.info, i.info)
      BY <2>4, <2>6 DEF SameInfo, KeptBySii
    <3>2. SiiPlace(u, i)
      BY <2>5, <2>6, <2>7 DEF SiiPlace
    <3>3. QED
      BY <2>6, <2>9, <2>10, <3>1, <3>2, SiiStep
  <2>12. QED
    BY <1>0, <2>11
<1>8. CASE i.state = "GetTxMailboxOffset"
  <2>1. PICK y : y = WithOffset(i.info, 1, data)
    OBVIOUS
  <2>2. /\ y \in InfoType /\ SameInfo({"sm"}, y, i.info)
        /\ y.sm[0] = i.info.sm[0] /\ y.sm[2] = i.info.sm[2] /\ y.sm[3] = i.info.sm[3]
    <3>1. y \in InfoType /\ SameInfo({"sm"}, y, i.info)
      BY <1>i, <2>1, OffsetStep
    <3>0. 1 \in SmNumber
      BY DEF SmNumber
    <3>2. \A m \in SmNumber : m # 1 => y.sm[m] = i.info.sm[m]
      BY <1>i, <2>1, <3>0, OffsetOthers
    <3>3. QED
      BY <3>1, <3>2 DEF SmNumber
  <2>3. Rank(i) = 38
    BY <1>8, RankValues
  <2>4. known => y.sm[1] = SmIn(p, 1)
    <3>1. known => i.info.sm[1] = [SmIn(p, 1) EXCEPT !.start = 0]
      BY <2>3 DEF Found, EepromKnown, SmKnown
    <3>2. known => data = Words(Profile(p), OffsetWord(1), NoWords)
      BY <1>8 DEF SiiAddressOf, OffsetWord
    <3>3. ASSUME known
          PROVE  y.sm[1] = SmIn(p, 1)
      <4>1. OffsetRead(p, i.info, 1, data, y)
        BY <2>1, <3>1, <3>2, <3>3, Zenon DEF OffsetRead
      <4>2. PICK info \in InfoType, n \in {0, 1} : info = i.info /\ n = 1
        BY <1>i
      <4>3. OffsetRead(p, info, n, data, y)
        BY <4>1, <4>2, Zenon
      <4>4. y.sm[n] = SmIn(p, n)
        BY <1>p, <4>3, OffsetKnown
      <4>5. QED
        BY <4>2, <4>4
    <3>4. QED
      BY <3>3
  <2>5. known => y.sm[0] = SmIn(p, 0) /\ y.sm[2] = SmIn(p, 2) /\ y.sm[3] = SmIn(p, 3)
    BY <2>2, <2>3 DEF Found, EepromKnown, SmKnown
  <2>6. CASE IsMailbox(y.sm[0]) /\ IsMailbox(y.sm[1]) /\ AreaOverflows(y)
    <3>1. u = Panics(i)
      BY <1>0, <1>8, <2>1, <2>6 DEF AfterSii
    <3>2. ASSUME known
          PROVE  Overflow(i.info, p)
      <4>1. PICK s : s = [k \in SmNumber |-> SmIn(p, k)]
        OBVIOUS
      <4>2. y.sm = s
        <5>1. y.sm \in [SmNumber -> SmType]
          BY <2>2 DEF InfoType
        <5>2. \A k \in SmNumber : y.sm[k] = SmIn(p, k)
          BY <2>4, <2>5, <3>2 DEF SmNumber
        <5>3. QED
          BY <4>1, <5>1, <5>2
      <4>3. PICK z : z = [i.info EXCEPT !.sm = s]
        OBVIOUS
      <4>4. z.sm = y.sm /\ z.ram_size_kb = y.ram_size_kb
        BY <1>i, <2>2, <4>2, <4>3 DEF InfoType, SameInfo
      <4>5. AreaOverflows(z)
        BY <2>6, <4>4 DEF AreaOverflows, RamEnd, MailboxStart, MailboxEnd
      <4>6. QED
        BY <4>1, <4>3, <4>5 DEF Overflow
    <3>3. u \in InitType /\ u.state = "panic" /\ u.info = i.info /\ u.position = i.position
      BY <3>1, EndMoves
    <3>4. QED
      BY <1>0, <3>2, <3>3 DEF Outcome
  <2>7. CASE ~(IsMailbox(y.sm[0]) /\ IsMailbox(y.sm[1]) /\ AreaOverflows(y))
    <3>1. PICK x : x = WithProcessDataArea(y)
      OBVIOUS
    <3>2. PICK v : v = [i EXCEPT !.info = x]
      OBVIOUS
    <3>3. u = Goto(v, "SetSmControl")
      BY <1>0, <1>8, <2>1, <2>7, <3>1, <3>2 DEF AfterSii
    <3>4. y.pdo_size = 0
      BY <2>2, <2>3 DEF Found, AreaKnown, SameInfo
    <3>5. x \in InfoType /\ SameInfo({"pdo_start", "pdo_size"}, x, y) /\ AreaRight(x)
      BY <2>2, <3>1, <3>4, AreaIsRight
    <3>6. "SetSmControl" \in SlaveInitState
      BY DEF SlaveInitState, WriteStates
    <3>7. u \in InitType /\ u.state = "SetSmControl" /\ u.n = 0 /\ u.first = TRUE /\ u.info = x
          /\ u.position = i.position
      <4>1. v \in InitType /\ v.info = x /\ v.position = i.position
        BY <3>2, <3>5 DEF InitType
      <4>2. QED
        BY <3>3, <3>6, <4>1, GotoMoves DEF SameTask
    <3>8. Rank(u) = 40
      BY <3>7, RankValues
    <3>9. EepromKnown(u, p, known)
      <4>1. SmKnown(u, p, known, 0, 35) /\ SmKnown(u, p, known, 1, 37)
        BY <2>4, <2>5, <3>5, <3>7, <3>8 DEF SmKnown, SameInfo
      <4>2. QED
        BY <2>2, <2>3, <3>5, <3>7, <3>8, <4>1 DEF Found, EepromKnown, SameInfo
    <3>10. AreaKnown(u)
      BY <3>5, <3>7, <3>8 DEF AreaKnown
    <3>11. KeptBySii(u.info, i.info)
      BY <2>2, <3>5, <3>7 DEF SameInfo, KeptBySii
    <3>12. SiiPlace(u, i)
      BY <2>3, <3>7, <3>8 DEF SiiPlace
    <3>13. QED
      BY <1>0, <3>7, <3>9, <3>10, <3>11, <3>12, SiiStep
  <2>8. QED
    BY <2>6, <2>7
<1>9. QED
  BY <1>1, <1>2, <1>3, <1>4, <1>5, <1>6, <1>7, <1>8 DEF SiiStates

\* The task with another inner reader or transfer.
LEMMA InnerMoves ==
  ASSUME NEW i \in InitType
  PROVE  /\ \A r \in SiiType :
              LET v == [i EXCEPT !.sii = r, !.first = FALSE] IN
              /\ v \in InitType /\ v.state = i.state /\ v.n = i.n /\ v.info = i.info
              /\ v.position = i.position /\ v.sii = r /\ v.al = i.al
         /\ \A a \in AL!Task :
              LET v == [i EXCEPT !.al = a, !.first = FALSE] IN
              /\ v \in InitType /\ v.state = i.state /\ v.n = i.n /\ v.info = i.info
              /\ v.position = i.position /\ v.sii = i.sii /\ v.al = a
<1>1. ASSUME NEW r \in SiiType
      PROVE  LET v == [i EXCEPT !.sii = r, !.first = FALSE] IN
              /\ v \in InitType /\ v.state = i.state /\ v.n = i.n /\ v.info = i.info
              /\ v.position = i.position /\ v.sii = r /\ v.al = i.al
  <2>1. PICK w : w = [i EXCEPT !.sii = r]
    OBVIOUS
  <2>2. /\ w \in InitType /\ w.state = i.state /\ w.n = i.n /\ w.info = i.info
        /\ w.position = i.position /\ w.sii = r /\ w.al = i.al
    BY <2>1 DEF InitType
  <2>3. [i EXCEPT !.sii = r, !.first = FALSE] = [w EXCEPT !.first = FALSE]
    BY <2>1
  <2>4. QED
    BY <2>2, <2>3 DEF InitType
<1>2. ASSUME NEW a \in AL!Task
      PROVE  LET v == [i EXCEPT !.al = a, !.first = FALSE] IN
              /\ v \in InitType /\ v.state = i.state /\ v.n = i.n /\ v.info = i.info
              /\ v.position = i.position /\ v.sii = i.sii /\ v.al = a
  <2>1. PICK w : w = [i EXCEPT !.al = a]
    OBVIOUS
  <2>2. /\ w \in InitType /\ w.state = i.state /\ w.n = i.n /\ w.info = i.info
        /\ w.position = i.position /\ w.sii = i.sii /\ w.al = a
    BY <2>1 DEF InitType
  <2>3. [i EXCEPT !.al = a, !.first = FALSE] = [w EXCEPT !.first = FALSE]
    BY <2>1
  <2>4. QED
    BY <2>2, <2>3 DEF InitType
<1>3. QED
  BY <1>1, <1>2

\* A reader goes on.
LEMMA SiiGoesOn ==
  ASSUME NEW p, NEW known, NEW i \in InitType, i.state \in SiiStates, Found(i, p, known),
         NEW r \in SiiType, r.address = SiiAddressOf(i.state),
         r.state \notin {"Idle", "Error", "Complete"}, known => SiiPrepared(r, p, FALSE)
  PROVE  Outcome(SiiDone(i, r), i, p, known)
<1>1. PICK v : v = [i EXCEPT !.sii = r, !.first = FALSE]
  OBVIOUS
<1>2. /\ v \in InitType /\ v.state = i.state /\ v.n = i.n /\ v.info = i.info
      /\ v.position = i.position /\ v.sii = r
  BY <1>1, InnerMoves, ZenonT(60)
<1>3. SiiDone(i, r) = v
  BY <1>1 DEF SiiDone
<1>4. Found(v, p, known)
  BY <1>2, FoundSame
<1>5. ToSend(v, p, known)
  BY <1>2, StateNames DEF ToSend, SiiUnderWay
<1>6. v.state \notin {"Error", "panic"}
  BY <1>2 DEF SiiStates
<1>7. QED
  BY <1>2, <1>3, <1>4, <1>5, <1>6 DEF Outcome

\* The reader with another state.
LEMMA SiiMoves ==
  ASSUME NEW r \in SiiType, NEW s \in SiiState
  PROVE  LET x == [r EXCEPT !.state = s] IN x \in SiiType /\ x.state = s /\ x.address = r.address
  BY DEF SiiType

\* Whatever step of the SII reader is answered, the task goes on, fails after a fault or
\* has read.
LEMMA SiiOutcome ==
  ASSUME bus \in Buses, NEW p \in Slaves, NEW known \in BOOLEAN, NEW i \in InitType,
         i.state \in SiiStates, Found(i, p, known), regs[p].dirty \subseteq Registers(Profile(p)),
         SiiUnderWay(i, p, known, TRUE), SiiAnswered(i, p, known),
         known => ~OverwrittenError(i.sii, socket.answer),
         NEW r \in SiiRecieved(i.sii, socket.answer)
  PROVE  Outcome(SiiDone(i, r), i, p, known)
<1>0. /\ i.sii \in SiiType /\ i.sii.state \in SiiState /\ i.sii.address = SiiAddressOf(i.state)
      /\ i.sii.state \notin {"Idle", "Error", "Complete"}
      /\ known => SiiPrepared(i.sii, p, TRUE)
  BY InitFields DEF SiiUnderWay, SiiType
<1>s. /\ {"Error", "SetOwnership", "CheckOwnership", "SetAddress", "SetReadOperation", "Wait", "Read", "Complete"}
           \subseteq SiiState
  BY DEF SiiState
<1>1. CASE i.sii.state = "Init"
  <2>1. PICK z : z = IF socket.answer.long THEN 8 ELSE 4
    OBVIOUS
  <2>2. z \in {0, 4, 8}
    BY <2>1
  <2>3. r = [i.sii EXCEPT !.state = "SetOwnership", !.read_size = z]
    BY <1>1, <2>1 DEF SiiRecieved
  <2>4. PICK y : y = [i.sii EXCEPT !.state = "SetOwnership"]
    OBVIOUS
  <2>5. y \in SiiType /\ y.state = "SetOwnership" /\ y.address = i.sii.address
    BY <1>0, <1>s, <2>4, SiiMoves
  <2>6. r = [y EXCEPT !.read_size = z]
    BY <2>3, <2>4
  <2>7. r \in SiiType /\ r.state = "SetOwnership" /\ r.address = i.sii.address
    BY <2>2, <2>5, <2>6 DEF SiiType
  <2>8. known => SiiPrepared(r, p, FALSE)
    <3>1. known => ~ee[p].busy
      BY <1>1 DEF SiiAnswered, OverwrittenError
    <3>2. QED
      BY <2>7, <3>1 DEF SiiPrepared
  <2>9. QED
    BY <1>0, <2>7, <2>8, SiiGoesOn
<1>2. CASE i.sii.state = "SetOwnership"
  <2>1. r = [i.sii EXCEPT !.state = "CheckOwnership"]
    BY <1>2 DEF SiiRecieved
  <2>2. r \in SiiType /\ r.state = "CheckOwnership" /\ r.address = i.sii.address
    BY <1>0, <1>s, <2>1, SiiMoves
  <2>3. known => SiiPrepared(r, p, FALSE)
    BY <1>0, <1>2, <2>2 DEF SiiPrepared, SiiAnswered
  <2>4. QED
    BY <1>0, <2>2, <2>3, SiiGoesOn
<1>3. CASE i.sii.state = "CheckOwnership"
  <2>1. r = [i.sii EXCEPT !.state = "SetAddress"]
    BY <1>3 DEF SiiRecieved
  <2>2. r \in SiiType /\ r.state = "SetAddress" /\ r.address = i.sii.address
    BY <1>0, <1>s, <2>1, SiiMoves
  <2>3. known => SiiPrepared(r, p, FALSE)
    BY <1>0, <1>3, <2>2 DEF SiiPrepared
  <2>4. QED
    BY <1>0, <2>2, <2>3, SiiGoesOn
<1>4. CASE i.sii.state = "SetAddress"
  <2>1. r = [i.sii EXCEPT !.state = "SetReadOperation"]
    BY <1>4 DEF SiiRecieved
  <2>2. r \in SiiType /\ r.state = "SetReadOperation" /\ r.address = i.sii.address
    BY <1>0, <1>s, <2>1, SiiMoves
  <2>3. known => SiiPrepared(r, p, FALSE)
    BY <1>0, <1>4, <2>2 DEF SiiPrepared, SiiAnswered
  <2>4. QED
    BY <1>0, <2>2, <2>3, SiiGoesOn
<1>5. CASE i.sii.state = "SetReadOperation"
  <2>1. r = [i.sii EXCEPT !.state = "Wait"]
    BY <1>5 DEF SiiRecieved
  <2>2. r \in SiiType /\ r.state = "Wait" /\ r.address = i.sii.address
    BY <1>0, <1>s, <2>1, SiiMoves
  <2>3. known => SiiPrepared(r, p, FALSE)
    BY <1>0, <1>5, <2>2 DEF SiiPrepared, SiiAnswered
  <2>4. QED
    BY <1>0, <2>2, <2>3, SiiGoesOn
<1>6. CASE i.sii.state = "Wait"
  <2>0. r \in WaitDone(i.sii, socket.answer)
    BY <1>6 DEF SiiRecieved
  <2>1. CASE socket.answer.command_error
    <3>1. r = [i.sii EXCEPT !.state = "Error"]
      BY <2>0, <2>1 DEF WaitDone
    <3>2. r \in SiiType /\ r.state = "Error"
      BY <1>0, <1>s, <3>1, SiiMoves
    <3>3. PICK v : v = [i EXCEPT !.sii = r, !.first = FALSE]
      OBVIOUS
    <3>4. v \in InitType /\ v.position = i.position
      BY <3>2, <3>3, InnerMoves
    <3>5. SiiDone(i, r) = InitFails(v, "SiiRead")
      BY <3>2, <3>3 DEF SiiDone
    <3>6. faults > 0
      BY <1>6, <2>1 DEF SiiAnswered
    <3>7. QED
      BY <3>4, <3>5, <3>6, EndMoves DEF Outcome
  <2>2. CASE ~socket.answer.command_error /\ ~socket.answer.busy
    <3>1. r = [i.sii EXCEPT !.state = "Read"]
      BY <2>0, <2>2 DEF WaitDone
    <3>2. r \in SiiType /\ r.state = "Read" /\ r.address = i.sii.address
      BY <1>0, <1>s, <3>1, SiiMoves
    <3>3. known => SiiPrepared(r, p, FALSE)
      BY <1>0, <1>6, <2>2, <3>2 DEF SiiPrepared, SiiAnswered
    <3>4. QED
      BY <1>0, <3>2, <3>3, SiiGoesOn
  <2>3. CASE ~socket.answer.command_error /\ socket.answer.busy
    <3>0. ~(SiiTimeout < StepLimit)
      BY SiiTimeAssumption, TimerAssumption, SMT
    <3>1. r = i.sii
      BY <2>0, <2>3, <3>0, Zenon DEF WaitDone
    <3>2. known => SiiPrepared(r, p, FALSE)
      BY <1>0, <1>6, <3>1 DEF SiiPrepared
    <3>3. QED
      BY <1>0, <3>1, <3>2, SiiGoesOn
  <2>4. QED
    BY <2>1, <2>2, <2>3
<1>7. CASE i.sii.state = "Read"
  <2>1. r = [i.sii EXCEPT !.state = "Complete", !.data = socket.answer]
    BY <1>7 DEF SiiRecieved
  <2>2. PICK y : y = [i.sii EXCEPT !.state = "Complete"]
    OBVIOUS
  <2>3. y \in SiiType /\ y.state = "Complete"
    BY <1>0, <1>s, <2>2, SiiMoves
  <2>4. r = [y EXCEPT !.data = socket.answer]
    BY <2>1, <2>2
  <2>5. socket.answer \in Word4
    BY <1>7 DEF SiiAnswered
  <2>6. r \in SiiType /\ r.state = "Complete" /\ r.data = socket.answer
    BY <2>3, <2>4, <2>5 DEF SiiType
  <2>7. PICK v : v = [i EXCEPT !.sii = r, !.first = FALSE]
    OBVIOUS
  <2>8. v \in InitType /\ v.position = i.position /\ v.state = i.state /\ v.n = i.n /\ v.info = i.info
    BY <2>6, <2>7, InnerMoves
  <2>9. SiiDone(i, r) = AfterSii(v, socket.answer)
    BY <2>6, <2>7 DEF SiiDone
  <2>10. Found(v, p, known)
    BY <2>8, FoundSame
  <2>11. known => socket.answer = Words(Profile(p), SiiAddressOf(v.state), NoWords)
    BY <1>0, <1>7, <2>8 DEF SiiAnswered, NoWords
  <2>12. Outcome(AfterSii(v, socket.answer), v, p, known)
    BY <2>5, <2>8, <2>10, <2>11, AfterSiiOutcome
  <2>13. QED
    BY <2>8, <2>9, <2>12 DEF Outcome
<1>8. QED
  BY <1>0, <1>1, <1>2, <1>3, <1>4, <1>5, <1>6, <1>7 DEF SiiState

\* The states that the transfer uses.
LEMMA AlNames ==
  /\ AL!AlState = AlStates /\ "Init" \in AlStates
  /\ {"Read", "ResetError", "OffAck", "ResetSiiOwnership", "Request", "Poll", "Complete"}
       \subseteq AL!TransferState
  BY DEF AL!AlState, AlStates, AL!TransferState

\* The bits of a state are those of no other one.
LEMMA BitsBack ==
  ASSUME NEW a \in AlStates
  PROVE  AL!AlStateFrom(AL!Bits(a)) = a /\ \A b \in AlStates : AL!Bits(b) = AL!Bits(a) => b = a
<1>1. /\ AL!Bits("Init") = {0} /\ AL!Bits("PreOperational") = {1} /\ AL!Bits("Bootstrap") = {0, 1}
      /\ AL!Bits("SafeOperational") = {2} /\ AL!Bits("Operational") = {3}
  BY DEF AL!Bits
<1>2. \A b \in AlStates : AL!Bits(b) = AL!Bits(a) => b = a
  BY <1>1 DEF AlStates
<1>3. AL!AlStateFrom(AL!Bits(a)) = CHOOSE b \in AlStates : AL!Bits(b) = AL!Bits(a)
  BY AlNames, Zenon DEF AL!AlStateFrom
<1>4. (CHOOSE b \in AlStates : AL!Bits(b) = AL!Bits(a)) \in AlStates
      /\ AL!Bits(CHOOSE b \in AlStates : AL!Bits(b) = AL!Bits(a)) = AL!Bits(a)
  BY Zenon
<1>5. QED
  BY <1>2, <1>3, <1>4, Zenon

\* The timeout of the transfer to Init.
LEMMA AlTimes == AL!MaxTimeout \in Nat /\ 5000 <= AL!MaxTimeout
<1>1. \E t \in {3000, 10000, 5000, 200} : \A u \in {3000, 10000, 5000, 200} : u <= t
  BY SMT
<1>2. AL!MaxTimeout \in {3000, 10000, 5000, 200} /\ \A u \in {3000, 10000, 5000, 200} : u <= AL!MaxTimeout
  BY <1>1, SMT DEF AL!MaxTimeout
<1>3. QED
  BY <1>2, SMT

\* A transfer with another state, or with what it has read.
LEMMA AlMoves ==
  ASSUME NEW t \in AL!Task
  PROVE  /\ \A s \in AL!TransferState :
              LET u == [t EXCEPT !.state = s] IN
              /\ u \in AL!Task /\ u.state = s /\ u.to = t.to /\ u.target = t.target
              /\ u.reset = t.reset /\ u.timeout = t.timeout /\ u.current = t.current
         /\ \A a \in AlStates :
              LET u == [t EXCEPT !.current = a] IN
              /\ u \in AL!Task /\ u.state = t.state /\ u.to = t.to /\ u.target = t.target
              /\ u.reset = t.reset /\ u.timeout = t.timeout
         /\ \A a \in AlStates :
              LET u == [t EXCEPT !.reset = a] IN
              /\ u \in AL!Task /\ u.state = t.state /\ u.to = t.to /\ u.target = t.target
              /\ u.reset = a /\ u.timeout = t.timeout
<1>1. ASSUME NEW s \in AL!TransferState
      PROVE  LET u == [t EXCEPT !.state = s] IN
              /\ u \in AL!Task /\ u.state = s /\ u.to = t.to /\ u.target = t.target
              /\ u.reset = t.reset /\ u.timeout = t.timeout /\ u.current = t.current
  BY DEF AL!Task
<1>2. ASSUME NEW a \in AlStates
      PROVE  LET u == [t EXCEPT !.current = a] IN
              /\ u \in AL!Task /\ u.state = t.state /\ u.to = t.to /\ u.target = t.target
              /\ u.reset = t.reset /\ u.timeout = t.timeout
  BY AlNames DEF AL!Task
<1>3. ASSUME NEW a \in AlStates
      PROVE  LET u == [t EXCEPT !.reset = a] IN
              /\ u \in AL!Task /\ u.state = t.state /\ u.to = t.to /\ u.target = t.target
              /\ u.reset = a /\ u.timeout = t.timeout
  BY AlNames DEF AL!Task
<1>4. QED
  BY <1>1, <1>2, <1>3

\* A transfer goes on.
LEMMA AlGoesOn ==
  ASSUME NEW p, NEW known, NEW i \in InitType, i.state = "RequestInitState", Found(i, p, known),
         NEW a \in AL!Task, AlPrepared(a, p)
  PROVE  Outcome(AlDone(i, a), i, p, known)
<1>0. a.state \notin {"Complete", "Error", "panic"}
  BY DEF AlPrepared
<1>1. PICK v : v = [i EXCEPT !.al = a, !.first = FALSE]
  OBVIOUS
<1>2. /\ v \in InitType /\ v.state = i.state /\ v.n = i.n /\ v.info = i.info
      /\ v.position = i.position /\ v.al = a
  BY <1>1, InnerMoves
<1>3. AlDone(i, a) = v
  BY <1>0, <1>1 DEF AlDone
<1>4. Found(v, p, known)
  BY <1>2, FoundSame
<1>5. ToSend(v, p, known)
  BY <1>2, StateNames DEF ToSend, AlUnderWay
<1>6. v.state \notin {"Error", "panic"}
  BY <1>2
<1>7. QED
  BY <1>2, <1>3, <1>4, <1>5, <1>6 DEF Outcome

\* A transfer that is over: the slave is in Init.
LEMMA AlArrives ==
  ASSUME bus \in Buses, NEW p \in Slaves, NEW known, NEW i \in InitType, i.state = "RequestInitState",
         Found(i, p, known), regs[p].dirty \subseteq Registers(Profile(p)), al[p] = "Init",
         NEW a \in AL!Task, a.state = "Complete"
  PROVE  Outcome(AlDone(i, a), i, p, known)
<1>1. PICK v : v = [i EXCEPT !.al = a, !.first = FALSE]
  OBVIOUS
<1>2. /\ v \in InitType /\ v.info = i.info /\ v.position = i.position
  BY <1>1, InnerMoves
<1>3. PICK u : u = Goto(v, "ResetErrorCount")
  OBVIOUS
<1>4. AlDone(i, a) = u
  BY <1>1, <1>3 DEF AlDone
<1>5. "ResetErrorCount" \in SlaveInitState
  BY DEF SlaveInitState, WriteStates
<1>6. /\ u \in InitType /\ u.state = "ResetErrorCount" /\ u.info = i.info /\ u.position = i.position
  BY <1>2, <1>3, <1>5, GotoMoves DEF SameTask
<1>7. Rank(i) = 2 /\ Rank(u) = 3
  BY <1>6, RankValues
<1>8. SlaveDone(u, p)
  <2>1. \A r \in regs[p].dirty : Rank(u) <= ResetAt(r)
    BY <1>7, Passes DEF Found
  <2>2. \A n \in SmNumber : ~(3 > 40 + 2 * n) /\ ~(3 > 41 + 2 * n)
    BY DEF SmNumber
  <2>3. QED
    BY <1>7, <2>1, <2>2 DEF SlaveDone
<1>9. LinkKnown(u, p) /\ EepromKnown(u, p, known) /\ AreaKnown(u)
  BY <1>6, <1>7 DEF Found, LinkKnown, EepromKnown, SmKnown, AreaKnown
<1>10. CountsRight(u) /\ ToSend(u, p, known) /\ u.state \notin {"Error", "panic"}
  BY <1>6 DEF CountsRight, ToSend, Ended, SiiStates
<1>11. QED
  BY <1>4, <1>6, <1>8, <1>9, <1>10 DEF Found, Outcome

\* Whatever step of the transfer is answered, it goes on, fails after a fault or the slave
\* is in Init.
LEMMA AlOutcome ==
  ASSUME bus \in Buses, NEW p \in Slaves, NEW known, NEW i \in InitType, i = task.init,
         i.state = "RequestInitState", Found(i, p, known), AlUnderWay(i, p), SentOf(i, p),
         regs[p].dirty \subseteq Registers(Profile(p)), socket.wkc = 1, AlAnswered(i, p),
         i.al.state \in {"Read", "Poll"} => socket.command.reg[1] = "AlStatus",
         al[p] \in AlStates,
         NEW a \in AL!Recieved(i.al)
  PROVE  Outcome(AlDone(i, a), i, p, known)
<1>0. PICK t \in AL!Task : t = i.al
  BY InitFields
<1>1. AlPrepared(t, p)
  BY <1>0 DEF AlUnderWay
<1>2. AL!ExpectedPdu(t)
  BY <1>0 DEF AL!ExpectedPdu
<1>3. CASE t.state \in {"Read", "Poll"}
  <2>1. AlAnswer = socket.answer
    BY <1>0, <1>3 DEF AlAnswer
  <2>2. PICK b \in AlStates : socket.answer.bits = AL!Bits(b) /\ (b = "Init" => al[p] = "Init")
    BY <1>0, <1>3 DEF AlAnswered
  <2>3. AL!AlStateFrom(AlAnswer.bits) = b
    BY <2>1, <2>2, BitsBack
  <2>4. socket.answer.change_err => err[p] /\ b = al[p] /\ request[p] = "none"
    BY <1>0, <1>3, <2>2, BitsBack DEF AlAnswered
  <2>5. ~socket.answer.change_err => ~err[p]
    BY <1>0, <1>3 DEF AlAnswered
  <2>6. socket.answer.change_err \in BOOLEAN
    BY <1>0, <1>3 DEF AlAnswered
  <2>7. PICK u : u = [t EXCEPT !.current = b]
    OBVIOUS
  <2>8. /\ u \in AL!Task /\ u.state = t.state /\ u.to = t.to /\ u.target = t.target
        /\ u.reset = t.reset /\ u.timeout = t.timeout
    BY <2>7, AlMoves
  <2>9. CASE b = "Init"
    <3>1. a = [u EXCEPT !.state = "Complete"]
      <4>1. t.target = b
        BY <1>1, <2>9 DEF AlPrepared
      <4>2. CASE t.state = "Read"
        <5>1. a = AL!ReadDone(t, b)
          BY <1>0, <1>2, <2>3, <4>2, Zenon DEF AL!Recieved
        <5>2. QED
          BY <2>7, <4>1, <5>1, Zenon DEF AL!ReadDone
      <4>3. CASE t.state = "Poll"
        <5>1. a \in AL!PollDone(t, b)
          <6>1. t.state # "Read"
            BY <4>3
          <6>2. QED
            BY <1>0, <1>2, <2>3, <4>3, <6>1, Zenon DEF AL!Recieved
        <5>2. QED
          BY <2>7, <4>1, <5>1, Zenon DEF AL!PollDone
      <4>4. QED
        BY <1>3, <4>2, <4>3
    <3>2. a \in AL!Task /\ a.state = "Complete"
      BY <2>8, <3>1, AlMoves, AlNames
    <3>3. QED
      BY <2>2, <2>9, <3>2, AlArrives
  <2>10. CASE b # "Init" /\ t.state = "Read" /\ socket.answer.change_err
    <3>1. a = [u EXCEPT !.state = "ResetError", !.reset = b]
      <4>1. t.target # b /\ b # "InvalidOrMixed"
        BY <1>1, <2>10 DEF AlPrepared, AlStates
      <4>2. a = AL!ReadDone(t, b)
        BY <1>0, <1>2, <2>3, <2>10, Zenon DEF AL!Recieved
      <4>3. AlAnswer.change_err
        BY <2>1, <2>10
      <4>4. QED
        BY <2>7, <4>1, <4>2, <4>3 DEF AL!ReadDone
    <3>2. PICK w : w = [u EXCEPT !.state = "ResetError"]
      OBVIOUS
    <3>3. w \in AL!Task /\ w.state = "ResetError" /\ w.to = t.to /\ w.target = t.target
      BY <2>8, <3>2, AlMoves, AlNames
    <3>4. a = [w EXCEPT !.reset = b]
      BY <3>1, <3>2
    <3>5. a \in AL!Task /\ a.state = "ResetError" /\ a.to = t.to /\ a.target = t.target /\ a.reset = b
      BY <3>3, <3>4, AlMoves
    <3>6. AlPrepared(a, p)
      BY <1>1, <2>4, <2>10, <3>5 DEF AlPrepared
    <3>7. QED
      BY <3>5, <3>6, AlGoesOn
  <2>11. CASE b # "Init" /\ t.state = "Read" /\ ~socket.answer.change_err
    <3>1. a = [u EXCEPT !.state = "ResetSiiOwnership"]
      <4>1. t.target # b
        BY <1>1, <2>11 DEF AlPrepared
      <4>2. a = AL!ReadDone(t, b)
        BY <1>0, <1>2, <2>3, <2>11, Zenon DEF AL!Recieved
      <4>3. ~AlAnswer.change_err
        BY <2>1, <2>11
      <4>4. QED
        BY <2>7, <4>1, <4>2, <4>3 DEF AL!ReadDone
    <3>2. a \in AL!Task /\ a.state = "ResetSiiOwnership" /\ a.to = t.to /\ a.target = t.target
      BY <2>8, <3>1, AlMoves, AlNames
    <3>3. AlPrepared(a, p)
      BY <1>1, <2>5, <2>11, <3>2 DEF AlPrepared
    <3>4. QED
      BY <3>2, <3>3, AlGoesOn
  <2>12. CASE b # "Init" /\ t.state = "Poll"
    <3>1. ~socket.answer.change_err /\ t.timeout = 5000
      BY <1>1, <2>4, <2>12 DEF AlPrepared
    <3>2. ~(t.timeout * 1000 < StepLimit)
      BY <3>1, SiiTimeAssumption, TimerAssumption
    <3>3. a = u
      <4>1. t.target # b /\ t.state # "Read"
        BY <1>1, <2>12 DEF AlPrepared
      <4>2. a \in AL!PollDone(t, b)
        BY <1>0, <1>2, <2>3, <2>12, <4>1, Zenon DEF AL!Recieved
      <4>3. ~AlAnswer.change_err
        BY <2>1, <3>1
      <4>4. QED
        BY <2>7, <3>2, <4>1, <4>2, <4>3, Zenon DEF AL!PollDone
    <3>4. AlPrepared(a, p)
      BY <1>1, <2>8, <3>3 DEF AlPrepared
    <3>5. QED
      BY <2>8, <3>3, <3>4, AlGoesOn
  <2>13. QED
    BY <1>3, <2>6, <2>9, <2>10, <2>11, <2>12
<1>4. CASE t.state \in {"ResetError", "OffAck", "ResetSiiOwnership", "Request"}
  <2> DEFINE s == AL!Following(t.state)
             reset == IF t.state = "ResetError" THEN t.reset ELSE "Init"
  <2>1. a = [t EXCEPT !.state = s, !.reset = reset]
    <3>1. t.state # "Read" /\ t.state # "Poll"
      BY <1>4
    <3>2. QED
      BY <1>0, <1>2, <3>1 DEF AL!Recieved
  <2>2. /\ t.state = "ResetError" => s = "OffAck"
        /\ t.state = "OffAck" => s = "Read"
        /\ t.state = "ResetSiiOwnership" => s = "Request"
        /\ t.state = "Request" => s = "Poll"
    BY DEF AL!Following
  <2>3. reset \in AlStates /\ (t.state = "ResetError" => reset = t.reset)
    <3>1. t.reset \in AlStates
      BY AlNames DEF AL!Task
    <3>2. QED
      BY <3>1, AlNames
  <2> HIDE DEF s, reset
  <2>4. s \in AL!TransferState
    BY <1>4, <2>2, AlNames
  <2>5. PICK w : w = [t EXCEPT !.state = s]
    OBVIOUS
  <2>6. w \in AL!Task /\ w.state = s /\ w.to = t.to /\ w.target = t.target /\ w.timeout = t.timeout
    BY <2>4, <2>5, AlMoves
  <2>7. a = [w EXCEPT !.reset = reset]
    BY <2>1, <2>5
  <2>8. /\ a \in AL!Task /\ a.state = s /\ a.to = t.to /\ a.target = t.target /\ a.reset = reset
        /\ a.timeout = t.timeout
    BY <2>3, <2>6, <2>7, AlMoves
  <2>9. t.state = "Request" => t.timeout = 5000
    BY <1>0 DEF SentOf
  <2>10. AlPrepared(a, p)
    <3>1. CASE t.state = "ResetError"
      BY <1>1, <2>2, <2>3, <2>8, <3>1 DEF AlPrepared
    <3>2. CASE t.state = "OffAck"
      BY <1>1, <2>2, <2>8, <3>2 DEF AlPrepared
    <3>3. CASE t.state = "ResetSiiOwnership"
      BY <1>1, <2>2, <2>8, <3>3 DEF AlPrepared
    <3>4. CASE t.state = "Request"
      BY <1>1, <2>2, <2>8, <2>9, <3>4 DEF AlPrepared
    <3>5. QED
      BY <1>4, <3>1, <3>2, <3>3, <3>4
  <2>11. QED
    BY <2>8, <2>10, AlGoesOn
<1>5. QED
  BY <1>1, <1>3, <1>4 DEF AlPrepared

\* A write that was counted leads to the next place.
LEMMA WriteOutcome ==
  ASSUME bus \in Buses, NEW p \in Slaves, NEW known \in BOOLEAN, NEW i \in InitType,
         i.state \in WriteStates, Found(i, p, known), WriteAnswered(i, p), SentOf(i, p),
         regs[p].dirty \subseteq Registers(Profile(p))
  PROVE  Outcome(AfterWrite(i), i, p, known)
<1>1. PICK u : u = AfterWrite(i)
  OBVIOUS
<1>2. Found(u, p, known)
  BY <1>1, WriteFound DEF SentOf
<1>3. Moved(u, i)
  BY <1>1, WriteMoves DEF Found
<1>4. ToSend(u, p, known)
  BY <1>3 DEF Moved, ToSend, Ended
<1>5. QED
  BY <1>1, <1>2, <1>3, <1>4 DEF Outcome, Moved, SameTask

\* Whatever the answer, the slave's task goes on or fails for a cause.
LEMMA RecievedOutcome ==
  ASSUME bus \in Buses, NEW p \in Slaves, NEW known \in BOOLEAN, NEW i, i = task.init,
         WorkSent(i, p, known, TRUE), Answered(i, p, known),
         regs[p].dirty \subseteq Registers(Profile(p)), al[p] \in AlStates,
         i.state = "RequestInitState" /\ i.al.state \in {"Read", "Poll"} => socket.command.reg[1] = "AlStatus",
         known /\ i.state \in SiiStates /\ socket.wkc = 1 => ~OverwrittenError(i.sii, socket.answer),
         NEW u \in SlaveInitRecieved(i, socket.wkc, socket.answer, AL!Recieved(i.al))
  PROVE  Outcome(u, i, p, known)
<1>0. /\ i \in InitType /\ i.state \notin Ended /\ i.state \in SlaveInitState
      /\ Found(i, p, known) /\ AlUnderWay(i, p) /\ SentOf(i, p) /\ SiiUnderWay(i, p, known, TRUE)
  BY InitFields DEF WorkSent
<1>1. CASE socket.wkc # 1
  <2>1. u = InitFails(i, "UnexpectedWkc")
    BY <1>0, <1>1, Zenon DEF SlaveInitRecieved
  <2>2. faults > 0
    BY <1>1 DEF Answered
  <2>3. QED
    BY <1>0, <2>1, <2>2, EndMoves DEF Outcome
<1>2. CASE socket.wkc = 1
  <2>0. WriteAnswered(i, p) /\ ReadAnswered(i, p) /\ AlAnswered(i, p) /\ SiiAnswered(i, p, known)
    BY <1>2 DEF Answered
  <2>1. CASE i.state \in WriteStates
    <3>1. i.state \notin ReadStates \cup SiiStates \cup {"RequestInitState"}
      BY <2>1, StateNames, Zenon
    <3>2. u = AfterWrite(i)
      BY <1>0, <1>2, <2>1, <3>1, Zenon DEF SlaveInitRecieved
    <3>3. QED
      BY <1>0, <2>0, <2>1, <3>2, WriteOutcome
  <2>2. CASE i.state \in ReadStates
    <3>1. i.state \notin WriteStates \cup SiiStates \cup {"RequestInitState"}
      BY <2>2, StateNames, Zenon
    <3>2. u = AfterRead(i, socket.answer)
      BY <1>0, <1>2, <2>2, <3>1, Zenon DEF SlaveInitRecieved
    <3>3. QED
      BY <1>0, <2>0, <2>2, <3>2, ReadOutcome
  <2>3. CASE i.state \in SiiStates
    <3>1. i.state \notin WriteStates \cup ReadStates \cup {"RequestInitState"}
      BY <2>3, StateNames, Zenon
    <3>2. \E r \in SiiRecieved(i.sii, socket.answer) : u = SiiDone(i, r)
      BY <1>0, <1>2, <2>3, <3>1, Zenon DEF SlaveInitRecieved
    <3>3. QED
      BY <1>0, <1>2, <2>0, <2>3, <3>2, SiiOutcome
  <2>4. CASE i.state = "RequestInitState"
    <3>1. i.state \notin WriteStates \cup ReadStates \cup SiiStates
      BY <2>4, StateNames, Zenon
    <3>2. \E a \in AL!Recieved(i.al) : u = AlDone(i, a)
      BY <1>0, <1>2, <2>4, <3>1, Zenon DEF SlaveInitRecieved
    <3>3. QED
      BY <1>0, <1>2, <2>0, <2>4, <3>2, AlOutcome
  <2>5. QED
    BY <1>0, <2>1, <2>2, <2>3, <2>4, StateNames, Zenon
<1>3. QED
  BY <1>1, <1>2

----------------------------------------------------------------------------
\* The inner transfer sends.
LEMMA AlSends ==
  ASSUME NEW t \in AL!Task, NEW p, AlPrepared(t, p), NEW u, u = AL!Sending(t)
  PROVE  /\ u \in AL!Task /\ AlPrepared(u, p) /\ u.state = t.state
         /\ u.state = "Request" => u.timeout = 5000
<1>1. PICK c : c = AL!CommandOf(t)
  OBVIOUS
<1>2. c \in AL!Command
  <2>1. t.to.all \in BOOLEAN
    BY DEF AlPrepared
  <2>2. t.state \in {"Read", "ResetError", "OffAck", "ResetSiiOwnership", "Request", "Poll"}
    BY DEF AlPrepared
  <2>3. QED
    BY <1>1, <2>1, <2>2 DEF AL!CommandOf, AL!Command, AL!Register
<1>3. PICK d : d = IF t.state = "Request" THEN AL!TimeoutOf(t.current, t.target) ELSE t.timeout
  OBVIOUS
<1>4. t.state = "Request" => d = 5000
  BY <1>3 DEF AL!TimeoutOf, AlPrepared
<1>5. t.state # "Request" => d = t.timeout
  BY <1>3
<1>6. d \in 0 .. AL!MaxTimeout
  <2>1. t.timeout \in 0 .. AL!MaxTimeout
    BY DEF AL!Task
  <2>2. QED
    BY <1>4, <1>5, <2>1, AlTimes
<1>7. u = [t EXCEPT !.command = c, !.timeout = d]
  BY <1>1, <1>3 DEF AL!Sending
<1>8. PICK w : w = [t EXCEPT !.command = c]
  OBVIOUS
<1>9. /\ w \in AL!Task /\ w.state = t.state /\ w.to = t.to /\ w.target = t.target
      /\ w.reset = t.reset /\ w.timeout = t.timeout
  BY <1>2, <1>8 DEF AL!Task
<1>10. u = [w EXCEPT !.timeout = d]
  BY <1>7, <1>8
<1>11. /\ u \in AL!Task /\ u.state = t.state /\ u.to = t.to /\ u.target = t.target
       /\ u.reset = t.reset /\ u.timeout = d
  BY <1>6, <1>9, <1>10 DEF AL!Task
<1>12. QED
  BY <1>4, <1>5, <1>11 DEF AlPrepared

\* AlStateTransfer::new, started for Init.
LEMMA NewAlType ==
  ASSUME NEW p \in Pos
  PROVE  NewAl(p) \in AL!Task /\ AlPrepared(NewAl(p), p)
<1>1. NewAl(p) = [state |-> "Read", to |-> [all |-> FALSE, slaves |-> {p}], target |-> "Init",
                  reset |-> "Init", current |-> "Init", timeout |-> 0, command |-> AL!Nop]
  <2>1. PICK t : t = AL!NewTask([all |-> FALSE, slaves |-> {p}])
    OBVIOUS
  <2>2. t = [state |-> "Idle", to |-> [all |-> FALSE, slaves |-> {p}], target |-> "Init",
             reset |-> "Init", current |-> "Init", timeout |-> 0, command |-> AL!Nop]
    BY <2>1, Zenon DEF AL!NewTask
  <2>3. NewAl(p) = [t EXCEPT !.state = "Read"]
    BY <2>1 DEF NewAl
  <2>4. QED
    BY <2>2, <2>3
<1>2. [all |-> FALSE, slaves |-> {p}] \in AL!TargetSlave
  BY DEF AL!TargetSlave
<1>3. AL!Nop \in AL!Command
  BY DEF AL!Command
<1>4. 0 \in 0 .. AL!MaxTimeout
  BY AlTimes
<1>5. NewAl(p) \in AL!Task
  BY <1>1, <1>2, <1>3, <1>4, AlNames DEF AL!Task
<1>6. QED
  BY <1>1, <1>5 DEF AlPrepared

\* The reader starts.
LEMMA SiiStarts ==
  ASSUME NEW i \in InitType, i.state \in SiiStates, NEW r,
         r = SiiStart(IF i.state = "GetVenderID" THEN NewSiiReader ELSE i.sii, SiiAddressOf(i.state))
  PROVE  r \in SiiType /\ r.state = "Init" /\ r.address = SiiAddressOf(i.state)
<1>1. PICK s : s = IF i.state = "GetVenderID" THEN NewSiiReader ELSE i.sii
  OBVIOUS
<1>2. s \in SiiType
  BY <1>1, NewSiiType, InitFields
<1>3. PICK a : a = SiiAddressOf(i.state)
  OBVIOUS
<1>4. a \in 0 .. 28
  BY <1>3 DEF SiiAddressOf, SiiStates, VenderId, ProductCode, RevisionNumber, MailboxProtocol,
         StandardRxMailboxSize, StandardRxMailboxOffset, StandardTxMailboxSize, StandardTxMailboxOffset
<1>5. r = [s EXCEPT !.state = "Init", !.address = a]
  BY <1>1, <1>3 DEF SiiStart
<1>6. PICK w : w = [s EXCEPT !.state = "Init"]
  OBVIOUS
<1>7. "Init" \in SiiState
  BY DEF SiiState
<1>8. w \in SiiType /\ w.state = "Init"
  BY <1>2, <1>6, <1>7, SiiMoves
<1>9. r = [w EXCEPT !.address = a]
  BY <1>5, <1>6
<1>10. r \in SiiType /\ r.state = "Init" /\ r.address = a
  BY <1>4, <1>8, <1>9 DEF SiiType
<1>11. QED
  BY <1>3, <1>10

\* The task of a slave that goes on sends.
WorkReady(u, p, known) ==
  /\ u \in InitType /\ u.position = p /\ u.state \notin Ended
  /\ Found(u, p, known) /\ ToSend(u, p, known)

HasSent(v, u, p, known) == WorkSent(v, p, known, FALSE) /\ v.state = u.state

\* A task that is ready sends, and stays at its place.
LEMMA WorkSends ==
  ASSUME bus \in Buses, NEW p \in Slaves, NEW known \in BOOLEAN, NEW u, WorkReady(u, p, known),
         NEW v, v = InitSending(u)
  PROVE  HasSent(v, u, p, known)
<1> USE DEF WorkReady, HasSent
<1>0. p \in Pos /\ p \in Nat /\ u.info \in InfoType /\ u.al \in AL!Task /\ u.sii \in SiiType
      /\ u.state \in SlaveInitState
  BY BusFacts, InitFields DEF Slaves
<1>1. CASE u.state = "RequestInitState"
  <2>1. PICK t : t = IF u.first THEN NewAl(p) ELSE u.al
    OBVIOUS
  <2>2. t \in AL!Task /\ AlPrepared(t, p)
    BY <1>0, <1>1, <2>1, NewAlType DEF ToSend, AlUnderWay
  <2>3. PICK x : x = [u EXCEPT !.al = t]
    OBVIOUS
  <2>4. /\ x \in InitType /\ x.state = u.state /\ x.n = u.n /\ x.info = u.info
        /\ x.position = u.position /\ x.al = t
    BY <2>2, <2>3 DEF InitType
  <2>5. SlaveInitSending(u, NewAl(p)) = x
    <3>1. CASE u.first
      BY <1>1, <2>1, <2>3, <3>1 DEF SlaveInitSending, SiiStates
    <3>2. CASE ~u.first
      <4>1. x = u
        BY <2>1, <2>3, <3>2 DEF InitType
      <4>2. SlaveInitSending(u, NewAl(p)) = u
        BY <1>1, <3>2 DEF SlaveInitSending, SiiStates
      <4>3. QED
        BY <4>1, <4>2
    <3>3. QED
      BY <3>1, <3>2 DEF InitType
  <2>6. PICK a : a = AL!Sending(t)
    OBVIOUS
  <2>7. a \in AL!Task /\ AlPrepared(a, p) /\ (a.state = "Request" => a.timeout = 5000)
    BY <2>2, <2>6, AlSends
  <2>8. v = [x EXCEPT !.al = a]
    BY <1>1, <2>4, <2>5, <2>6 DEF InitSending
  <2>9. /\ v \in InitType /\ v.state = u.state /\ v.n = u.n /\ v.info = u.info
        /\ v.position = u.position /\ v.al = a
    BY <2>4, <2>7, <2>8 DEF InitType
  <2>10. Found(v, p, known)
    BY <2>9, FoundSame
  <2>11. AlUnderWay(v, p) /\ SentOf(v, p) /\ SiiUnderWay(v, p, known, FALSE)
    BY <1>1, <2>7, <2>9 DEF AlUnderWay, SentOf, SiiUnderWay, SiiStates
  <2>12. QED
    BY <2>9, <2>10, <2>11 DEF WorkSent
<1>2. CASE u.state \in SiiStates
  <2>0. u.state # "RequestInitState" /\ u.state # "SetStationAddress"
    BY <1>2 DEF SiiStates
  <2>1. CASE u.first
    <3>1. PICK r : r = SiiStart(IF u.state = "GetVenderID" THEN NewSiiReader ELSE u.sii, SiiAddressOf(u.state))
      OBVIOUS
    <3>2. r \in SiiType /\ r.state = "Init" /\ r.address = SiiAddressOf(u.state)
      BY <1>2, <3>1, SiiStarts
    <3>3. PICK x : x = [u EXCEPT !.sii = r]
      OBVIOUS
    <3>4. /\ x \in InitType /\ x.state = u.state /\ x.n = u.n /\ x.info = u.info
          /\ x.position = u.position /\ x.sii = r
      BY <3>2, <3>3 DEF InitType
    <3>5. SlaveInitSending(u, NewAl(p)) = x
      BY <1>2, <2>0, <2>1, <3>1, <3>3 DEF SlaveInitSending
    <3>6. v = x
      BY <2>0, <3>4, <3>5 DEF InitSending
    <3>7. Found(x, p, known)
      BY <3>4, FoundSame
    <3>8. AlUnderWay(x, p) /\ SentOf(x, p) /\ SiiUnderWay(x, p, known, FALSE)
      BY <2>0, <3>2, <3>4 DEF AlUnderWay, SentOf, SiiUnderWay, SiiPrepared
    <3>9. QED
      BY <3>4, <3>6, <3>7, <3>8 DEF WorkSent
  <2>2. CASE ~u.first
    <3>1. SlaveInitSending(u, NewAl(p)) = u
      BY <1>2, <2>0, <2>2, Zenon DEF SlaveInitSending
    <3>2. v = u
      BY <2>0, <3>1, Zenon DEF InitSending
    <3>3. AlUnderWay(u, p) /\ SentOf(u, p) /\ SiiUnderWay(u, p, known, FALSE)
      <4>1. AlUnderWay(u, p) /\ SentOf(u, p)
        <5>1. AlUnderWay(u, p)
          BY <2>0, Zenon DEF AlUnderWay
        <5>2. SentOf(u, p)
          BY <2>0, SMT DEF SentOf
        <5>3. QED
          BY <5>1, <5>2
      <4>2. SiiUnderWay(u, p, known, FALSE)
        BY <1>2, <2>2, Zenon DEF ToSend
      <4>3. QED
        BY <4>1, <4>2
    <3>4. QED
      BY <3>2, <3>3 DEF WorkSent
  <2>3. QED
    BY <2>1, <2>2 DEF InitType
<1>3. CASE u.state = "SetStationAddress"
  <2>0. u.state # "RequestInitState" /\ u.state \notin SiiStates
    BY <1>3 DEF SiiStates
  <2>1. PICK y : y = [u.info EXCEPT !.configured_address = p + 1]
    OBVIOUS
  <2>2. y \in InfoType /\ y.configured_address = p + 1 /\ SameInfo({"configured_address"}, y, u.info)
    BY <1>0, <2>1 DEF InfoType, SameInfo
  <2>3. PICK x : x = [u EXCEPT !.info = y]
    OBVIOUS
  <2>4. /\ x \in InitType /\ x.state = u.state /\ x.n = u.n /\ x.info = y
        /\ x.position = u.position
    BY <2>2, <2>3 DEF InitType
  <2>5. SlaveInitSending(u, NewAl(p)) = x
    <3>1. SlaveInitSending(u, NewAl(p)) = [u EXCEPT !.info.configured_address = p + 1]
      BY <1>3, <2>0, Zenon DEF SlaveInitSending
    <3>2. QED
      BY <2>1, <2>3, <3>1
  <2>6. v = x
    BY <2>0, <2>4, <2>5 DEF InitSending
  <2>7. Rank(x) = 50 /\ Rank(u) = 50
    BY <1>3, <2>4, RankValues
  <2>8. CountsRight(x) /\ SlaveDone(x, p)
    <3>1. CountsRight(x)
      BY <1>3, <2>4 DEF CountsRight
    <3>2. x.info.sm = u.info.sm
      BY <2>2, <2>4 DEF SameInfo
    <3>3. QED
      BY <2>7, <3>1, <3>2 DEF Found, SlaveDone
  <2>9. LinkKnown(x, p)
    BY <2>2, <2>4, <2>7 DEF Found, LinkKnown, SameInfo
  <2>10. EepromKnown(x, p, known)
    BY <2>2, <2>4, <2>7 DEF Found, EepromKnown, SmKnown, SameInfo
  <2>11. AreaKnown(x)
    <3>1. AreaRight(u.info)
      BY DEF Found, AreaKnown
    <3>2. AreaRight(y)
      <4>1. y.pdo_size = u.info.pdo_size /\ y.pdo_start = u.info.pdo_start /\ y.sm = u.info.sm
            /\ y.ram_size_kb = u.info.ram_size_kb
        BY <2>2 DEF SameInfo
      <4>2. RamEnd(y) = RamEnd(u.info)
        BY <4>1 DEF RamEnd
      <4>3. QED
        BY <3>1, <4>1, <4>2 DEF AreaRight, MailboxesInRam
    <3>3. QED
      BY <2>4, <2>7, <3>2 DEF AreaKnown
  <2>12. AlUnderWay(x, p) /\ SentOf(x, p) /\ SiiUnderWay(x, p, known, FALSE)
    <3>1. x.state # "RequestInitState" /\ x.state \notin SiiStates /\ x.info.configured_address = p + 1
      BY <1>3, <2>0, <2>2, <2>4
    <3>2. QED
      <4>1. AlUnderWay(x, p) /\ SiiUnderWay(x, p, known, FALSE)
        BY <3>1, Zenon DEF AlUnderWay, SiiUnderWay
      <4>2. SentOf(x, p)
        BY <3>1, SMT DEF SentOf
      <4>3. QED
        BY <4>1, <4>2
  <2>13. Found(x, p, known)
    BY <2>8, <2>9, <2>10, <2>11 DEF Found
  <2>14. QED
    BY <2>4, <2>6, <2>12, <2>13 DEF WorkSent
<1>4. CASE u.state \notin SiiStates \cup {"RequestInitState", "SetStationAddress"}
  <2>1. SlaveInitSending(u, NewAl(p)) = u
    BY <1>4, Zenon DEF SlaveInitSending
  <2>2. v = u
    <3>1. u.state # "RequestInitState"
      BY <1>4
    <3>2. QED
      BY <2>1, <3>1, Zenon DEF InitSending
  <2>3. AlUnderWay(u, p) /\ SentOf(u, p) /\ SiiUnderWay(u, p, known, FALSE)
    <3>1. u.state # "RequestInitState" /\ u.state # "SetStationAddress" /\ u.state \notin SiiStates
      BY <1>4
    <3>2. QED
      <4>1. AlUnderWay(u, p) /\ SiiUnderWay(u, p, known, FALSE)
        BY <3>1, Zenon DEF AlUnderWay, SiiUnderWay
      <4>2. SentOf(u, p)
        BY <3>1, SMT DEF SentOf
      <4>3. QED
        BY <4>1, <4>2
  <2>4. QED
    BY <2>2, <2>3 DEF WorkSent
<1>5. QED
  BY <1>1, <1>2, <1>3, <1>4

\* The task of the next slave starts.
LEMMA SlaveStarts ==
  ASSUME bus \in Buses, NEW p \in Slaves, NEW known \in BOOLEAN, NEW i \in InitType,
         regs[p].dirty \subseteq Registers(Profile(p)),
         NEW v, v = InitSending(SlaveInitStart(i, p))
  PROVE  WorkSent(v, p, known, FALSE) /\ v.state = "SetLoopPort"
<1>1. PICK u : u = SlaveInitStart(i, p)
  OBVIOUS
<1>2. /\ u \in InitType /\ u.state = "SetLoopPort" /\ u.n = 0 /\ u.info = NewInfo /\ u.position = p
  <2>0. "SetLoopPort" \in SlaveInitState
    BY DEF SlaveInitState, WriteStates
  <2>1. PICK w1 : w1 = [i EXCEPT !.state = "SetLoopPort"]
    OBVIOUS
  <2>2. w1 \in InitType /\ w1.state = "SetLoopPort"
    BY <2>0, <2>1 DEF InitType
  <2>3. PICK w2 : w2 = [w1 EXCEPT !.n = 0]
    OBVIOUS
  <2>4. w2 \in InitType /\ w2.state = "SetLoopPort" /\ w2.n = 0
    BY <2>2, <2>3 DEF InitType
  <2>5. PICK w3 : w3 = [w2 EXCEPT !.position = p]
    OBVIOUS
  <2>6. w3 \in InitType /\ w3.state = "SetLoopPort" /\ w3.n = 0 /\ w3.position = p
    BY <2>4, <2>5, BusFacts DEF InitType
  <2>7. u = [w3 EXCEPT !.info = NewInfo]
    BY <1>1, <2>1, <2>3, <2>5 DEF SlaveInitStart
  <2>8. QED
    BY <2>6, <2>7, NewInfoType DEF InitType
<1>3. Rank(u) = 1
  BY <1>2, RankValues
<1>4. CountsRight(u)
  BY <1>2 DEF CountsRight
<1>5. SlaveDone(u, p)
  <2>1. ASSUME NEW r \in regs[p].dirty
        PROVE  1 <= ResetAt(r)
    <3>1. r \in Registers(Profile(p)) /\ IsProfile(Profile(p))
      BY BusFacts
    <3>2. ResetAt(r) \in ResetRanks
      BY <3>1, ResetRange
    <3>3. QED
      BY <3>2 DEF ResetRanks
  <2>2. \A n \in SmNumber : ~(1 > 40 + 2 * n) /\ ~(1 > 41 + 2 * n)
    BY DEF SmNumber
  <2>3. QED
    BY <1>3, <2>1, <2>2 DEF SlaveDone
<1>6. LinkKnown(u, p) /\ EepromKnown(u, p, known)
  <2>1. u.info.sm[0] = NoSm /\ u.info.sm[1] = NoSm /\ u.info.sm[2] = NoSm /\ u.info.sm[3] = NoSm
    BY <1>2, NewInfoType DEF SmNumber
  <2>2. QED
    BY <1>3, <2>1 DEF LinkKnown, EepromKnown, SmKnown
<1>7. AreaKnown(u)
  BY <1>2, NewInfoType DEF AreaKnown, AreaRight
<1>8. ToSend(u, p, known) /\ u.state \notin Ended
  BY <1>2 DEF ToSend, SiiStates, Ended
<1>9. Found(u, p, known)
  BY <1>4, <1>5, <1>6, <1>7 DEF Found
<1>10. v = InitSending(u)
  BY <1>1
<1>r. WorkReady(u, p, known)
  BY <1>2, <1>8, <1>9 DEF WorkReady
<1>11. HasSent(v, u, p, known)
  BY <1>r, <1>10, WorkSends
<1>12. QED
  BY <1>2, <1>11 DEF HasSent

\* What is known of a network that stays the same.
LEMMA BusFrame ==
  ASSUME bus' = bus, NEW CONSTANT p
  PROVE  /\ Profile(p)' = Profile(p) /\ Slaves' = Slaves
         /\ \A n : SmIn(p, n)' = SmIn(p, n)
<1>1. Profile(p)' = Profile(p) /\ Slaves' = Slaves
  BY DEF Profile, Slaves
<1>2. ASSUME NEW CONSTANT a
      PROVE  MailboxIn(p, a)' <=> MailboxIn(p, a)
  BY <1>1 DEF MailboxIn
<1>3. ASSUME NEW CONSTANT n
      PROVE  SmIn(p, n)' = SmIn(p, n)
  BY <1>1, <1>2, Zenon DEF SmIn
<1>4. QED
  BY <1>1, <1>3

\* What was found out stays true as long as the network is the same.
LEMMA KnownFrame ==
  ASSUME bus' = bus, NEW CONSTANT i, NEW CONSTANT p, NEW CONSTANT known
  PROVE  /\ LinkKnown(i, p) => LinkKnown(i, p)'
         /\ EepromKnown(i, p, known) => EepromKnown(i, p, known)'
         /\ CountsRight(i) => CountsRight(i)'
         /\ AreaKnown(i) => AreaKnown(i)'
<1>1. LinkKnown(i, p) => LinkKnown(i, p)'
  BY BusFrame DEF LinkKnown
<1>2. \A n : SmIn(p, n)' = SmIn(p, n)
  BY BusFrame
<1>3. ASSUME NEW CONSTANT n, NEW CONSTANT at, SmKnown(i, p, known, n, at)
      PROVE  SmKnown(i, p, known, n, at)'
  BY <1>2, <1>3 DEF SmKnown
<1>4. EepromKnown(i, p, known) => EepromKnown(i, p, known)'
  <2>1. Profile(p)' = Profile(p)
    BY BusFrame
  <2>2. QED
    BY <1>3, <2>1 DEF EepromKnown
<1>5. CountsRight(i) => CountsRight(i)'
  BY DEF CountsRight
<1>6. AreaKnown(i) => AreaKnown(i)'
  OBVIOUS
<1>7. QED
  BY <1>1, <1>4, <1>5, <1>6

\* The same for what was done at the slave, if its state and registers stay.
LEMMA SlaveDoneFrame ==
  ASSUME NEW CONSTANT i, NEW CONSTANT p, al'[p] = al[p], regs'[p] = regs[p], SlaveDone(i, p)
  PROVE  SlaveDone(i, p)'
  BY DEF SlaveDone

\* The same for the transfer.
LEMMA AlFrame ==
  ASSUME NEW CONSTANT i, NEW CONSTANT p, al'[p] = al[p], err'[p] = err[p], request'[p] = request[p],
         AlUnderWay(i, p)
  PROVE  AlUnderWay(i, p)'
  BY DEF AlUnderWay, AlPrepared

\* The same for the EEPROM interface.
LEMMA LoadedFrame ==
  ASSUME bus' = bus, NEW CONSTANT p, NEW CONSTANT a, ee'[p] = ee[p]
  PROVE  /\ Loaded(p, a)' <=> Loaded(p, a)
         /\ Loading(p, a)' <=> Loading(p, a)
<1>1. Profile(p)' = Profile(p)
  BY BusFrame
<1>2. Loaded(p, a)' <=> Loaded(p, a)
  BY <1>1 DEF Loaded
<1>3. QED
  BY <1>2 DEF Loading

\* The same for the SII reader.
LEMMA SiiFrame ==
  ASSUME bus' = bus, NEW CONSTANT i, NEW CONSTANT p, NEW CONSTANT known, NEW CONSTANT back,
         ee'[p] = ee[p], pdi'[p] = pdi[p], SiiUnderWay(i, p, known, back)
  PROVE  SiiUnderWay(i, p, known, back)'
<1>1. ASSUME NEW CONSTANT r, SiiPrepared(r, p, back)
      PROVE  SiiPrepared(r, p, back)'
  BY <1>1, LoadedFrame DEF SiiPrepared
<1>2. QED
  BY <1>1 DEF SiiUnderWay

\* The parts of Found, put together.
LEMMA FoundFrame ==
  ASSUME bus' = bus, NEW CONSTANT i, NEW CONSTANT p, NEW CONSTANT known,
         SlaveDone(i, p)', Found(i, p, known)
  PROVE  Found(i, p, known)'
  BY KnownFrame DEF Found

\* A step that changes nothing of the slave at p.
LEMMA WorkFrame ==
  ASSUME bus' = bus, NEW CONSTANT i, NEW CONSTANT p, NEW CONSTANT known, NEW CONSTANT back,
         al'[p] = al[p], err'[p] = err[p], request'[p] = request[p], pdi'[p] = pdi[p],
         ee'[p] = ee[p], regs'[p] = regs[p], WorkSent(i, p, known, back)
  PROVE  WorkSent(i, p, known, back)'
<1>1. Found(i, p, known) /\ AlUnderWay(i, p) /\ SentOf(i, p) /\ SiiUnderWay(i, p, known, back)
      /\ SlaveDone(i, p) /\ i \in InitType /\ i.state \notin Ended /\ i.position = p
  BY DEF WorkSent, Found
<1>2. SlaveDone(i, p)'
  BY <1>1, SlaveDoneFrame
<1>3. Found(i, p, known)'
  BY <1>1, <1>2, FoundFrame
<1>4. AlUnderWay(i, p)'
  BY <1>1, AlFrame
<1>5. SiiUnderWay(i, p, known, back)'
  BY <1>1, SiiFrame
<1>6. i \in InitType'
  BY <1>1
<1>7. QED
  BY <1>1, <1>3, <1>4, <1>5, <1>6 DEF WorkSent

\* Less may be known of a slave.
LEMMA LessKnown ==
  ASSUME NEW CONSTANT i, NEW CONSTANT p, NEW CONSTANT back
  PROVE  /\ Found(i, p, TRUE) => Found(i, p, FALSE)
         /\ WorkSent(i, p, TRUE, back) => WorkSent(i, p, FALSE, back)
         /\ Answered(i, p, TRUE) => Answered(i, p, FALSE)
<1>1. Found(i, p, TRUE) => Found(i, p, FALSE)
  <2>1. EepromKnown(i, p, TRUE) => EepromKnown(i, p, FALSE)
    BY DEF EepromKnown, SmKnown
  <2>2. QED
    BY <2>1 DEF Found
<1>2. SiiUnderWay(i, p, TRUE, back) => SiiUnderWay(i, p, FALSE, back)
  BY DEF SiiUnderWay
<1>3. Answered(i, p, TRUE) => Answered(i, p, FALSE)
  <2>1. SiiAnswered(i, p, TRUE) => SiiAnswered(i, p, FALSE)
    BY DEF SiiAnswered
  <2>2. QED
    BY <2>1 DEF Answered
<1>4. QED
  BY <1>1, <1>2, <1>3 DEF WorkSent

\* What is known of a slave whose errors were ignored is known of one whose errors were
\* not.
LEMMA StillKnown ==
  ASSUME NEW CONSTANT i, NEW CONSTANT p, NEW CONSTANT back, NEW CONSTANT k1 \in BOOLEAN,
         NEW CONSTANT k2 \in BOOLEAN, k2 => k1
  PROVE  /\ Found(i, p, k1) => Found(i, p, k2)
         /\ WorkSent(i, p, k1, back) => WorkSent(i, p, k2, back)
         /\ Answered(i, p, k1) => Answered(i, p, k2)
<1>1. CASE k1 = k2
  BY <1>1
<1>2. CASE k1 = TRUE /\ k2 = FALSE
  BY <1>2, LessKnown
<1>3. QED
  BY <1>1, <1>2

\* The fields of a PDU.
LEMMA PduForm ==
  ASSUME NEW op, NEW reg, NEW position, NEW value
  PROVE  Pdu(op, reg, position, value) =
           [command |-> [op |-> op, reg |-> reg], position |-> position, value |-> value,
            recv_flag |-> FALSE, wkc |-> 0, answer |-> 0]
<1>1. PICK n : n = NoPdu
  OBVIOUS
<1>2. n = [command |-> DefaultCommand, position |-> -1, value |-> 0, recv_flag |-> FALSE,
           wkc |-> 0, answer |-> 0]
  BY <1>1, Zenon DEF NoPdu
<1>3. PICK c : c = [op |-> op, reg |-> reg]
  OBVIOUS
<1>4. Pdu(op, reg, position, value) = [n EXCEPT !.command = c, !.position = position, !.value = value]
  BY <1>1, <1>3, Zenon DEF Pdu
<1>5. QED
  BY <1>2, <1>3, <1>4

\* The PDU of the slave's task.
LEMMA WritePdu ==
  ASSUME NEW v \in InitType, v.state \in WriteStates
  PROVE  InitPdu(v) = Pdu("APWR", RegisterOf(v), v.position,
                          [data |-> ValueOf(v), all |-> v.state = "ClearSm", owner |-> FALSE])
<1>1. v.state \notin Ended \cup {"RequestInitState"}
  BY StateNames, Zenon
<1>2. OpOf(v) = "APWR"
  <2>1. v.state \notin ReadStates \cup SiiStates
    BY StateNames, Zenon
  <2>2. QED
    BY <2>1, Zenon DEF OpOf
<1>3. QED
  BY <1>1, <1>2, Zenon DEF InitPdu

\* The PDU of a state that reads.
LEMMA ReadPdu ==
  ASSUME NEW v \in InitType, v.state \in ReadStates
  PROVE  InitPdu(v) = Pdu("APRD", RegisterOf(v), v.position,
                          [data |-> ValueOf(v), all |-> v.state = "ClearSm", owner |-> FALSE])
<1>1. v.state \notin Ended \cup {"RequestInitState"}
  BY StateNames, Zenon
<1>2. OpOf(v) = "APRD"
  <2>1. v.state \notin WriteStates \cup SiiStates
    BY StateNames, Zenon
  <2>2. QED
    BY <2>1, Zenon DEF OpOf
<1>3. QED
  BY <1>1, <1>2, Zenon DEF InitPdu

\* The PDU of the SII reader.
LEMMA SiiPdu ==
  ASSUME NEW v \in InitType, v.state \in SiiStates
  PROVE  InitPdu(v) = Pdu(SiiOp(v.sii), <<SiiRegister(v.sii), 0>>, v.position,
                          [data |-> v.sii.address, all |-> v.state = "ClearSm", owner |-> FALSE])
<1>1. v.state \notin Ended \cup {"RequestInitState"}
  BY StateNames, Zenon
<1>2. OpOf(v) = SiiOp(v.sii)
  <2>1. v.state \notin WriteStates \cup ReadStates
    BY StateNames, Zenon
  <2>2. QED
    BY <2>1, Zenon DEF OpOf
<1>3. RegisterOf(v) = <<SiiRegister(v.sii), 0>>
  BY DEF RegisterOf, SiiStates
<1>4. ValueOf(v) = v.sii.address
  BY DEF ValueOf, SiiStates
<1>5. QED
  BY <1>1, <1>2, <1>3, <1>4, Zenon DEF InitPdu

AlRegister(t) ==
  CASE t.state \in {"Read", "Poll"} -> "AlStatus"
    [] t.state \in {"ResetError", "OffAck", "Request"} -> "AlControl"
    [] t.state = "ResetSiiOwnership" -> "SiiAccess"

\* The PDU of the transfer to Init.
LEMMA AlPdu ==
  ASSUME NEW v \in InitType, v.state = "RequestInitState", NEW t, t = v.al
  PROVE  InitPdu(v) = Pdu(IF t.state \in {"Read", "Poll"} THEN "APRD" ELSE "APWR", <<AlRegister(t), 0>>, v.position,
                          [al |-> IF t.state = "Request" THEN t.target ELSE t.reset,
                           ack |-> t.state = "ResetError", owner |-> TRUE])
<1>1. PICK a : a = AL!PduOf(t)
  OBVIOUS
<1>2. a.command = AL!CommandOf(t) /\ a.value = (IF t.state = "Request" THEN t.target ELSE t.reset)
      /\ a.ack = (t.state = "ResetError")
  <2>1. PICK n : n = AL!NoPdu
    OBVIOUS
  <2>2. a = [n EXCEPT !.command = AL!CommandOf(t), !.slaves = t.to.slaves,
                !.value = IF t.state = "Request" THEN t.target ELSE t.reset,
                !.ack = (t.state = "ResetError")]
    BY <1>1, <2>1 DEF AL!PduOf
  <2>3. n = [command |-> AL!Nop, slaves |-> {}, value |-> "Init", ack |-> FALSE,
             recv_flag |-> FALSE, wkc_ok |-> FALSE, bits |-> {}, change_err |-> FALSE]
    BY <2>1, Zenon DEF AL!NoPdu
  <2>4. QED
    BY <2>2, <2>3
<1>3. a.command.reg = AlRegister(t) /\ (a.command.op = "read" <=> t.state \in {"Read", "Poll"})
  <2>1. PICK c : c = AL!CommandOf(t)
    OBVIOUS
  <2>2. c = [op |-> IF t.state \in {"Read", "Poll"} THEN "read" ELSE "write",
             all |-> t.to.all, reg |-> AlRegister(t)]
    BY <2>1, Zenon DEF AL!CommandOf, AlRegister
  <2>3. QED
    BY <1>2, <2>1, <2>2
<1>4. v.state \notin Ended
  BY DEF Ended
<1>5. InitPdu(v) = Pdu(IF a.command.op = "read" THEN "APRD" ELSE "APWR", <<a.command.reg, 0>>, v.position,
             [al |-> a.value, ack |-> a.ack, owner |-> TRUE])
  BY <1>1, <1>4, Zenon DEF InitPdu
<1>6. QED
  BY <1>2, <1>3, <1>5, Zenon

\* The PDU that goes out is for the slave and asks it for nothing but Init.
SentPdu(q, p) ==
  q # NoPdu /\ q.recv_flag = FALSE /\ q.position = p /\ PduOk(q) /\ WriteOk(q)

\* A PDU for the slave at p that writes nothing unexpected.
LEMMA SentForm ==
  ASSUME bus \in Buses, NEW p \in Slaves, NEW op \in {"APRD", "APWR"}, NEW reg, NEW value, NEW q,
         q = Pdu(op, reg, p, value),
         op = "APWR" =>
           /\ reg[1] = "SiiAddress" => value.data \in 0 .. 28
           /\ reg[1] = "SiiAccess" => value.owner \in BOOLEAN
           /\ reg[1] = "AlControl" =>
                /\ value.ack \in BOOLEAN
                /\ value.al = "Init" \/ (value.al = al[p] /\ request[p] = "none")
  PROVE  SentPdu(q, p)
<1>1. q = [command |-> [op |-> op, reg |-> reg], position |-> p, value |-> value,
           recv_flag |-> FALSE, wkc |-> 0, answer |-> 0]
  BY PduForm
<1>2. /\ q.command = [op |-> op, reg |-> reg] /\ q.position = p /\ q.value = value
      /\ q.recv_flag = FALSE /\ q.wkc = 0 /\ q.answer = 0
  BY <1>1
<1>3. q.command.op = op /\ q.command.reg = reg
  BY <1>2
<1>4. q # NoPdu
  <2>1. p # -1
    BY BusFacts DEF Slaves
  <2>2. NoPdu.position = -1
    BY DEF NoPdu
  <2>3. QED
    BY <1>2, <2>1, <2>2
<1>5. PduOk(q)
  <2>1. 0 \in 0 .. Len(bus.slaves)
    BY BusFacts
  <2>2. q = [command |-> q.command, position |-> q.position, value |-> q.value,
             recv_flag |-> q.recv_flag, wkc |-> q.wkc, answer |-> q.answer]
    BY <1>1
  <2>3. q.command = [op |-> q.command.op, reg |-> q.command.reg]
    BY <1>2, <1>3
  <2>4. QED
    BY <1>2, <1>3, <2>1, <2>2, <2>3 DEF PduOk
<1>6. WriteOk(q)
  BY <1>2, <1>3 DEF WriteOk
<1>7. QED
  BY <1>2, <1>4, <1>5, <1>6 DEF SentPdu

\* The task itself writes no register of the EEPROM interface or of the AL control.
LEMMA RegisterNames ==
  ASSUME NEW v, v.state \in WriteStates
  PROVE  RegisterOf(v)[1] \notin {"SiiAddress", "SiiAccess", "AlControl", "SiiControl"}
<1>1. CASE v.state \in {"SetLoopPort", "ResetErrorCount", "SetWatchDogDivider", "DisableDlWatchDog", "DisableSmWatchDog"}
  BY <1>1 DEF RegisterOf, SiiStates
<1>2. CASE v.state \in {"ClearFmmu", "ClearSm", "SetSmControl", "SetSmActivation", "SetStationAddress"}
  BY <1>2 DEF RegisterOf, SiiStates
<1>3. CASE v.state \in {"ClearDcActivation", "ClearCyclicOperationStartTime", "ClearSync0CycleTime", "ClearSync1CycleTime"}
  BY <1>3 DEF RegisterOf, SiiStates
<1>4. QED
  BY <1>1, <1>2, <1>3 DEF WriteStates

\* The PDU of a task that has sent.
LEMMA WorkPdu ==
  ASSUME bus \in Buses, NEW p \in Slaves, NEW known \in BOOLEAN, NEW v, WorkSent(v, p, known, FALSE),
         NEW q, q = InitPdu(v)
  PROVE  SentPdu(q, p)
<1>0. v \in InitType /\ v.state \notin Ended /\ v.position = p /\ v.state \in SlaveInitState /\ v.sii \in SiiType
  BY InitFields DEF WorkSent
<1>1. CASE v.state \in WriteStates
  <2>1. PICK value : value = [data |-> ValueOf(v), all |-> v.state = "ClearSm", owner |-> FALSE]
    OBVIOUS
  <2>2. PICK reg : reg = RegisterOf(v)
    OBVIOUS
  <2>3. q = Pdu("APWR", reg, p, value)
    BY <1>0, <1>1, <2>1, <2>2, WritePdu
  <2>4. reg[1] \notin {"SiiAddress", "SiiAccess", "AlControl"}
    BY <1>1, <2>2, RegisterNames
  <2>5. QED
    BY <2>3, <2>4, SentForm
<1>2. CASE v.state \in ReadStates
  <2>1. PICK value : value = [data |-> ValueOf(v), all |-> v.state = "ClearSm", owner |-> FALSE]
    OBVIOUS
  <2>2. PICK reg : reg = RegisterOf(v)
    OBVIOUS
  <2>3. q = Pdu("APRD", reg, p, value)
    BY <1>0, <1>2, <2>1, <2>2, ReadPdu
  <2>4. QED
    BY <2>3, SentForm
<1>3. CASE v.state \in SiiStates
  <2>1. PICK value : value = [data |-> v.sii.address, all |-> v.state = "ClearSm", owner |-> FALSE]
    OBVIOUS
  <2>2. PICK name : name = SiiRegister(v.sii)
    OBVIOUS
  <2>3. PICK op : op = SiiOp(v.sii)
    OBVIOUS
  <2>4. op \in {"APRD", "APWR"}
    BY <2>3 DEF SiiOp
  <2>5. q = Pdu(op, <<name, 0>>, p, value)
    BY <1>0, <1>3, <2>1, <2>2, <2>3, SiiPdu
  <2>6. value.data \in 0 .. 28 /\ value.owner \in BOOLEAN
    BY <1>0, <2>1 DEF SiiType
  <2>7. name # "AlControl"
    <3>1. v.sii.state \in SiiState /\ v.sii.state \notin {"Idle", "Error", "Complete"}
      BY <1>0, <1>3 DEF SiiType, WorkSent, SiiUnderWay
    <3>2. QED
      BY <2>2, <3>1 DEF SiiRegister, SiiState
  <2>8. PICK reg : reg = <<name, 0>>
    OBVIOUS
  <2>9. reg[1] # "AlControl" /\ q = Pdu(op, reg, p, value)
    BY <2>5, <2>7, <2>8
  <2>10. QED
    BY <2>4, <2>6, <2>9, SentForm
<1>4. CASE v.state = "RequestInitState"
  <2>1. PICK t : t = v.al
    OBVIOUS
  <2>2. AlPrepared(t, p)
    BY <1>4, <2>1 DEF WorkSent, AlUnderWay
  <2>3. PICK value : value = [al |-> IF t.state = "Request" THEN t.target ELSE t.reset,
                              ack |-> t.state = "ResetError", owner |-> TRUE]
    OBVIOUS
  <2>4. PICK reg : reg = <<AlRegister(t), 0>>
    OBVIOUS
  <2>5. PICK op : op = IF t.state \in {"Read", "Poll"} THEN "APRD" ELSE "APWR"
    OBVIOUS
  <2>6. q = Pdu(op, reg, p, value)
    BY <1>0, <1>4, <2>1, <2>3, <2>4, <2>5, AlPdu, Zenon
  <2>7. value.ack \in BOOLEAN /\ value.owner \in BOOLEAN
    BY <2>3
  <2>8. op = "APWR" /\ reg[1] = "AlControl" => value.al = "Init" \/ (value.al = al[p] /\ request[p] = "none")
    <3>1. CASE t.state = "Request"
      BY <2>2, <2>3, <3>1 DEF AlPrepared
    <3>2. CASE t.state \in {"ResetError", "OffAck"}
      BY <2>2, <2>3, <3>2 DEF AlPrepared
    <3>3. CASE t.state = "ResetSiiOwnership"
      BY <2>4, <3>3 DEF AlRegister
    <3>4. CASE t.state \in {"Read", "Poll"}
      BY <2>5, <3>4
    <3>5. QED
      BY <2>2, <3>1, <3>2, <3>3, <3>4 DEF AlPrepared
  <2>9. reg[1] \in {"AlStatus", "AlControl", "SiiAccess"}
    BY <2>2, <2>4 DEF AlRegister, AlPrepared
  <2>10. op \in {"APRD", "APWR"} /\ reg[1] # "SiiAddress"
    BY <2>5, <2>9
  <2>11. QED
    BY <2>6, <2>7, <2>8, <2>10, SentForm
<1>5. QED
  BY <1>0, <1>1, <1>2, <1>3, <1>4, StateNames, Zenon

\* What is known of a pushed slave stays known.
LEMMA OwnFrame ==
  ASSUME bus' = bus, ignored \subseteq ignored', NEW CONSTANT p, NEW CONSTANT info, OwnInfo(p, info)
  PROVE  OwnInfo(p, info)'
<1>1. Profile(p)' = Profile(p) /\ \A n : SmIn(p, n)' = SmIn(p, n)
  BY BusFrame
<1>2. QED
  BY <1>1 DEF OwnInfo

\* A pushed slave stays ready as long as its state and registers stay.
LEMMA ReadyFrame ==
  ASSUME NEW CONSTANT p, NEW CONSTANT info, al'[p] = al[p], regs'[p] = regs[p], ReadySlave(p, info)
  PROVE  ReadySlave(p, info)'
  BY DEF ReadySlave

\* A PDU under way stays valid as long as its slave stays in its state.
LEMMA PduFrame ==
  ASSUME bus' = bus, NEW CONSTANT q, PduOk(q), WriteOk(q),
         al'[q.position] = al[q.position], request'[q.position] = request[q.position]
  PROVE  PduOk(q)' /\ WriteOk(q)'
<1>1. Slaves' = Slaves
  BY BusFrame
<1>2. PduOk(q)'
  BY <1>1 DEF PduOk
<1>3. WriteOk(q)'
  BY DEF WriteOk
<1>4. QED
  BY <1>2, <1>3

\* Slaves that do nothing.
LEMMA DeviceFrame ==
  ASSUME bus' = bus, UNCHANGED deviceVars, faults' >= faults, faults \in Nat, faults' \in Nat, DevicesOk
  PROVE  DevicesOk'
<1>0. al' = al /\ err' = err /\ pdi' = pdi /\ request' = request /\ ee' = ee /\ regs' = regs
  BY DEF deviceVars, alVars
<1>1. Slaves' = Slaves
  BY DEF Slaves
<1>2. ASSUME NEW CONSTANT p \in Pos
      PROVE  /\ (err[p] => request[p] = "none")'
             /\ (ee[p].command_error => faults > 0)'
             /\ (p \notin Slaves => ~ee[p].busy /\ ~pdi[p])'
             /\ (p \in Slaves /\ ~Profile(p).long => ee[p].data[3] = 0 /\ ee[p].data[4] = 0)'
             /\ IsRegs(regs[p])'
             /\ (p \in Slaves => regs[p].dirty \subseteq Registers(Profile(p)))'
  <2>1. Profile(p)' = Profile(p)
    BY BusFrame
  <2>2. /\ (err[p] => request[p] = "none") /\ (ee[p].command_error => faults > 0)
        /\ (p \notin Slaves => ~ee[p].busy /\ ~pdi[p])
        /\ (p \in Slaves /\ ~Profile(p).long => ee[p].data[3] = 0 /\ ee[p].data[4] = 0)
        /\ IsRegs(regs[p])
        /\ (p \in Slaves => regs[p].dirty \subseteq Registers(Profile(p)))
    BY DEF DevicesOk
  <2>3. IsRegs(regs[p])'
    BY <1>0, <2>2 DEF IsRegs
  <2>4. QED
    BY <1>0, <1>1, <2>1, <2>2, <2>3
<1>3. /\ (al \in [Pos -> AlStates])' /\ (err \in [Pos -> BOOLEAN])' /\ (pdi \in [Pos -> BOOLEAN])'
      /\ (request \in [Pos -> {"none", "Init"}])' /\ (ee \in [Pos -> EeType])'
      /\ (regs = [p \in Pos |-> regs[p]])'
  BY <1>0 DEF DevicesOk
<1>4. QED
  BY <1>2, <1>3 DEF DevicesOk

----------------------------------------------------------------------------
\* A step of the call: t and s are what recieve_and_process has made of the task and the
\* network.
Made(t, s) ==
  LET u == Sending(t)
      pdu == PduOf(u)
  IN /\ task' = IF pdu = NoPdu THEN u ELSE [u EXCEPT !.command = pdu.command]
     /\ socket' = pdu
     /\ network' = s

\* A step of the call is recieve_and_process, if a PDU is back, and then next_command.
LEMMA StepMakes ==
  ASSUME Step
  PROVE  \E r \in (IF socket.recv_flag THEN Recieved(task) ELSE {Result(task, network)}) :
           Made(r.task, r.slaves)
  BY Zenon DEF Step, Made

\* A task that is over sends nothing.
LEMMA MadeEnd ==
  ASSUME NEW CONSTANT t, NEW CONSTANT s, Made(t, s),
         t.state \notin {"CountSlaves", "StartInitSlaves", "WaitInitSlaves"}
  PROVE  task' = t /\ socket' = NoPdu /\ network' = s
<1>1. Sending(t) = t
  BY DEF Sending
<1>2. PduOf(t) = NoPdu
  BY DEF PduOf
<1>3. QED
  BY <1>1, <1>2, Zenon DEF Made

\* The slave's task sends.
WorkMade(t, s, v, p) ==
  /\ IsTask(task)' /\ task'.state = t.state /\ task'.count = t.count
  /\ task'.num_slaves = t.num_slaves /\ task'.error = t.error /\ task'.init = v
  /\ task'.command = socket'.command /\ socket' = InitPdu(v) /\ network' = s
  /\ SentPdu(InitPdu(v), p)

\* The task of a slave that has sent owns the PDU in the socket.
LEMMA MadeWork ==
  ASSUME bus \in Buses, NEW CONSTANT t, NEW CONSTANT s, Made(t, s), IsTask(t),
         t.state \in {"StartInitSlaves", "WaitInitSlaves"},
         NEW CONSTANT v,
         v = InitSending(IF t.state = "StartInitSlaves" THEN SlaveInitStart(t.init, t.count) ELSE t.init),
         NEW CONSTANT p \in Slaves, NEW CONSTANT known \in BOOLEAN, WorkSent(v, p, known, FALSE)
  PROVE  WorkMade(t, s, v, p)
<1>0. v \in InitType
  BY DEF WorkSent
<1>1. PICK u : u = [t EXCEPT !.init = v]
  OBVIOUS
<1>2. Sending(t) = u
  BY <1>1 DEF Sending
<1>3. /\ u = [state |-> t.state, count |-> t.count, num_slaves |-> t.num_slaves, error |-> t.error,
              command |-> t.command, init |-> v]
  <2>1. t = [state |-> t.state, count |-> t.count, num_slaves |-> t.num_slaves, error |-> t.error,
              command |-> t.command, init |-> t.init]
    BY DEF IsTask
  <2>2. QED
    BY <1>1, <2>1
<1>4. PICK q : q = InitPdu(v)
  OBVIOUS
<1>5. PduOf(u) = q
  <2>1. u.state = t.state /\ u.init = v
    BY <1>3
  <2>2. QED
    BY <1>4, <2>1 DEF PduOf
<1>6. SentPdu(q, p)
  BY <1>4, WorkPdu
<1>7. q # NoPdu
  BY <1>6 DEF SentPdu
<1>8. task' = [u EXCEPT !.command = q.command] /\ socket' = q /\ network' = s
  BY <1>2, <1>5, <1>7, Zenon DEF Made
<1>9. task' = [state |-> t.state, count |-> t.count, num_slaves |-> t.num_slaves, error |-> t.error,
               command |-> q.command, init |-> v]
  BY <1>3, <1>8
<1>10. /\ task'.state = t.state /\ task'.count = t.count /\ task'.num_slaves = t.num_slaves
       /\ task'.error = t.error /\ task'.command = q.command /\ task'.init = v
  BY <1>9
<1>11. IsTask(task)'
  <2>1. t.state \in NetworkInitState /\ t.count \in Nat /\ t.num_slaves \in Nat
    BY DEF IsTask
  <2>2. QED
    BY <1>0, <1>9, <1>10, <2>1 DEF IsTask
<1>12. QED
  BY <1>4, <1>6, <1>8, <1>10, <1>11 DEF WorkMade

\* What a step of the call leaves alone.
StepFrame ==
  /\ bus \in Buses /\ bus' = bus /\ UNCHANGED deviceVars /\ faults' = faults /\ calls' = calls
  /\ ignored \subseteq ignored' /\ ignored' \subseteq Pos /\ miscounted' \in BOOLEAN
  /\ faults \in Nat /\ DevicesOk

\* A step of the call changes no slave.
LEMMA StepKeepsDevices ==
  ASSUME NetworkInv, Step
  PROVE  StepFrame /\ DevicesOk' /\ CountersOk' /\ bus' \in Buses
<1>1. bus \in Buses /\ DevicesOk /\ CountersOk /\ IsTask(task)
  BY DEF NetworkInv
<1>2. bus' = bus /\ UNCHANGED deviceVars /\ faults' = faults /\ calls' = calls
  BY DEF Step
<1>3. task.init.position \in Pos
  BY <1>1 DEF IsTask, InitType
<1>4. ignored \subseteq ignored' /\ ignored' \subseteq Pos
  <2>1. ignored' \in {ignored, ignored \cup {task.init.position}}
    BY Zenon DEF Step
  <2>2. QED
    BY <1>1, <1>3, <2>1 DEF CountersOk
<1>5. miscounted' \in BOOLEAN
  <2>1. CASE task.state = "CountSlaves" /\ socket.recv_flag
    <3>1. miscounted' = (socket.command.op # "BWR" \/ socket.wkc # Len(bus.slaves))
      BY <2>1, Zenon DEF Step
    <3>2. QED
      BY <3>1, Zenon
  <2>2. CASE ~(task.state = "CountSlaves" /\ socket.recv_flag)
    <3>1. miscounted' = miscounted
      BY <2>2, Zenon DEF Step
    <3>2. QED
      BY <1>1, <3>1 DEF CountersOk
  <2>3. QED
    BY <2>1, <2>2
<1>6. faults \in Nat
  BY <1>1, BusAssumption DEF CountersOk
<1>7. StepFrame
  BY <1>1, <1>2, <1>4, <1>5, <1>6 DEF StepFrame
<1>8. DevicesOk'
  BY <1>1, <1>2, <1>6, DeviceFrame
<1>9. CountersOk'
  BY <1>1, <1>2, <1>4, <1>5 DEF CountersOk
<1>10. QED
  BY <1>1, <1>2, <1>7, <1>8, <1>9

\* The parts of the invariant that a step of the call changes.
Kept == IsTask(task)' /\ NetworkOk' /\ SocketOk' /\ SlavesRight' /\ TaskRight' /\ Excused'

\* The invariant names the cause of every failure.
LEMMA ExcuseEnough ==
  ASSUME Excused
  PROVE  FailsWithCause
<1>1. ASSUME task.state = "Error"
      PROVE  CASE task.error = "TooManySlaves" ->
                    Len(network) = bus.capacity /\ bus.capacity < Len(bus.slaves)
               [] task.error = "FailedToLoadEEPROM" -> ~Profile(task.init.position).loaded
               [] OTHER -> faults > 0
  BY <1>1 DEF Excused, Excuse
<1>2. QED
  BY <1>1 DEF FailsWithCause, Excused, Excuse, Unsupported, Overflow


\* The slaves and the count that are kept.
SlavesKept(t, s) ==
  /\ s \in Seq(SlaveType) /\ Len(s) <= Len(bus.slaves) /\ Len(s) <= bus.capacity
  /\ t.num_slaves <= Len(bus.slaves)
  /\ \A k \in 1 .. Len(s) : \A info \in {s[k].info} : OwnInfo(k - 1, info)
  /\ t.state \in {"StartInitSlaves", "WaitInitSlaves", "Complete"} =>
       /\ \A k \in 1 .. Len(s) : \A info \in {s[k].info} : ReadySlave(k - 1, info)
       /\ miscounted \/ t.num_slaves = Len(bus.slaves)

\* The parts of the invariant about the slaves that were pushed.
LEMMA SlavesMade ==
  ASSUME NEW CONSTANT t, NEW CONSTANT s, SlavesKept(t, s)', task'.state = t.state,
         task'.num_slaves = t.num_slaves, network' = s, t.state = "Complete" => Len(s) = t.num_slaves
  PROVE  NetworkOk' /\ SlavesRight'
<1>1. NetworkOk'
  BY DEF NetworkOk, SlavesKept
<1>2. SlavesRight'
  BY DEF SlavesRight, SlavesKept, CountKept
<1>3. QED
  BY <1>1, <1>2

\* An empty socket.
LEMMA EmptySocket ==
  ASSUME bus' = bus, bus \in Buses, socket' = NoPdu
  PROVE  SocketOk'
<1>1. PICK q : q = NoPdu
  OBVIOUS
<1>2. q = [command |-> DefaultCommand, position |-> -1, value |-> 0, recv_flag |-> FALSE,
          wkc |-> 0, answer |-> 0]
  BY <1>1 DEF NoPdu
<1>3. PduOk(q)'
  <2>1. Len(bus.slaves)' \in Nat
    BY BusFacts
  <2>2. q.recv_flag \in BOOLEAN /\ q.wkc = 0
    BY <1>2
  <2>3. q = [command |-> q.command, position |-> q.position, value |-> q.value,
          recv_flag |-> q.recv_flag, wkc |-> q.wkc, answer |-> q.answer]
    BY <1>2
  <2>4. QED
    BY <1>1, <2>1, <2>2, <2>3 DEF PduOk
<1>4. WriteOk(q)'
  <2>1. q.command.op = "APRD"
    BY <1>2 DEF DefaultCommand
  <2>2. QED
    BY <2>1 DEF WriteOk
<1>5. QED
  BY <1>1, <1>3, <1>4 DEF SocketOk

\* The task ends.
LEMMA EndKept ==
  ASSUME StepFrame, NEW CONSTANT t, NEW CONSTANT s, Made(t, s), IsTask(t),
         t.state \in {"Error", "panic", "Complete"}, t.error # "GivenUp",
         SlavesKept(t, s)', t.state = "Complete" => Len(s) = t.num_slaves, Excuse(t, s)'
  PROVE  Kept
<1>1. task' = t /\ socket' = NoPdu /\ network' = s
  BY MadeEnd
<1>2. IsTask(task)'
  BY <1>1 DEF IsTask
<1>3. NetworkOk' /\ SlavesRight'
  BY <1>1, SlavesMade
<1>4. SocketOk'
  BY <1>1, EmptySocket DEF StepFrame
<1>5. TaskRight'
  BY <1>1 DEF TaskRight, StepFrame
<1>6. Excused'
  BY <1>1 DEF Excused
<1>7. QED
  BY <1>2, <1>3, <1>4, <1>5, <1>6 DEF Kept

\* The task waits for a slave that has missed its first PDU.
LEMMA StuckKept ==
  ASSUME StepFrame, NEW CONSTANT t, NEW CONSTANT s, Made(t, s), IsTask(t),
         t.state = "WaitInitSlaves", t.error # "GivenUp", SlavesKept(t, s)',
         t.init.state = "Error", t.init.position = Len(s), t.count = Len(s), Len(s) < t.num_slaves
  PROVE  Kept
<1>1. InitSending(t.init) = t.init
  <2>1. SlaveInitSending(t.init, NewAl(t.init.position)) = t.init
    BY DEF SlaveInitSending, SiiStates
  <2>2. QED
    BY <2>1 DEF InitSending
<1>2. Sending(t) = t
  <2>1. Sending(t) = [t EXCEPT !.init = InitSending(t.init)]
    BY DEF Sending
  <2>2. QED
    BY <1>1, <2>1 DEF IsTask
<1>3. PduOf(t) = NoPdu
  <2>1. InitPdu(t.init) = NoPdu
    BY DEF InitPdu, Ended
  <2>2. QED
    BY <2>1 DEF PduOf
<1>4. task' = t /\ socket' = NoPdu /\ network' = s
  BY <1>2, <1>3, Zenon DEF Made
<1>5. IsTask(task)'
  BY <1>4 DEF IsTask
<1>6. NetworkOk' /\ SlavesRight'
  BY <1>4, SlavesMade
<1>7. SocketOk'
  BY <1>4, EmptySocket DEF StepFrame
<1>8. SlaveUnderWay'
  BY <1>4 DEF SlaveUnderWay
<1>9. TaskRight'
  BY <1>4, <1>8 DEF TaskRight, StepFrame
<1>10. Excused'
  <2>1. Excuse(t, s)'
    BY DEF Excuse
  <2>2. QED
    BY <1>4, <2>1 DEF Excused
<1>11. QED
  BY <1>5, <1>6, <1>7, <1>9, <1>10 DEF Kept

\* The PDU depends on the task alone.
LEMMA PduSame ==
  ASSUME NEW CONSTANT v
  PROVE  InitPdu(v)' = InitPdu(v)
  BY DEF InitPdu, AL!PduOf

\* The slave's task goes on.
LEMMA WorkKept ==
  ASSUME StepFrame, NEW CONSTANT t, NEW CONSTANT s, Made(t, s), IsTask(t),
         t.state \in {"StartInitSlaves", "WaitInitSlaves"}, t.error # "GivenUp",
         SlavesKept(t, s)',
         NEW CONSTANT v,
         v = InitSending(IF t.state = "StartInitSlaves" THEN SlaveInitStart(t.init, t.count) ELSE t.init),
         t.state = "StartInitSlaves" => v.state = "SetLoopPort",
         NEW CONSTANT p \in Slaves, p = Len(s), t.count = p, p < t.num_slaves,
         NEW CONSTANT known \in BOOLEAN, known <=> p \notin ignored', WorkSent(v, p, known, FALSE)
  PROVE  Kept
<1>0. bus \in Buses /\ bus' = bus /\ faults' = faults
  BY DEF StepFrame
<1>1. WorkMade(t, s, v, p)
  BY <1>0, MadeWork
<1>2. /\ IsTask(task)' /\ task'.state = t.state /\ task'.count = t.count
      /\ task'.num_slaves = t.num_slaves /\ task'.error = t.error /\ task'.init = v
      /\ task'.command = socket'.command /\ socket' = InitPdu(v) /\ network' = s
      /\ SentPdu(InitPdu(v), p)
  BY <1>1 DEF WorkMade
<1>3. NetworkOk' /\ SlavesRight'
  BY <1>2, SlavesMade
<1>4. al'[p] = al[p] /\ err'[p] = err[p] /\ request'[p] = request[p] /\ pdi'[p] = pdi[p]
      /\ ee'[p] = ee[p] /\ regs'[p] = regs[p]
  BY DEF StepFrame, deviceVars, alVars
<1>5. PICK q : q = InitPdu(v)
  OBVIOUS
<1>6. q # NoPdu /\ q.recv_flag = FALSE /\ q.position = p /\ PduOk(q) /\ WriteOk(q)
  BY <1>2, <1>5 DEF SentPdu
<1>7. SocketOk'
  <2>1. PduOk(q)' /\ WriteOk(q)'
    BY <1>0, <1>4, <1>6, PduFrame
  <2>2. Busy'
    BY <1>2 DEF Busy, NetworkBusy
  <2>3. QED
    BY <1>2, <1>5, <2>1, <2>2 DEF SocketOk
<1>8. SlaveUnderWay'
  <2>1. WorkSent(v, p, known, FALSE)'
    BY <1>0, <1>4, WorkFrame
  <2>2. Own(v)'
    <3>1. InitPdu(v)' = q
      BY <1>5, PduSame
    <3>2. QED
      BY <1>2, <1>5, <1>6, <3>1 DEF Own
  <2>3. WorkUnderWay(v, p, known, FALSE)'
    BY <2>1, <2>2 DEF WorkUnderWay
  <2>4. v.position = p
    BY DEF WorkSent
  <2>5. /\ task'.init = v /\ Len(network') = p /\ (Len(network') \notin ignored') = known
        /\ socket'.recv_flag = FALSE /\ task'.count = p /\ p < task'.num_slaves
    BY <1>2, <1>5, <1>6
  <2>6. task'.state = "StartInitSlaves" => v.state = "SetLoopPort"
    BY <1>2
  <2>7. QED
    BY <2>3, <2>4, <2>5, <2>6 DEF SlaveUnderWay
<1>9. TaskRight'
  BY <1>0, <1>2, <1>8 DEF TaskRight
<1>10. Excused'
  BY <1>2 DEF Excused, Excuse
<1>11. QED
  BY <1>2, <1>3, <1>7, <1>9, <1>10 DEF Kept

\* A step that pushes nothing keeps the slaves.
LEMMA SameSlaves ==
  ASSUME NetworkInv, StepFrame, NEW CONSTANT s, s = network, NEW CONSTANT t,
         t.num_slaves <= Len(bus.slaves),
         t.state \in {"StartInitSlaves", "WaitInitSlaves", "Complete"} =>
           /\ task.state \in {"StartInitSlaves", "WaitInitSlaves"}
           /\ miscounted' \/ t.num_slaves = Len(bus.slaves)
  PROVE  SlavesKept(t, s)'
<1>1. bus' = bus /\ ignored \subseteq ignored' /\ al' = al /\ regs' = regs
  BY DEF StepFrame, deviceVars, alVars
<1>2. NetworkOk /\ SlavesRight
  BY DEF NetworkInv
<1>3. ASSUME NEW CONSTANT k \in 1 .. Len(s), NEW CONSTANT info \in {s[k].info}
      PROVE  OwnInfo(k - 1, info)'
  <2>1. OwnInfo(k - 1, info)
    BY <1>2 DEF SlavesRight
  <2>2. QED
    BY <1>1, <2>1, OwnFrame
<1>4. ASSUME t.state \in {"StartInitSlaves", "WaitInitSlaves", "Complete"},
             NEW CONSTANT k \in 1 .. Len(s), NEW CONSTANT info \in {s[k].info}
      PROVE  ReadySlave(k - 1, info)'
  <2>1. ReadySlave(k - 1, info)
    BY <1>2, <1>4 DEF SlavesRight
  <2>2. QED
    BY <1>1, <2>1, ReadyFrame
<1>5. s \in Seq(SlaveType) /\ Len(s) <= Len(bus.slaves) /\ Len(s) <= bus.capacity
  BY <1>2 DEF NetworkOk
<1>6. QED
  BY <1>1, <1>3, <1>4, <1>5 DEF SlavesKept

\* The PDU of the count is sent.
LEMMA CountSent ==
  ASSUME NetworkInv, StepFrame, NEW CONSTANT t, NEW CONSTANT s, Made(t, s), t = task, s = network,
         t.state = "CountSlaves"
  PROVE  Kept
<1>0. /\ bus \in Buses /\ bus' = bus /\ faults' = faults /\ IsTask(t) /\ NetworkOk /\ TaskRight
  BY DEF StepFrame, NetworkInv
<1>1. PICK q : q = Pdu("BWR", <<"DlControl", 0>>, -1, 0)
  OBVIOUS
<1>2. q = [command |-> CountCommand, position |-> -1, value |-> 0,
           recv_flag |-> FALSE, wkc |-> 0, answer |-> 0]
  BY <1>1, PduForm DEF CountCommand
<1>3. q # NoPdu
  <2>1. q.command.op = "BWR"
    BY <1>2 DEF CountCommand
  <2>2. NoPdu.command.op = "APRD"
    BY DEF NoPdu, DefaultCommand
  <2>3. QED
    BY <2>1, <2>2
<1>4. Sending(t) = t /\ PduOf(t) = q
  BY <1>1 DEF Sending, PduOf
<1>5. task' = [t EXCEPT !.command = q.command] /\ socket' = q /\ network' = s
  BY <1>3, <1>4, Zenon DEF Made
<1>6. task' = [state |-> t.state, count |-> t.count, num_slaves |-> t.num_slaves,
               error |-> t.error, command |-> CountCommand, init |-> t.init]
  <2>1. t = [state |-> t.state, count |-> t.count, num_slaves |-> t.num_slaves,
               error |-> t.error, command |-> t.command, init |-> t.init]
    BY <1>0 DEF IsTask
  <2>2. QED
    BY <1>2, <1>5, <2>1
<1>7. /\ task'.state = t.state /\ task'.count = t.count /\ task'.num_slaves = t.num_slaves
      /\ task'.error = t.error /\ task'.command = CountCommand /\ task'.init = t.init
  BY <1>6
<1>8. IsTask(task)'
  BY <1>0, <1>6, <1>7 DEF IsTask
<1>9. SlavesKept(t, s)'
  BY <1>0, SameSlaves DEF NetworkOk
<1>10. NetworkOk' /\ SlavesRight'
  BY <1>5, <1>7, <1>9, SlavesMade
<1>11. SocketOk'
  <2>1. PduOk(q)'
    <3>1. Len(bus.slaves)' \in Nat
      BY <1>0, BusFacts
    <3>2. q.recv_flag \in BOOLEAN /\ q.wkc = 0 /\ q.command = CountCommand /\ q.position = -1
      BY <1>2
    <3>3. q = [command |-> q.command, position |-> q.position, value |-> q.value,
               recv_flag |-> q.recv_flag, wkc |-> q.wkc, answer |-> q.answer]
      BY <1>2
    <3>4. QED
      BY <3>1, <3>2, <3>3 DEF PduOk
  <2>2. WriteOk(q)'
    <3>1. q.command.op = "BWR"
      BY <1>2 DEF CountCommand
    <3>2. QED
      BY <3>1 DEF WriteOk
  <2>3. Busy'
    BY <1>7 DEF Busy, NetworkBusy
  <2>4. QED
    BY <1>5, <2>1, <2>2, <2>3 DEF SocketOk
<1>12. TaskRight'
  <2>1. socket'.command = CountCommand /\ socket'.recv_flag = FALSE
    BY <1>2, <1>5
  <2>2. Counting'
    BY <1>7, <2>1 DEF Counting
  <2>3. QED
    BY <1>0, <1>7, <2>2 DEF TaskRight
<1>13. Excused'
  BY <1>7 DEF Excused, Excuse
<1>14. QED
  BY <1>8, <1>10, <1>11, <1>12, <1>13 DEF Kept

\* A PDU of a call that had given up comes back.
LEMMA UnexpectedKept ==
  ASSUME NetworkInv, StepFrame, NEW CONSTANT t, NEW CONSTANT s, Made(t, s), Busy, socket.recv_flag,
         socket.command # task.command, s = network,
         t = [task EXCEPT !.state = "Error", !.error = "UnexpectedCommand"]
  PROVE  Kept
<1>0. IsTask(task) /\ NetworkOk /\ TaskRight /\ faults' = faults
  BY DEF NetworkInv, StepFrame
<1>1. t = [state |-> "Error", count |-> task.count, num_slaves |-> task.num_slaves,
           error |-> "UnexpectedCommand", command |-> task.command, init |-> task.init]
  <2>1. task = [state |-> task.state, count |-> task.count, num_slaves |-> task.num_slaves,
               error |-> task.error, command |-> task.command, init |-> task.init]
    BY <1>0 DEF IsTask
  <2>2. QED
    BY <2>1
<1>2. t.state = "Error" /\ t.error = "UnexpectedCommand" /\ t.num_slaves = task.num_slaves
  BY <1>1
<1>3. IsTask(t)
  BY <1>0, <1>1 DEF IsTask, NetworkInitState
<1>4. faults > 0
  <2>1. CASE task.state = "CountSlaves"
    BY <1>0, <2>1 DEF TaskRight, Counting
  <2>2. CASE task.state \in {"StartInitSlaves", "WaitInitSlaves"}
    <3>1. SlaveUnderWay
      BY <1>0, <2>2 DEF TaskRight
    <3>2. socket = NoPdu \/ socket.command = task.command
      BY <3>1 DEF SlaveUnderWay, WorkUnderWay, Own
    <3>3. NoPdu.recv_flag = FALSE
      BY DEF NoPdu
    <3>4. QED
      BY <3>2, <3>3
  <2>3. QED
    BY <2>1, <2>2 DEF Busy, NetworkBusy
<1>5. SlavesKept(t, s)'
  BY <1>0, <1>2, SameSlaves DEF NetworkOk
<1>6. Excuse(t, s)'
  BY <1>0, <1>2, <1>4 DEF Excuse
<1>7. QED
  BY <1>2, <1>3, <1>4, <1>5, <1>6, EndKept

\* The slaves are counted.
LEMMA CountedKept ==
  ASSUME NetworkInv, StepFrame, NEW CONSTANT t, NEW CONSTANT s, Made(t, s), Step, socket.recv_flag,
         task.state = "CountSlaves", t = Counted(task).task, s = Counted(task).slaves
  PROVE  Kept
<1>0. /\ IsTask(task) /\ NetworkOk /\ TaskRight /\ faults' = faults /\ bus' = bus /\ bus \in Buses
      /\ DevicesOk /\ SocketOk
  BY DEF NetworkInv, StepFrame
<1>1. PICK c : c = socket.wkc
  OBVIOUS
<1>2. c \in 0 .. Len(bus.slaves) /\ Len(bus.slaves) \in Nat
  BY <1>0, <1>1, BusFacts DEF SocketOk, PduOk
<1>3. s = <<>> /\ t = [task EXCEPT !.num_slaves = c, !.count = 0,
                           !.state = IF c = 0 THEN "Complete" ELSE "StartInitSlaves"]
  BY <1>1 DEF Counted, Result
<1>4. t = [state |-> IF c = 0 THEN "Complete" ELSE "StartInitSlaves", count |-> 0, num_slaves |-> c,
           error |-> task.error, command |-> task.command, init |-> task.init]
  <2>1. task = [state |-> task.state, count |-> task.count, num_slaves |-> task.num_slaves,
               error |-> task.error, command |-> task.command, init |-> task.init]
    BY <1>0 DEF IsTask
  <2>2. PICK st : st = IF c = 0 THEN "Complete" ELSE "StartInitSlaves"
    OBVIOUS
  <2>3. t = [task EXCEPT !.num_slaves = c, !.count = 0, !.state = st]
    BY <1>3, <2>2, Zenon
  <2>4. t = [state |-> st, count |-> 0, num_slaves |-> c,
             error |-> task.error, command |-> task.command, init |-> task.init]
    BY <2>1, <2>3
  <2>5. QED
    BY <2>2, <2>4, Zenon
<1>5. /\ t.state = (IF c = 0 THEN "Complete" ELSE "StartInitSlaves")
      /\ t.error = task.error /\ t.num_slaves = c /\ t.init = task.init /\ t.count = 0
  BY <1>4
<1>6. IsTask(t)
  BY <1>0, <1>2, <1>4, <1>5 DEF IsTask, NetworkInitState
<1>7. miscounted' \/ c = Len(bus.slaves)
  <2>1. miscounted' = (socket.command.op # "BWR" \/ socket.wkc # Len(bus.slaves))
    BY Zenon DEF Step
  <2>2. QED
    BY <1>1, <2>1
<1>8. SlavesKept(t, s)'
  <2>1. s \in Seq(SlaveType) /\ Len(s) = 0
    BY <1>3
  <2>2. bus.capacity \in Nat
    BY <1>0, BusFacts
  <2>3. QED
    BY <1>0, <1>2, <1>5, <1>7, <2>1, <2>2 DEF SlavesKept
<1>9. t.error # "GivenUp"
  BY <1>0, <1>5 DEF TaskRight
<1>10. CASE c = 0
  <2>1. t.state = "Complete" /\ Len(s) = t.num_slaves
    BY <1>3, <1>5, <1>10
  <2>2. Excuse(t, s)'
    BY <2>1 DEF Excuse
  <2>3. QED
    BY <1>6, <1>8, <1>9, <2>1, <2>2, EndKept
<1>11. CASE c # 0
  <2>1. t.state = "StartInitSlaves"
    BY <1>5, <1>11
  <2>2. 0 \in Slaves /\ Len(s) = 0 /\ 0 < t.num_slaves
    BY <1>2, <1>3, <1>5, <1>11 DEF Slaves
  <2>3. PICK v : v = InitSending(SlaveInitStart(t.init, 0))
    OBVIOUS
  <2>4. PICK known \in BOOLEAN : known <=> 0 \notin ignored'
    OBVIOUS
  <2>5. regs[0].dirty \subseteq Registers(Profile(0))
    <3>1. 0 \in Pos
      BY <1>0, BusFacts
    <3>2. QED
      BY <1>0, <2>2, <3>1 DEF DevicesOk
  <2>6. t.init \in InitType
    BY <1>6 DEF IsTask
  <2>7. WorkSent(v, 0, known, FALSE) /\ v.state = "SetLoopPort"
    BY <1>0, <2>2, <2>3, <2>5, <2>6, SlaveStarts
  <2>8. v = InitSending(IF t.state = "StartInitSlaves" THEN SlaveInitStart(t.init, t.count) ELSE t.init)
    BY <1>5, <2>1, <2>3
  <2>9. QED
    BY <1>5, <1>6, <1>8, <1>9, <2>1, <2>2, <2>4, <2>7, <2>8, WorkKept
<1>12. QED
  BY <1>10, <1>11

\* What is pushed for a slave whose task is complete.
LEMMA CompleteFound ==
  ASSUME bus \in Buses, NEW p \in Slaves, NEW known \in BOOLEAN, NEW u \in InitType,
         u.state = "Complete", Found(u, p, known), NEW info, info = u.info
  PROVE  /\ info.number_of_fmmu = Profile(p).fmmu /\ info.number_of_sm = Profile(p).sm
         /\ info.support_dc = Profile(p).dc /\ info.linked = Profile(p).linked
         /\ known =>
              /\ info.vender_id = Profile(p).eeprom[VenderId]
              /\ info.product_code = Profile(p).eeprom[ProductCode]
              /\ info.revision_number = Profile(p).eeprom[RevisionNumber]
              /\ info.support_coe = ((Profile(p).eeprom[MailboxProtocol] \div 4) % 2 = 1)
              /\ \A n \in SmNumber : info.sm[n] = SmIn(p, n)
         /\ ReadySlave(p, info)
<1>1. PICK r : r = Rank(u)
  OBVIOUS
<1>2. r = 56
  BY <1>1 DEF Rank
<1>3. LinkKnown(u, p) /\ EepromKnown(u, p, known) /\ SlaveDone(u, p) /\ AreaKnown(u)
  BY DEF Found
<1>4. /\ info.number_of_fmmu = Profile(p).fmmu /\ info.number_of_sm = Profile(p).sm
      /\ info.support_dc = Profile(p).dc /\ info.linked = Profile(p).linked
  BY <1>1, <1>2, <1>3 DEF LinkKnown
<1>5. ASSUME known
      PROVE  /\ info.vender_id = Profile(p).eeprom[VenderId]
             /\ info.product_code = Profile(p).eeprom[ProductCode]
             /\ info.revision_number = Profile(p).eeprom[RevisionNumber]
             /\ info.support_coe = ((Profile(p).eeprom[MailboxProtocol] \div 4) % 2 = 1)
             /\ \A n \in SmNumber : info.sm[n] = SmIn(p, n)
  <2>1. r > 31 /\ r > 32 /\ r > 33 /\ r > 34 /\ r > 35 /\ r > 36 /\ r > 37 /\ r > 38
    BY <1>2
  <2>2. /\ info.vender_id = Profile(p).eeprom[VenderId]
        /\ info.product_code = Profile(p).eeprom[ProductCode]
        /\ info.revision_number = Profile(p).eeprom[RevisionNumber]
        /\ info.support_coe = ((Profile(p).eeprom[MailboxProtocol] \div 4) % 2 = 1)
    BY <1>1, <1>3, <1>5, <2>1 DEF EepromKnown
  <2>3. SmKnown(u, p, known, 0, 35) /\ SmKnown(u, p, known, 1, 37)
    BY <1>3 DEF EepromKnown
  <2>4. info.sm[0 + 2] = SmIn(p, 0 + 2) /\ info.sm[0] = SmIn(p, 0)
    BY <1>1, <1>2, <1>5, <2>3 DEF SmKnown
  <2>5. info.sm[1 + 2] = SmIn(p, 1 + 2) /\ info.sm[1] = SmIn(p, 1)
    BY <1>1, <1>2, <1>5, <2>3 DEF SmKnown
  <2>6. 0 + 2 = 2 /\ 1 + 2 = 3
    OBVIOUS
  <2>7. info.sm[2] = SmIn(p, 2) /\ info.sm[3] = SmIn(p, 3)
    BY <2>4, <2>5, <2>6
  <2>8. \A n \in SmNumber : n = 0 \/ n = 1 \/ n = 2 \/ n = 3
    BY DEF SmNumber
  <2>9. \A n \in SmNumber : info.sm[n] = SmIn(p, n)
    BY <2>4, <2>5, <2>7, <2>8, Zenon
  <2>10. QED
    BY <2>2, <2>9
<1>6. ReadySlave(p, info)
  <2>1. al[p] = "Init" /\ regs[p].station = p + 1 /\ info.configured_address = p + 1
    BY <1>1, <1>2, <1>3 DEF SlaveDone
  <2>2. \A q \in regs[p].dirty : 56 <= ResetAt(q)
    BY <1>1, <1>2, <1>3 DEF SlaveDone
  <2>3. ASSUME NEW n \in SmNumber
        PROVE  /\ regs[p].sm[n] = SmValue(info.sm[n])
               /\ n \in regs[p].active <=> IsMailbox(info.sm[n])
    <3>1. r > 40 + 2 * n /\ r > 41 + 2 * n
      BY <1>2 DEF SmNumber
    <3>2. QED
      BY <1>1, <1>3, <3>1 DEF SlaveDone
  <2>4. AreaRight(info)
    BY <1>3 DEF AreaKnown
  <2>5. QED
    BY <2>1, <2>2, <2>3, <2>4 DEF ReadySlave
<1>7. QED
  BY <1>4, <1>5, <1>6

\* Slave::new keeps the information.
LEMMA NewSlaveType ==
  ASSUME NEW info \in InfoType
  PROVE  NewSlave(info) \in SlaveType /\ NewSlave(info).info = info
<1>1. PICK b : b = (2 <= info.number_of_fmmu /\ \E n \in SmNumber : info.sm[n].kind = "MailboxTx")
  OBVIOUS
<1>2. b \in BOOLEAN
  BY <1>1, Zenon
<1>3. NewSlave(info) = [info |-> info, mailbox_count |-> 0, status_fmmu |-> b]
  BY <1>1, Zenon DEF NewSlave
<1>4. QED
  BY <1>2, <1>3 DEF SlaveType

\* A slave whose task is complete is pushed with its own information, and is ready.
LEMMA PushedRight ==
  ASSUME StepFrame, NEW CONSTANT p \in Slaves, NEW CONSTANT known \in BOOLEAN,
         known <=> p \notin ignored', NEW CONSTANT u \in InitType,
         u.state = "Complete", Found(u, p, known), NEW CONSTANT info, info = u.info
  PROVE  OwnInfo(p, info)' /\ ReadySlave(p, info)'
<1>0. bus \in Buses /\ bus' = bus /\ al' = al /\ regs' = regs
  BY DEF StepFrame, deviceVars, alVars
<1>1. ReadySlave(p, info)'
  <2>1. ReadySlave(p, info)
    BY <1>0, CompleteFound
  <2>2. QED
    BY <1>0, <2>1, ReadyFrame
<1>2. OwnInfo(p, info)'
  <2>1. Profile(p)' = Profile(p) /\ \A n : SmIn(p, n)' = SmIn(p, n)
    BY <1>0, BusFrame
  <2>2. /\ info.number_of_fmmu = Profile(p).fmmu /\ info.number_of_sm = Profile(p).sm
        /\ info.support_dc = Profile(p).dc /\ info.linked = Profile(p).linked
        /\ p \notin ignored' =>
              /\ info.vender_id = Profile(p).eeprom[VenderId]
              /\ info.product_code = Profile(p).eeprom[ProductCode]
              /\ info.revision_number = Profile(p).eeprom[RevisionNumber]
              /\ info.support_coe = ((Profile(p).eeprom[MailboxProtocol] \div 4) % 2 = 1)
              /\ \A n \in SmNumber : info.sm[n] = SmIn(p, n)
    BY <1>0, CompleteFound
  <2>3. QED
    BY <2>1, <2>2 DEF OwnInfo
<1>3. QED
  BY <1>1, <1>2

\* The task of the slave at p has become u.
SlaveAnswers(u, i, p, known) ==
  /\ p \in Slaves /\ i.position = p /\ task.count = p /\ p < task.num_slaves
  /\ task.state = "StartInitSlaves" => i.state = "SetLoopPort"
  /\ i \in InitType /\ i.state \notin Ended
  /\ Outcome(u, i, p, known)

\* The PDU that is back is that of the slave's task, and the task becomes what the lemmas
\* on answers say.
LEMMA OwnAnswer ==
  ASSUME NetworkInv, StepFrame, Step, socket.recv_flag,
         task.state \in {"StartInitSlaves", "WaitInitSlaves"},
         NEW CONSTANT i, i = task.init, NEW CONSTANT p, p = Len(network),
         NEW CONSTANT known \in BOOLEAN, known <=> p \notin ignored',
         NEW CONSTANT u \in SlaveInitRecieved(i, socket.wkc, socket.answer, AL!Recieved(i.al))
  PROVE  SlaveAnswers(u, i, p, known)
<1>0. /\ bus \in Buses /\ NetworkOk /\ SocketOk /\ DevicesOk /\ TaskRight
      /\ ignored \subseteq ignored'
  BY DEF NetworkInv, StepFrame
<1>1. socket.recv_flag = TRUE /\ socket # NoPdu
  <2>1. socket.recv_flag \in BOOLEAN
    BY <1>0 DEF SocketOk, PduOk
  <2>2. NoPdu.recv_flag = FALSE
    BY DEF NoPdu
  <2>3. QED
    BY <2>1, <2>2
<1>2. PICK k1 \in BOOLEAN : k1 <=> p \notin ignored
  OBVIOUS
<1>3. /\ i.position = p /\ task.count = p /\ p < task.num_slaves
      /\ task.state = "StartInitSlaves" => i.state = "SetLoopPort"
      /\ WorkUnderWay(i, p, k1, TRUE)
  <2>1. SlaveUnderWay
    BY <1>0 DEF TaskRight
  <2>2. k1 = (Len(network) \notin ignored)
    BY <1>2
  <2>3. QED
    BY <1>1, <2>1, <2>2 DEF SlaveUnderWay
<1>4. WorkSent(i, p, k1, TRUE) /\ Own(i) /\ Answered(i, p, k1)
  BY <1>3 DEF WorkUnderWay
<1>5. WorkSent(i, p, known, TRUE) /\ Answered(i, p, known)
  <2>1. known => k1
    BY <1>0, <1>2
  <2>2. QED
    BY <1>4, <2>1, StillKnown
<1>6. p \in Slaves
  <2>1. Len(network) \in Nat /\ task.num_slaves <= Len(bus.slaves)
    BY <1>0 DEF NetworkOk
  <2>2. Len(bus.slaves) \in Nat
    BY <1>0, BusFacts
  <2>3. task.num_slaves \in Nat
    BY DEF NetworkInv, IsTask
  <2>4. QED
    BY <1>3, <2>1, <2>2, <2>3 DEF Slaves
<1>7. regs[p].dirty \subseteq Registers(Profile(p)) /\ al[p] \in AlStates
  <2>1. p \in Pos
    BY <1>0, <1>6, BusFacts
  <2>2. QED
    BY <1>0, <1>6, <2>1 DEF DevicesOk
<1>8. i \in InitType /\ i.state \notin Ended
  BY <1>4 DEF WorkSent
<1>9. ASSUME i.state = "RequestInitState", i.al.state \in {"Read", "Poll"}
      PROVE  socket.command.reg[1] = "AlStatus"
  <2>1. PICK value : InitPdu(i) = Pdu("APRD", <<AlRegister(i.al), 0>>, i.position, value)
    BY <1>8, <1>9, AlPdu
  <2>2. AlRegister(i.al) = "AlStatus"
    BY <1>9 DEF AlRegister
  <2>3. InitPdu(i).command = [op |-> "APRD", reg |-> <<"AlStatus", 0>>]
    BY <2>1, <2>2, PduForm
  <2>4. socket.command = [op |-> "APRD", reg |-> <<"AlStatus", 0>>]
    BY <1>4, <2>3 DEF Own
  <2>5. QED
    BY <2>4
<1>10. ASSUME known, i.state \in SiiStates, socket.wkc = 1
       PROVE  ~OverwrittenError(i.sii, socket.answer)
  <2>1. task.state = "WaitInitSlaves"
    BY <1>3, <1>10 DEF SiiStates
  <2>2. SUFFICES ASSUME OverwrittenError(i.sii, socket.answer) PROVE FALSE
    OBVIOUS
  <2>3. ignored' = ignored \cup {task.init.position}
    BY <1>10, <2>1, <2>2, Zenon DEF Step
  <2>4. QED
    BY <1>3, <1>10, <2>3
<1>11. Outcome(u, i, p, known)
  BY <1>0, <1>5, <1>6, <1>7, <1>9, <1>10, RecievedOutcome
<1>12. QED
  BY <1>3, <1>6, <1>8, <1>11 DEF SlaveAnswers

----------------------------------------------------------------------------
\* The task with another inner task, state and error.
TaskWith(t, u, st, e) ==
  t = [state |-> st, count |-> task.count, num_slaves |-> task.num_slaves,
       error |-> e, command |-> task.command, init |-> u]

\* The fields of the task with another inner task.
LEMMA TaskForm ==
  ASSUME IsTask(task), NEW CONSTANT t, NEW CONSTANT u \in InitType,
         NEW CONSTANT st \in NetworkInitState, NEW CONSTANT e, TaskWith(t, u, st, e)
  PROVE  /\ IsTask(t) /\ t.init = u /\ t.state = st /\ t.error = e
         /\ t.count = task.count /\ t.num_slaves = task.num_slaves
<1>1. /\ t.init = u /\ t.state = st /\ t.error = e
      /\ t.count = task.count /\ t.num_slaves = task.num_slaves /\ t.command = task.command
  BY DEF TaskWith
<1>2. task.count \in Nat /\ task.num_slaves \in Nat
  BY DEF IsTask
<1>3. QED
  BY <1>1, <1>2 DEF IsTask, TaskWith

\* The number of slaves stays what the count has found.
LEMMA StillCounted ==
  ASSUME NetworkInv, Step, task.state \in {"StartInitSlaves", "WaitInitSlaves"}
  PROVE  miscounted' \/ task.num_slaves = Len(bus.slaves)
<1>1. miscounted' = miscounted
  BY Zenon DEF Step
<1>2. CountKept
  BY DEF NetworkInv, SlavesRight
<1>3. QED
  BY <1>1, <1>2 DEF CountKept

\* The task of the slave goes on, or its first PDU was missed.
LEMMA GoesOnKept ==
  ASSUME NetworkInv, StepFrame, Step, NEW CONSTANT t, NEW CONSTANT s, Made(t, s), s = network, IsTask(t),
         task.state \in {"StartInitSlaves", "WaitInitSlaves"}, t.state = "WaitInitSlaves",
         t.error = task.error, t.count = task.count, t.num_slaves = task.num_slaves,
         NEW CONSTANT u, t.init = u, NEW CONSTANT i, NEW CONSTANT p, p = Len(network),
         NEW CONSTANT known \in BOOLEAN, known <=> p \notin ignored', SlaveAnswers(u, i, p, known),
         u.state \notin Ended \/ u.state = "Error"
  PROVE  Kept
<1>0. bus \in Buses /\ bus' = bus /\ NetworkOk /\ TaskRight
  BY DEF NetworkInv, StepFrame
<1>1. /\ p \in Slaves /\ i.position = p /\ task.count = p /\ p < task.num_slaves
      /\ Outcome(u, i, p, known)
  BY DEF SlaveAnswers
<1>2. u \in InitType /\ u.position = p
  BY <1>1 DEF Outcome
<1>3. t.error # "GivenUp"
  BY <1>0 DEF TaskRight
<1>4. t.num_slaves <= Len(bus.slaves)
  BY <1>0 DEF NetworkOk
<1>5. SlavesKept(t, s)'
  BY <1>4, SameSlaves, StillCounted
<1>6. CASE u.state = "Error"
  BY <1>1, <1>2, <1>3, <1>5, <1>6, StuckKept
<1>7. CASE u.state \notin Ended
  <2>1. Found(u, p, known) /\ ToSend(u, p, known)
    <3>1. u.state \notin {"Error", "panic"}
      BY <1>7 DEF Ended
    <3>2. QED
      BY <1>1, <3>1 DEF Outcome
  <2>2. WorkReady(u, p, known)
    BY <1>2, <1>7, <2>1 DEF WorkReady
  <2>3. PICK v : v = InitSending(u)
    OBVIOUS
  <2>4. HasSent(v, u, p, known)
    BY <1>0, <1>1, <2>2, <2>3, WorkSends
  <2>5. WorkSent(v, p, known, FALSE)
    BY <2>4 DEF HasSent
  <2>6. v = InitSending(IF t.state = "StartInitSlaves" THEN SlaveInitStart(t.init, t.count) ELSE t.init)
    BY <2>3
  <2>7. QED
    BY <1>1, <1>3, <1>5, <2>5, <2>6, WorkKept
<1>8. QED
  BY <1>6, <1>7

\* The task of the slave fails or panics.
LEMMA FailsKept ==
  ASSUME NetworkInv, StepFrame, NEW CONSTANT t, NEW CONSTANT s, Made(t, s), s = network, IsTask(t),
         task.state = "WaitInitSlaves", t.num_slaves = task.num_slaves,
         NEW CONSTANT u, t.init = u, NEW CONSTANT i, NEW CONSTANT p, p = Len(network),
         NEW CONSTANT known \in BOOLEAN, known <=> p \notin ignored', SlaveAnswers(u, i, p, known),
         \/ t.state = "Error" /\ u.state = "Error" /\ t.error = u.error
         \/ t.state = "panic" /\ u.state = "panic" /\ t.error = task.error
  PROVE  Kept
<1>0. bus \in Buses /\ bus' = bus /\ NetworkOk /\ TaskRight /\ faults' = faults
  BY DEF NetworkInv, StepFrame
<1>1. p \in Slaves /\ i.position = p /\ Outcome(u, i, p, known)
  BY DEF SlaveAnswers
<1>2. u \in InitType /\ u.position = p
  BY <1>1 DEF Outcome
<1>3. u.error \notin {"GivenUp", "TooManySlaves"}
  BY <1>2 DEF InitType
<1>4. t.error # "GivenUp"
  BY <1>0, <1>3 DEF TaskRight
<1>5. SlavesKept(t, s)'
  BY <1>0, SameSlaves DEF NetworkOk
<1>6. Profile(p)' = Profile(p) /\ \A n : SmIn(p, n)' = SmIn(p, n)
  BY <1>0, BusFrame
<1>7. ASSUME t.state = "Error"
      PROVE  (Excuse(t, s))'
  <2>1. u.error = "FailedToLoadEEPROM" => ~Profile(p).loaded
    BY <1>1, <1>7 DEF Outcome
  <2>2. u.error # "FailedToLoadEEPROM" => faults > 0
    BY <1>1, <1>7 DEF Outcome
  <2>3. (~Profile(t.init.position).loaded)' <=> ~Profile(p).loaded
    BY <1>2, <1>6 DEF Profile
  <2>4. QED
    BY <1>0, <1>3, <1>7, <2>1, <2>2, <2>3 DEF Excuse
<1>8. ASSUME t.state = "panic"
      PROVE  (Excuse(t, s))'
  <2>1. Unsupported(p) \/ Overflow(u.info, p) \/ ~known
    BY <1>1, <1>8 DEF Outcome
  <2>2. Unsupported(p)' <=> Unsupported(p)
    BY <1>6 DEF Unsupported
  <2>3. Overflow(u.info, p)' <=> Overflow(u.info, p)
    BY <1>6 DEF Overflow
  <2>4. Unsupported(p)' \/ Overflow(u.info, p)' \/ p \in ignored'
    BY <2>1, <2>2, <2>3
  <2>5. t.init.position = p /\ t.init.info = u.info
    BY <1>2
  <2>6. QED
    BY <1>8, <2>4, <2>5 DEF Excuse
<1>9. QED
  BY <1>4, <1>5, <1>7, <1>8, EndKept

\* The slave at p is pushed.
Pushing(u, i, p, known) ==
  /\ p = Len(network) /\ (known <=> p \notin ignored') /\ SlaveAnswers(u, i, p, known)
  /\ u.state = "Complete" /\ p < bus.capacity

WithSlave(u) == Append(network, NewSlave(u.info))

\* Network::push_slave.
LEMMA AppendedSlaves ==
  ASSUME NetworkInv, StepFrame, Step, task.state = "WaitInitSlaves",
         NEW CONSTANT p, NEW CONSTANT known \in BOOLEAN, NEW CONSTANT u, NEW CONSTANT i,
         Pushing(u, i, p, known), NEW CONSTANT s, s = WithSlave(u),
         NEW CONSTANT t, t.num_slaves = task.num_slaves
  PROVE  SlavesKept(t, s)' /\ Len(s) = p + 1
<1>0. /\ bus \in Buses /\ bus' = bus /\ NetworkOk /\ IsTask(task)
      /\ p = Len(network) /\ (known <=> p \notin ignored') /\ SlaveAnswers(u, i, p, known)
      /\ u.state = "Complete" /\ p < bus.capacity
  BY DEF NetworkInv, StepFrame, Pushing
<1>1. p \in Slaves /\ Outcome(u, i, p, known) /\ p < task.num_slaves
  BY <1>0 DEF SlaveAnswers
<1>2. u \in InitType /\ Found(u, p, known)
  BY <1>0, <1>1 DEF Outcome
<1>3. PICK info : info = u.info
  OBVIOUS
<1>4. PICK new : new = NewSlave(u.info)
  OBVIOUS
<1>5. new \in SlaveType /\ new.info = info
  <2>1. u.info \in InfoType
    BY <1>2 DEF InitType
  <2>2. QED
    BY <1>3, <1>4, <2>1, NewSlaveType
<1>6. network \in Seq(SlaveType) /\ s = Append(network, new) /\ p \in Nat
  BY <1>0, <1>4 DEF NetworkOk, WithSlave
<1>7. /\ s \in Seq(SlaveType) /\ Len(s) = p + 1 /\ s[p + 1] = new
      /\ \A k \in 1 .. p : s[k] = network[k]
  BY <1>0, <1>5, <1>6
<1>8. OwnInfo(p, info)' /\ ReadySlave(p, info)'
  BY <1>0, <1>1, <1>2, <1>3, PushedRight
<1>9. PICK w : w = [state |-> "Complete", num_slaves |-> task.num_slaves]
  OBVIOUS
<1>10. PICK old : old = network
  OBVIOUS
<1>11. SlavesKept(w, old)'
  <2>1. w.num_slaves = task.num_slaves
    BY <1>9
  <2>2. QED
    BY <1>0, <1>10, <2>1, SameSlaves, StillCounted DEF NetworkOk
<1>12. ASSUME NEW CONSTANT k \in 1 .. Len(s), NEW CONSTANT f \in {s[k].info}
       PROVE  OwnInfo(k - 1, f)' /\ ReadySlave(k - 1, f)'
  <2>1. CASE k = p + 1
    <3>1. k - 1 = p /\ f = info
      BY <1>0, <1>5, <1>6, <1>7, <2>1
    <3>2. QED
      BY <1>8, <3>1
  <2>2. CASE k # p + 1
    <3>1. k \in 1 .. Len(old) /\ f \in {old[k].info}
      BY <1>0, <1>6, <1>7, <1>10, <2>2
    <3>2. w.state = "Complete"
      BY <1>9
    <3>3. QED
      BY <1>11, <3>1, <3>2 DEF SlavesKept
  <2>3. QED
    BY <2>1, <2>2
<1>13. Len(s) <= Len(bus.slaves) /\ Len(s) <= bus.capacity /\ task.num_slaves <= Len(bus.slaves)
  <2>1. task.num_slaves \in Nat /\ Len(bus.slaves) \in Nat /\ bus.capacity \in Nat
    BY <1>0, BusFacts DEF IsTask
  <2>2. task.num_slaves <= Len(bus.slaves)
    BY <1>0 DEF NetworkOk
  <2>3. QED
    BY <1>0, <1>1, <1>6, <1>7, <2>1, <2>2
<1>14. miscounted' \/ t.num_slaves = Len(bus.slaves)
  BY StillCounted
<1>15. QED
  BY <1>0, <1>7, <1>12, <1>13, <1>14 DEF SlavesKept

\* WaitInitSlaves, the slave is complete: the next slave, the end, or TooManySlaves.
LEMMA PushedKept ==
  ASSUME NetworkInv, StepFrame, Step, NEW CONSTANT t, NEW CONSTANT s, Made(t, s),
         task.state = "WaitInitSlaves",
         NEW CONSTANT p, p = Len(network), NEW CONSTANT known \in BOOLEAN, known <=> p \notin ignored',
         NEW CONSTANT u, NEW CONSTANT i, SlaveAnswers(u, i, p, known), u.state = "Complete",
         t = Pushed(task, network, u).task, s = Pushed(task, network, u).slaves
  PROVE  Kept
<1>0. /\ bus \in Buses /\ bus' = bus /\ NetworkOk /\ TaskRight /\ IsTask(task) /\ faults' = faults
      /\ DevicesOk
  BY DEF NetworkInv, StepFrame
<1>1. p \in Slaves /\ Outcome(u, i, p, known) /\ p < task.num_slaves /\ task.count = p
  BY DEF SlaveAnswers
<1>2. u \in InitType
  BY <1>1 DEF Outcome
<1>3. /\ task.num_slaves \in Nat /\ Len(bus.slaves) \in Nat /\ bus.capacity \in Nat
      /\ task.num_slaves <= Len(bus.slaves) /\ p \in Nat /\ p <= bus.capacity
  BY <1>0, BusFacts DEF IsTask, NetworkOk
<1>4. task.error # "GivenUp"
  BY <1>0 DEF TaskRight
<1>5. PICK w : w = [task EXCEPT !.init = u]
  OBVIOUS
<1>6. task = [state |-> task.state, count |-> task.count, num_slaves |-> task.num_slaves,
              error |-> task.error, command |-> task.command, init |-> task.init]
  BY <1>0 DEF IsTask
<1>7. w = [state |-> task.state, count |-> p, num_slaves |-> task.num_slaves,
           error |-> task.error, command |-> task.command, init |-> u]
  BY <1>1, <1>5, <1>6
<1>8. CASE p >= bus.capacity
  <2>1. t = [w EXCEPT !.state = "Error", !.error = "TooManySlaves"] /\ s = network
    BY <1>5, <1>8 DEF Pushed, Result
  <2>2. t = [state |-> "Error", count |-> p, num_slaves |-> task.num_slaves,
             error |-> "TooManySlaves", command |-> task.command, init |-> u]
    BY <1>7, <2>1
  <2>3. t.state = "Error" /\ t.error = "TooManySlaves" /\ t.num_slaves = task.num_slaves
    BY <2>2
  <2>4. IsTask(t)
    BY <1>2, <1>3, <2>2 DEF IsTask, NetworkInitState
  <2>5. SlavesKept(t, s)'
    BY <1>3, <2>1, <2>3, SameSlaves
  <2>6. Excuse(t, s)'
    <3>1. Len(s) = bus.capacity /\ bus.capacity < Len(bus.slaves)
      BY <1>1, <1>3, <1>8, <2>1
    <3>2. QED
      BY <1>0, <2>3, <3>1 DEF Excuse
  <2>7. QED
    BY <2>3, <2>4, <2>5, <2>6, EndKept
<1>9. CASE ~(p >= bus.capacity) /\ p + 1 >= task.num_slaves
  <2>1. t = [w EXCEPT !.state = "Complete"] /\ s = Append(network, NewSlave(u.info))
    <3>1. ~(p + 1 < task.num_slaves)
      BY <1>3, <1>9
    <3>2. QED
      BY <1>1, <1>5, <1>9, <3>1 DEF Pushed, Result
  <2>2. t = [state |-> "Complete", count |-> p, num_slaves |-> task.num_slaves,
             error |-> task.error, command |-> task.command, init |-> u]
    BY <1>7, <2>1
  <2>3. t.state = "Complete" /\ t.error = task.error /\ t.num_slaves = task.num_slaves
    BY <2>2
  <2>4. IsTask(t)
    BY <1>2, <1>3, <2>2 DEF IsTask, NetworkInitState
  <2>5. SlavesKept(t, s)' /\ Len(s) = p + 1
    <3>1. p < bus.capacity
      BY <1>3, <1>9
    <3>2. Pushing(u, i, p, known)
      BY <3>1 DEF Pushing
    <3>3. s = WithSlave(u)
      BY <2>1, Zenon DEF WithSlave
    <3>4. QED
      BY <2>3, <3>2, <3>3, AppendedSlaves
  <2>6. Len(s) = t.num_slaves
    BY <1>1, <1>3, <1>9, <2>3, <2>5
  <2>7. Excuse(t, s)'
    BY <2>3 DEF Excuse
  <2>8. QED
    BY <1>4, <2>3, <2>4, <2>5, <2>6, <2>7, EndKept
<1>10. CASE ~(p >= bus.capacity) /\ p + 1 < task.num_slaves
  <2>1. t = [w EXCEPT !.state = "StartInitSlaves", !.count = @ + 1] /\ s = Append(network, NewSlave(u.info))
    <3>1. p + 1 < task.num_slaves /\ ~(p + 1 >= task.num_slaves) /\ ~(p >= bus.capacity)
      BY <1>3, <1>10
    <3>2. Pushed(task, network, u) =
            Result([w EXCEPT !.state = "StartInitSlaves", !.count = @ + 1], Append(network, NewSlave(u.info)))
      BY <1>1, <1>5, <3>1, Zenon DEF Pushed
    <3>3. QED
      BY <3>2 DEF Result
  <2>2. t = [state |-> "StartInitSlaves", count |-> p + 1, num_slaves |-> task.num_slaves,
             error |-> task.error, command |-> task.command, init |-> u]
    BY <1>7, <2>1
  <2>3. /\ t.state = "StartInitSlaves" /\ t.error = task.error /\ t.num_slaves = task.num_slaves
        /\ t.init = u /\ t.count = p + 1
    BY <2>2
  <2>4. IsTask(t)
    BY <1>2, <1>3, <2>2 DEF IsTask, NetworkInitState
  <2>5. SlavesKept(t, s)' /\ Len(s) = p + 1
    <3>1. p < bus.capacity
      BY <1>3, <1>10
    <3>2. Pushing(u, i, p, known)
      BY <3>1 DEF Pushing
    <3>3. s = WithSlave(u)
      BY <2>1, Zenon DEF WithSlave
    <3>4. QED
      BY <2>3, <3>2, <3>3, AppendedSlaves
  <2>6. PICK v : v = InitSending(SlaveInitStart(u, p + 1))
    OBVIOUS
  <2>7. PICK k2 \in BOOLEAN : k2 <=> p + 1 \notin ignored'
    OBVIOUS
  <2>8. p + 1 \in Slaves
    BY <1>3, <1>10 DEF Slaves
  <2>9. regs[p + 1].dirty \subseteq Registers(Profile(p + 1))
    <3>1. p + 1 \in Pos
      BY <1>0, <2>8, BusFacts
    <3>2. QED
      BY <1>0, <2>8, <3>1 DEF DevicesOk
  <2>10. WorkSent(v, p + 1, k2, FALSE) /\ v.state = "SetLoopPort"
    BY <1>0, <1>2, <2>6, <2>8, <2>9, SlaveStarts
  <2>11. v = InitSending(IF t.state = "StartInitSlaves" THEN SlaveInitStart(t.init, t.count) ELSE t.init)
    BY <2>3, <2>6
  <2>12. PICK p1 \in Slaves : p1 = p + 1
    BY <2>8
  <2>13. /\ p1 = Len(s) /\ t.count = p1 /\ p1 < t.num_slaves /\ (k2 <=> p1 \notin ignored')
         /\ WorkSent(v, p1, k2, FALSE)
    BY <1>10, <2>3, <2>5, <2>7, <2>10, <2>12
  <2>14. QED
    BY <1>4, <2>3, <2>4, <2>5, <2>10, <2>11, <2>13, WorkKept
<1>11. QED
  BY <1>3, <1>8, <1>9, <1>10

\* Nothing has come back.
LEMMA SendsKept ==
  ASSUME NetworkInv, StepFrame, Step, Made(task, network), ~socket.recv_flag
  PROVE  Kept
<1>0. IsTask(task) /\ NetworkOk /\ TaskRight
  BY DEF NetworkInv
<1>1. PICK t : t = task
  OBVIOUS
<1>2. PICK s : s = network
  OBVIOUS
<1>3. Made(t, s)
  BY <1>1, <1>2
<1>4. Busy /\ socket = NoPdu
  BY Zenon DEF Step
<1>5. CASE t.state = "CountSlaves"
  BY <1>1, <1>2, <1>3, <1>5, CountSent
<1>6. CASE t.state \in {"StartInitSlaves", "WaitInitSlaves"}
  <2>1. SlaveUnderWay
    BY <1>0, <1>1, <1>6 DEF TaskRight
  <2>2. /\ t.init.position = Len(s) /\ t.count = Len(s) /\ Len(s) < t.num_slaves
        /\ t.state = "StartInitSlaves" => t.init.state = "SetLoopPort"
        /\ t.init.state = "Error"
    BY <1>1, <1>2, <1>4, <2>1 DEF SlaveUnderWay, WorkUnderWay, Own
  <2>3. t.state = "WaitInitSlaves"
    BY <1>6, <2>2
  <2>4. SlavesKept(t, s)'
    BY <1>0, <1>1, <1>2, <2>3, SameSlaves, StillCounted DEF NetworkOk
  <2>5. t.error # "GivenUp"
    BY <1>0, <1>1, <2>3 DEF TaskRight
  <2>6. QED
    BY <1>0, <1>1, <1>3, <2>2, <2>3, <2>4, <2>5, StuckKept
<1>7. QED
  BY <1>1, <1>4, <1>5, <1>6 DEF Busy, NetworkBusy

\* The results of the slave's task that the network's task waits for.
LEMMA WaitedKept ==
  ASSUME NetworkInv, StepFrame, Step, NEW CONSTANT t, NEW CONSTANT s, Made(t, s), socket.recv_flag,
         task.state = "WaitInitSlaves", NEW CONSTANT p, p = Len(network),
         NEW CONSTANT known \in BOOLEAN, known <=> p \notin ignored',
         NEW CONSTANT u, NEW CONSTANT i, SlaveAnswers(u, i, p, known),
         t = SlaveWaited(task, network, u).task, s = SlaveWaited(task, network, u).slaves
  PROVE  Kept
<1>0. IsTask(task)
  BY DEF NetworkInv
<1>1. u \in InitType /\ Outcome(u, i, p, known)
  BY DEF SlaveAnswers, Outcome
<1>2. CASE u.state = "Complete"
  <2>1. SlaveWaited(task, network, u) = Pushed(task, network, u)
    BY <1>2 DEF SlaveWaited
  <2>2. t = Pushed(task, network, u).task /\ s = Pushed(task, network, u).slaves
    BY <2>1, Zenon
  <2>3. QED
    BY <1>2, <2>2, PushedKept
<1>3. CASE u.state = "Error"
  <2>1. t = [task EXCEPT !.init = u, !.state = "Error", !.error = u.error] /\ s = network
    BY <1>3 DEF SlaveWaited, Result
  <2>2. /\ IsTask(t) /\ t.init = u /\ t.state = "Error" /\ t.error = u.error
        /\ t.num_slaves = task.num_slaves
    <3>1. PICK st \in NetworkInitState : st = "Error"
      BY DEF NetworkInitState
    <3>2. PICK e : e = u.error
      OBVIOUS
    <3>3. TaskWith(t, u, st, e)
      BY <1>0, <2>1, <3>1, <3>2, ZenonT(60) DEF TaskWith, IsTask
    <3>4. QED
      BY <1>0, <1>1, <3>1, <3>2, <3>3, TaskForm
  <2>3. QED
    BY <1>3, <2>1, <2>2, FailsKept
<1>4. CASE u.state = "panic"
  <2>1. t = [task EXCEPT !.init = u, !.state = "panic"] /\ s = network
    BY <1>4 DEF SlaveWaited, Result
  <2>2. /\ IsTask(t) /\ t.init = u /\ t.state = "panic" /\ t.error = task.error
        /\ t.num_slaves = task.num_slaves
    <3>1. PICK st \in NetworkInitState : st = "panic"
      BY DEF NetworkInitState
    <3>2. PICK e : e = task.error
      OBVIOUS
    <3>3. TaskWith(t, u, st, e)
      BY <1>0, <2>1, <3>1, <3>2, ZenonT(60) DEF TaskWith, IsTask
    <3>4. QED
      BY <1>0, <1>1, <3>1, <3>2, <3>3, TaskForm
  <2>3. QED
    BY <1>4, <2>1, <2>2, FailsKept
<1>5. CASE u.state \notin {"Complete", "Error", "panic"}
  <2>1. t = [task EXCEPT !.init = u] /\ s = network
    BY <1>5 DEF SlaveWaited, Result
  <2>2. /\ IsTask(t) /\ t.init = u /\ t.state = "WaitInitSlaves" /\ t.error = task.error
        /\ t.num_slaves = task.num_slaves /\ t.count = task.count
    <3>1. PICK st \in NetworkInitState : st = "WaitInitSlaves"
      BY DEF NetworkInitState
    <3>2. PICK e : e = task.error
      OBVIOUS
    <3>3. TaskWith(t, u, st, e)
      BY <1>0, <2>1, <3>1, <3>2 DEF TaskWith, IsTask
    <3>4. QED
      BY <1>0, <1>1, <3>1, <3>2, <3>3, TaskForm
  <2>3. u.state \notin Ended
    <3>1. ToSend(u, p, known)
      BY <1>1, <1>5 DEF Outcome
    <3>2. QED
      BY <1>5, <3>1 DEF ToSend
  <2>4. QED
    BY <2>1, <2>2, <2>3, GoesOnKept
<1>6. QED
  BY <1>2, <1>3, <1>4, <1>5

\* StartInitSlaves: the first answer of a slave.
LEMMA StartedKept ==
  ASSUME NetworkInv, StepFrame, Step, NEW CONSTANT t, NEW CONSTANT s, Made(t, s), socket.recv_flag,
         task.state = "StartInitSlaves", NEW CONSTANT p, p = Len(network),
         NEW CONSTANT known \in BOOLEAN, known <=> p \notin ignored',
         NEW CONSTANT u, NEW CONSTANT i, SlaveAnswers(u, i, p, known),
         u.state \notin Ended \/ u.state = "Error",
         t = SlaveStarted(task, network, u).task, s = SlaveStarted(task, network, u).slaves
  PROVE  Kept
<1>0. IsTask(task)
  BY DEF NetworkInv
<1>1. u \in InitType
  BY DEF SlaveAnswers, Outcome
<1>2. t = [task EXCEPT !.init = u, !.state = "WaitInitSlaves"] /\ s = network
  BY DEF SlaveStarted, Result
<1>3. /\ IsTask(t) /\ t.init = u /\ t.state = "WaitInitSlaves" /\ t.error = task.error
      /\ t.num_slaves = task.num_slaves /\ t.count = task.count
  <2>1. PICK st \in NetworkInitState : st = "WaitInitSlaves"
    BY DEF NetworkInitState
  <2>2. PICK e : e = task.error
    OBVIOUS
  <2>3. TaskWith(t, u, st, e)
    <3>1. task = [state |-> task.state, count |-> task.count, num_slaves |-> task.num_slaves,
                  error |-> task.error, command |-> task.command, init |-> task.init]
      BY <1>0 DEF IsTask
    <3>2. QED
      BY <1>2, <2>1, <2>2, <3>1, ZenonT(60) DEF TaskWith
  <2>4. /\ IsTask(t) /\ t.init = u /\ t.state = st /\ t.error = e
        /\ t.count = task.count /\ t.num_slaves = task.num_slaves
    BY <1>0, <1>1, <2>1, <2>3, TaskForm
  <2>5. QED
    BY <2>1, <2>2, <2>4
<1>4. QED
  BY <1>2, <1>3, GoesOnKept

\* The first PDU of a slave.
LEMMA FirstAnswer ==
  ASSUME NEW i \in InitType, i.state = "SetLoopPort", NEW wkc, NEW answer, NEW next,
         NEW u \in SlaveInitRecieved(i, wkc, answer, next)
  PROVE  u.state \notin Ended \/ u.state = "Error"
<1>1. i.state \in WriteStates /\ i.state \notin Ended
  BY DEF WriteStates, Ended
<1>2. CASE wkc # 1
  <2>1. u = InitFails(i, "UnexpectedWkc")
    BY <1>1, <1>2 DEF SlaveInitRecieved
  <2>2. QED
    BY <2>1, EndMoves
<1>3. CASE wkc = 1
  <2>1. u = AfterWrite(i)
    <3>1. ~(wkc # 1) /\ i.state \notin ReadStates /\ i.state \notin SiiStates
          /\ i.state # "RequestInitState"
      BY <1>3 DEF ReadStates, SiiStates
    <3>2. QED
      BY <1>1, <1>3, <3>1 DEF SlaveInitRecieved
  <2>2. u = Goto(i, "RequestInitState")
    BY <2>1 DEF AfterWrite
  <2>3. u.state = "RequestInitState"
    BY <2>2 DEF Goto, InitType
  <2>4. QED
    BY <2>3 DEF Ended
<1>4. QED
  BY <1>2, <1>3

\* recieve_and_process, in every state.
LEMMA RecievedKept ==
  ASSUME NetworkInv, StepFrame, Step, socket.recv_flag, NEW CONSTANT r \in Recieved(task),
         Made(r.task, r.slaves)
  PROVE  Kept
<1>0. IsTask(task) /\ Busy
  BY Zenon DEF NetworkInv, Step
<1>1. PICK t : t = r.task
  OBVIOUS
<1>2. PICK s : s = r.slaves
  OBVIOUS
<1>3. Made(t, s)
  BY <1>1, <1>2
<1>4. PICK i : i = task.init
  OBVIOUS
<1>5. PICK p : p = Len(network)
  OBVIOUS
<1>6. PICK known \in BOOLEAN : known <=> p \notin ignored'
  OBVIOUS
<1>7. PICK inits : inits = SlaveInitRecieved(i, socket.wkc, socket.answer, AL!Recieved(i.al))
  OBVIOUS
<1>8. CASE socket.command # task.command
  <2>1. r = Result([task EXCEPT !.state = "Error", !.error = "UnexpectedCommand"], network)
    BY <1>8 DEF Recieved
  <2>2. t = [task EXCEPT !.state = "Error", !.error = "UnexpectedCommand"] /\ s = network
    BY <1>1, <1>2, <2>1 DEF Result
  <2>3. QED
    BY <1>0, <1>3, <1>8, <2>2, UnexpectedKept
<1>9. CASE socket.command = task.command /\ task.state = "CountSlaves"
  <2>1. r = Counted(task)
    BY <1>9 DEF Recieved
  <2>2. t = Counted(task).task /\ s = Counted(task).slaves
    BY <1>1, <1>2, <2>1
  <2>3. QED
    BY <1>3, <1>9, <2>2, CountedKept
<1>10. CASE socket.command = task.command /\ task.state = "StartInitSlaves"
  <2>1. PICK u \in inits : r = SlaveStarted(task, network, u)
    <3>1. Recieved(task) = {SlaveStarted(task, network, j) : j \in inits}
      BY <1>4, <1>7, <1>10 DEF Recieved
    <3>2. QED
      BY <3>1
  <2>2. SlaveAnswers(u, i, p, known)
    BY <1>4, <1>5, <1>6, <1>7, <1>10, OwnAnswer
  <2>3. u.state \notin Ended \/ u.state = "Error"
    BY <1>7, <1>10, <2>2, FirstAnswer DEF SlaveAnswers
  <2>4. t = SlaveStarted(task, network, u).task /\ s = SlaveStarted(task, network, u).slaves
    BY <1>1, <1>2, <2>1
  <2>5. QED
    BY <1>3, <1>5, <1>6, <1>10, <2>2, <2>3, <2>4, StartedKept
<1>11. CASE socket.command = task.command /\ task.state = "WaitInitSlaves"
  <2>1. PICK u \in inits : r = SlaveWaited(task, network, u)
    <3>1. Recieved(task) = {SlaveWaited(task, network, j) : j \in inits}
      BY <1>4, <1>7, <1>11 DEF Recieved
    <3>2. QED
      BY <3>1
  <2>2. SlaveAnswers(u, i, p, known)
    BY <1>4, <1>5, <1>6, <1>7, <1>11, OwnAnswer
  <2>3. t = SlaveWaited(task, network, u).task /\ s = SlaveWaited(task, network, u).slaves
    BY <1>1, <1>2, <2>1
  <2>4. QED
    BY <1>3, <1>5, <1>6, <1>11, <2>2, <2>3, WaitedKept
<1>12. QED
  BY <1>0, <1>8, <1>9, <1>10, <1>11 DEF Busy, NetworkBusy

\* One turn of the call's loop keeps the invariant.
LEMMA StepKeeps ==
  ASSUME NetworkInv, Step
  PROVE  NetworkInv'
<1>1. StepFrame /\ DevicesOk' /\ CountersOk' /\ bus' \in Buses
  BY StepKeepsDevices
<1>2. Kept
  <2>1. CASE socket.recv_flag
    <3>1. PICK r \in Recieved(task) : Made(r.task, r.slaves)
      BY <2>1, StepMakes
    <3>2. QED
      BY <1>1, <2>1, <3>1, RecievedKept
  <2>2. CASE ~socket.recv_flag
    <3>1. PICK r \in {Result(task, network)} : Made(r.task, r.slaves)
      BY <2>2, StepMakes
    <3>2. r.task = task /\ r.slaves = network
      BY DEF Result
    <3>3. Made(task, network)
      BY <3>1, <3>2
    <3>4. QED
      BY <1>1, <2>2, <3>3, SendsKept
  <2>3. QED
    BY <2>1, <2>2
<1>3. QED
  BY <1>1, <1>2 DEF Kept, NetworkInv

\* SlaveInitTask::new.
LEMMA NewInitType ==
  ASSUME bus \in Buses
  PROVE  NewSlaveInit(NewAl(0)) \in InitType /\ NewSlaveInit(NewAl(0)).position = 0
<1>1. NewAl(0) \in AL!Task /\ 0 \in Pos
  BY BusFacts, NewAlType
<1>2. PICK a \in AL!Task : a = NewAl(0)
  BY <1>1
<1>3. NewInfo \in InfoType /\ NewSiiReader \in SiiType
  BY NewInfoType, NewSiiType
<1>4. NewSlaveInit(a) \in InitType /\ NewSlaveInit(a).position = 0
  BY <1>1, <1>3 DEF NewSlaveInit, InitType, SlaveInitState, Ended
<1>5. QED
  BY <1>2, <1>4

\* What a new call, or one that gives up, leaves alone.
CallFrame ==
  /\ bus' = bus /\ UNCHANGED deviceVars /\ socket' = socket /\ network' = network
  /\ ignored' = ignored /\ miscounted' = miscounted
  /\ faults' \in {faults, faults + 1} /\ faults' \in 0 .. MaxFaults /\ calls' \in 0 .. MaxCalls

NewCall(st, e) ==
  task' = [state |-> st, count |-> 0, num_slaves |-> 0, error |-> e,
           command |-> DefaultCommand, init |-> NewSlaveInit(NewAl(0))]

\* A call that starts, or gives up, with a new task.
LEMMA CallKeeps ==
  ASSUME NetworkInv, CallFrame, NEW CONSTANT st, NEW CONSTANT e, NewCall(st, e),
         st \in {"CountSlaves", "Error"}, e = "GivenUp" => faults' > 0,
         st = "Error" <=> e = "GivenUp", st = "CountSlaves" => Counting'
  PROVE  NetworkInv'
<1>0. /\ bus \in Buses /\ IsTask(task) /\ NetworkOk /\ SocketOk /\ DevicesOk /\ CountersOk /\ SlavesRight
      /\ bus' = bus /\ UNCHANGED deviceVars /\ socket' = socket /\ network' = network
      /\ ignored' = ignored /\ miscounted' = miscounted
      /\ faults' \in {faults, faults + 1} /\ faults' \in 0 .. MaxFaults /\ calls' \in 0 .. MaxCalls
  BY DEF NetworkInv, CallFrame
<1>1. al' = al /\ request' = request
  BY <1>0 DEF deviceVars, alVars
<1>2. /\ task'.state = st /\ task'.count = 0 /\ task'.num_slaves = 0 /\ task'.error = e
      /\ task'.command = DefaultCommand /\ task'.init \in InitType
      /\ task' = [state |-> task'.state, count |-> task'.count, num_slaves |-> task'.num_slaves,
                  error |-> task'.error, command |-> task'.command, init |-> task'.init]
  <2>1. PICK i \in InitType : i = NewSlaveInit(NewAl(0))
    BY <1>0, NewInitType
  <2>2. task' = [state |-> st, count |-> 0, num_slaves |-> 0, error |-> e,
                 command |-> DefaultCommand, init |-> i]
    BY <2>1, Zenon DEF NewCall
  <2>3. QED
    BY <2>1, <2>2
<1>3. IsTask(task)'
  BY <1>2 DEF IsTask, NetworkInitState
<1>4. NetworkOk'
  <2>1. Len(bus.slaves) \in Nat
    BY <1>0, BusFacts
  <2>2. QED
    BY <1>0, <1>2, <2>1 DEF NetworkOk
<1>5. SocketOk'
  <2>1. PICK q : q = socket /\ PduOk(q) /\ WriteOk(q)
    BY <1>0 DEF SocketOk
  <2>2. PduOk(q)' /\ WriteOk(q)'
    BY <1>0, <1>1, <2>1, PduFrame
  <2>3. (\E x \in {socket} : PduOk(x) /\ WriteOk(x))'
    BY <1>0, <2>1, <2>2
  <2>4. (~Busy /\ task.error # "GivenUp" => socket = NoPdu)'
    BY <1>2 DEF Busy, NetworkBusy
  <2>5. QED
    BY <2>3, <2>4 DEF SocketOk
<1>6. DevicesOk' /\ CountersOk'
  <2>1. faults \in Nat /\ faults' \in Nat /\ faults' >= faults
    BY <1>0, BusAssumption DEF CountersOk
  <2>2. DevicesOk'
    BY <1>0, <2>1, DeviceFrame
  <2>3. CountersOk'
    BY <1>0 DEF CountersOk
  <2>4. QED
    BY <2>2, <2>3
<1>7. SlavesRight'
  <2>1. ASSUME NEW CONSTANT k \in 1 .. Len(network), NEW CONSTANT info \in {network[k].info}
        PROVE  OwnInfo(k - 1, info)'
    <3>1. OwnInfo(k - 1, info)
      BY <1>0 DEF SlavesRight
    <3>2. QED
      BY <1>0, <3>1, OwnFrame
  <2>2. QED
    BY <1>0, <1>2, <2>1 DEF SlavesRight
<1>8. TaskRight'
  BY <1>2 DEF TaskRight
<1>9. Excused'
  BY <1>2 DEF Excused, Excuse
<1>10. QED
  BY <1>0, <1>3, <1>4, <1>5, <1>6, <1>7, <1>8, <1>9 DEF NetworkInv

\* A new call keeps the invariant, even with an old PDU under way.
LEMMA StartKeeps ==
  ASSUME NetworkInv, Start
  PROVE  NetworkInv'
<1>0. CountersOk /\ SocketOk /\ TaskRight /\ bus \in Buses
  BY DEF NetworkInv
<1>1. CallFrame
  <2>1. /\ bus' = bus /\ UNCHANGED deviceVars /\ socket' = socket /\ network' = network
        /\ ignored' = ignored /\ miscounted' = miscounted /\ faults' = faults
    BY DEF Start
  <2>2. calls' \in 0 .. MaxCalls /\ faults \in 0 .. MaxFaults
    BY <1>0, BusAssumption DEF Start, CountersOk
  <2>3. QED
    BY <2>1, <2>2 DEF CallFrame
<1>2. PICK st : st = "CountSlaves"
  OBVIOUS
<1>3. PICK e : e = "none"
  OBVIOUS
<1>4. NewCall(st, e)
  <2>1. PICK i : i = NewSlaveInit(NewAl(0))
    OBVIOUS
  <2>2. NewNetworkInit = [state |-> "Idle", count |-> 0, num_slaves |-> 0, error |-> "none",
                          command |-> DefaultCommand, init |-> i]
    BY <2>1, Zenon DEF NewNetworkInit
  <2>3. task' = [NewNetworkInit EXCEPT !.state = "CountSlaves"]
    BY Zenon DEF Start
  <2>4. task' = [state |-> st, count |-> 0, num_slaves |-> 0, error |-> e,
                 command |-> DefaultCommand, init |-> i]
    BY <1>2, <1>3, <2>2, <2>3
  <2>5. QED
    BY <2>1, <2>4, Zenon DEF NewCall
<1>5. Counting'
  <2>1. task'.command = DefaultCommand
    BY <1>4 DEF NewCall
  <2>2. DefaultCommand # CountCommand
    BY DEF DefaultCommand, CountCommand
  <2>3. faults > 0 \/ socket = NoPdu
    BY <1>0 DEF Start, SocketOk, TaskRight
  <2>4. NoPdu.recv_flag = FALSE /\ NoPdu.command = DefaultCommand
    BY DEF NoPdu
  <2>5. faults' = faults /\ socket' = socket
    BY DEF Start
  <2>6. QED
    BY <2>1, <2>2, <2>3, <2>4, <2>5 DEF Counting
<1>6. QED
  BY <1>1, <1>2, <1>3, <1>4, <1>5, CallKeeps

\* A call whose PDU is lost keeps the invariant.
LEMMA GiveUpKeeps ==
  ASSUME NetworkInv, GiveUp
  PROVE  NetworkInv'
<1>0. CountersOk /\ bus \in Buses /\ MaxFaults \in Nat
  BY BusAssumption DEF NetworkInv
<1>1. CallFrame /\ faults' > 0
  BY <1>0 DEF GiveUp, CallFrame, CountersOk
<1>2. PICK st : st = "Error"
  OBVIOUS
<1>3. PICK e : e = "GivenUp"
  OBVIOUS
<1>4. NewCall(st, e)
  <2>1. PICK i : i = NewSlaveInit(NewAl(0))
    OBVIOUS
  <2>2. NewNetworkInit = [state |-> "Idle", count |-> 0, num_slaves |-> 0, error |-> "none",
                          command |-> DefaultCommand, init |-> i]
    BY <2>1, Zenon DEF NewNetworkInit
  <2>3. task' = [NewNetworkInit EXCEPT !.state = "Error", !.error = "GivenUp"]
    BY Zenon DEF GiveUp
  <2>4. task' = [state |-> st, count |-> 0, num_slaves |-> 0, error |-> e,
                 command |-> DefaultCommand, init |-> i]
    BY <1>2, <1>3, <2>2, <2>3
  <2>5. QED
    BY <2>1, <2>4, Zenon DEF NewCall
<1>5. QED
  BY <1>1, <1>2, <1>3, <1>4, CallKeeps

\* DL status and DL information do not change.
LEMMA ReadSame ==
  ASSUME bus' = bus, NEW CONSTANT p
  PROVE  /\ ReadOf(p, "DlStatus")' = ReadOf(p, "DlStatus")
         /\ ReadOf(p, "DlInformation")' = ReadOf(p, "DlInformation")
<1>1. Profile(p)' = Profile(p)
  BY BusFrame
<1>2. QED
  BY <1>1 DEF ReadOf

\* The parts of WorkSent, put together after a step.
LEMMA WorkParts ==
  ASSUME bus' = bus, NEW CONSTANT i, NEW CONSTANT p, NEW CONSTANT known, NEW CONSTANT b1,
         NEW CONSTANT b2, WorkSent(i, p, known, b1), SlaveDone(i, p)', AlUnderWay(i, p)',
         SiiUnderWay(i, p, known, b2)'
  PROVE  WorkSent(i, p, known, b2)'
<1>1. Found(i, p, known) /\ SentOf(i, p) /\ i \in InitType /\ i.state \notin Ended /\ i.position = p
  BY DEF WorkSent
<1>2. Found(i, p, known)'
  BY <1>1, FoundFrame
<1>3. i \in InitType'
  BY <1>1
<1>4. QED
  BY <1>1, <1>2, <1>3 DEF WorkSent

\* An answer to the transfer stays right as long as the slave stays in its state.
LEMMA AlAnsweredFrame ==
  ASSUME socket' = socket, NEW CONSTANT i, NEW CONSTANT p,
         al'[p] = al[p], err'[p] = err[p], request'[p] = request[p], AlAnswered(i, p)
  PROVE  AlAnswered(i, p)'
  BY DEF AlAnswered

\* An answer to the SII reader stays right as long as the EEPROM interface stays.
LEMMA SiiAnsweredFrame ==
  ASSUME bus' = bus, socket' = socket, NEW CONSTANT i, NEW CONSTANT p, NEW CONSTANT known,
         faults > 0 => faults' > 0,
         ee'[p] = ee[p], pdi'[p] = pdi[p], SiiAnswered(i, p, known)
  PROVE  SiiAnswered(i, p, known)'
<1>1. Profile(p)' = Profile(p)
  BY BusFrame
<1>2. \A a : /\ Loaded(p, a)' <=> Loaded(p, a)
             /\ Loading(p, a)' <=> Loading(p, a)
  BY LoadedFrame
<1>3. QED
  BY <1>1, <1>2 DEF SiiAnswered

\* The parts of Answered, put together after a step.
LEMMA AnsweredParts ==
  ASSUME bus' = bus, socket' = socket, NEW CONSTANT i, NEW CONSTANT p, NEW CONSTANT known,
         faults > 0 => faults' > 0, regs'[p] = regs[p], Answered(i, p, known),
         AlAnswered(i, p) => AlAnswered(i, p)', SiiAnswered(i, p, known) => SiiAnswered(i, p, known)'
  PROVE  Answered(i, p, known)'
<1>1. WriteAnswered(i, p) => WriteAnswered(i, p)'
  BY DEF WriteAnswered
<1>2. ReadAnswered(i, p) => ReadAnswered(i, p)'
  BY ReadSame DEF ReadAnswered
<1>3. QED
  BY <1>1, <1>2 DEF Answered

----------------------------------------------------------------------------
\* The task of the slave at p between two steps of the call.
Worked(i, p, known, back) ==
  WorkSent(i, p, known, back) /\ (back => Answered(i, p, known))

\* The work on a slave that does nothing.
LEMMA WorkedSame ==
  ASSUME bus' = bus, socket' = socket, NEW CONSTANT i, NEW CONSTANT p, NEW CONSTANT known \in BOOLEAN,
         NEW CONSTANT back, faults > 0 => faults' > 0,
         al'[p] = al[p], err'[p] = err[p], request'[p] = request[p], pdi'[p] = pdi[p],
         ee'[p] = ee[p], regs'[p] = regs[p], Worked(i, p, known, back)
  PROVE  Worked(i, p, known, back)'
<1>1. WorkSent(i, p, known, back)'
  BY WorkFrame DEF Worked
<1>2. ASSUME back
      PROVE  Answered(i, p, known)'
  <2>1. Answered(i, p, known)
    BY <1>2 DEF Worked
  <2>2. (AlAnswered(i, p) => AlAnswered(i, p)') /\ (SiiAnswered(i, p, known) => SiiAnswered(i, p, known)')
    BY AlAnsweredFrame, SiiAnsweredFrame
  <2>3. QED
    BY <2>1, <2>2, AnsweredParts
<1>3. QED
  BY <1>1, <1>2 DEF Worked

\* The work on a slave whose errors are ignored from now on.
LEMMA LessWorked ==
  ASSUME NEW CONSTANT i, NEW CONSTANT p, NEW CONSTANT back, NEW CONSTANT k1 \in BOOLEAN,
         NEW CONSTANT k2 \in BOOLEAN, k2 => k1, Worked(i, p, k1, back)
  PROVE  Worked(i, p, k2, back)
  BY StillKnown DEF Worked

\* A step of a slave: what it leaves alone.
SlaveFrame ==
  /\ bus' = bus /\ task' = task /\ network' = network /\ socket' = socket /\ regs' = regs
  /\ calls' = calls /\ miscounted' = miscounted /\ ignored \subseteq ignored' /\ ignored' \subseteq Pos
  /\ faults' \in {faults, faults + 1} /\ faults' \in 0 .. MaxFaults

\* The values that SlaveUnderWay is about.
WorkOf(i, p, k1, k2, back) ==
  /\ i = task.init /\ p = Len(network) /\ back = socket.recv_flag
  /\ k1 = (p \notin ignored) /\ k2 = (p \notin ignored')

\* A step of a slave between two steps of the call.
LEMMA UnderWayKept ==
  ASSUME task' = task, network' = network, socket' = socket, SlaveUnderWay,
         NEW CONSTANT i, NEW CONSTANT p, NEW CONSTANT k1, NEW CONSTANT k2, NEW CONSTANT back,
         WorkOf(i, p, k1, k2, back), Worked(i, p, k1, back) => Worked(i, p, k2, back)'
  PROVE  SlaveUnderWay'
<1>1. /\ i.position = p /\ task.count = p /\ p < task.num_slaves
      /\ task.state = "StartInitSlaves" => i.state = "SetLoopPort"
      /\ (i.state = "Error" /\ socket = NoPdu) \/ WorkUnderWay(i, p, k1, back)
  BY DEF SlaveUnderWay, WorkOf
<1>2. Own(i) => Own(i)'
  <2>1. PICK q : q = InitPdu(i)
    OBVIOUS
  <2>2. InitPdu(i)' = q
    BY <2>1, PduSame
  <2>3. QED
    BY <2>1, <2>2 DEF Own
<1>3. WorkUnderWay(i, p, k1, back) => WorkUnderWay(i, p, k2, back)'
  BY <1>2 DEF WorkUnderWay, Worked
<1>4. i = task'.init /\ p = Len(network') /\ back = socket'.recv_flag /\ k2 = (Len(network') \notin ignored')
  BY DEF WorkOf
<1>5. QED
  BY <1>1, <1>3, <1>4 DEF SlaveUnderWay

\* A step of a slave during the count.
LEMMA CountingKept ==
  ASSUME bus' = bus, task' = task, socket' = socket, faults \in Nat, faults' \in {faults, faults + 1},
         Counting
  PROVE  Counting'
  BY DEF Counting

\* A step of a slave keeps the invariant if it keeps the work under way and undoes no Init.
LEMMA SlaveStepKeeps ==
  ASSUME NetworkInv, SlaveFrame, DevicesOk',
         task.state \in {"StartInitSlaves", "WaitInitSlaves"} /\ SlaveUnderWay => SlaveUnderWay',
         \A p \in Slaves : al[p] = "Init" => al'[p] = "Init",
         \A q \in {socket} : PduOk(q) /\ WriteOk(q) => WriteOk(q)'
  PROVE  NetworkInv'
<1>0. /\ bus \in Buses /\ IsTask(task) /\ NetworkOk /\ SocketOk /\ CountersOk /\ SlavesRight /\ TaskRight
      /\ Excused
      /\ bus' = bus /\ task' = task /\ network' = network /\ socket' = socket /\ regs' = regs
      /\ calls' = calls /\ miscounted' = miscounted /\ ignored \subseteq ignored' /\ ignored' \subseteq Pos
      /\ faults' \in {faults, faults + 1} /\ faults' \in 0 .. MaxFaults
  BY DEF NetworkInv, SlaveFrame
<1>1. faults \in Nat /\ faults' \in Nat /\ faults' >= faults /\ (faults > 0 => faults' > 0)
  BY <1>0, BusAssumption DEF CountersOk
<1>2. IsTask(task)'
  BY <1>0 DEF IsTask
<1>3. NetworkOk'
  BY <1>0 DEF NetworkOk
<1>4. SocketOk'
  <2>1. PICK q : q = socket /\ PduOk(q) /\ WriteOk(q)
    BY <1>0 DEF SocketOk
  <2>2. PduOk(q)'
    BY <1>0, <2>1, BusFrame DEF PduOk
  <2>3. WriteOk(q)'
    BY <2>1
  <2>4. QED
    BY <1>0, <2>1, <2>2, <2>3 DEF SocketOk, Busy
<1>5. CountersOk'
  BY <1>0 DEF CountersOk
<1>6. SlavesRight'
  <2>1. ASSUME NEW CONSTANT k \in 1 .. Len(network), NEW CONSTANT info \in {network[k].info}
        PROVE  /\ OwnInfo(k - 1, info)'
               /\ ReadySlave(k - 1, info) => ReadySlave(k - 1, info)'
    <3>1. OwnInfo(k - 1, info)
      BY <1>0 DEF SlavesRight
    <3>2. OwnInfo(k - 1, info)'
      BY <1>0, <3>1, OwnFrame
    <3>3. k - 1 \in Slaves
      <4>1. Len(network) \in Nat /\ Len(network) <= Len(bus.slaves) /\ Len(bus.slaves) \in Nat
        BY <1>0, BusFacts DEF NetworkOk
      <4>2. QED
        BY <4>1 DEF Slaves
    <3>4. ReadySlave(k - 1, info) => ReadySlave(k - 1, info)'
      BY <1>0, <3>3 DEF ReadySlave
    <3>5. QED
      BY <3>2, <3>4
  <2>2. CountKept => CountKept'
    BY <1>0 DEF CountKept
  <2>3. QED
    BY <1>0, <2>1, <2>2 DEF SlavesRight
<1>7. TaskRight'
  BY <1>0, <1>1, CountingKept DEF TaskRight
<1>8. Excused'
  <2>1. PICK t : t = task
    OBVIOUS
  <2>2. PICK s : s = network
    OBVIOUS
  <2>3. Excuse(t, s)
    BY <1>0, <2>1, <2>2 DEF Excused
  <2>4. \A p : Profile(p)' = Profile(p)
    BY <1>0 DEF Profile
  <2>5. \A p : Unsupported(p)' <=> Unsupported(p)
    BY <2>4 DEF Unsupported
  <2>6. Overflow(t.init.info, t.init.position)' <=> Overflow(t.init.info, t.init.position)
    <3>1. PICK p : p = t.init.position
      OBVIOUS
    <3>2. \A n : SmIn(p, n)' = SmIn(p, n)
      BY <1>0, BusFrame
    <3>3. Overflow(t.init.info, p)' <=> Overflow(t.init.info, p)
      BY <3>2 DEF Overflow
    <3>4. QED
      BY <3>1, <3>3
  <2>7. Excuse(t, s)'
    BY <1>0, <1>1, <2>3, <2>4, <2>5, <2>6 DEF Excuse
  <2>8. QED
    BY <1>0, <2>1, <2>2, <2>7 DEF Excused
<1>9. QED
  BY <1>0, <1>2, <1>3, <1>4, <1>5, <1>6, <1>7, <1>8 DEF NetworkInv

\* The slave that is initialised comes to Init.
LEMMA ReactsWork ==
  ASSUME bus' = bus, socket' = socket, NEW CONSTANT i, NEW CONSTANT p, NEW CONSTANT known \in BOOLEAN,
         NEW CONSTANT back, faults > 0 => faults' > 0,
         al'[p] = "Init", request'[p] = "none", request[p] = "Init", err'[p] = err[p], ~err[p],
         pdi'[p] = pdi[p], ee'[p] = ee[p], regs'[p] = regs[p], Worked(i, p, known, back)
  PROVE  Worked(i, p, known, back)'
<1>0. WorkSent(i, p, known, back) /\ SlaveDone(i, p) /\ AlUnderWay(i, p) /\ SiiUnderWay(i, p, known, back)
  BY DEF Worked, WorkSent, Found
<1>1. SlaveDone(i, p)'
  BY <1>0 DEF SlaveDone
<1>2. AlUnderWay(i, p)'
  <2>1. "Init" # "none"
    OBVIOUS
  <2>2. ASSUME NEW CONSTANT t, AlPrepared(t, p)
        PROVE  AlPrepared(t, p)'
    BY <2>1, <2>2 DEF AlPrepared
  <2>3. QED
    BY <1>0, <2>2 DEF AlUnderWay
<1>3. SiiUnderWay(i, p, known, back)'
  BY <1>0, SiiFrame
<1>4. WorkSent(i, p, known, back)'
  BY <1>0, <1>1, <1>2, <1>3, WorkParts
<1>5. AlAnswered(i, p) => AlAnswered(i, p)'
  BY DEF AlAnswered
<1>6. SiiAnswered(i, p, known) => SiiAnswered(i, p, known)'
  BY SiiAnsweredFrame
<1>7. QED
  BY <1>4, <1>5, <1>6, AnsweredParts DEF Worked

\* A slave that comes to the state asked for keeps the invariant.
LEMMA ReactsKeeps ==
  ASSUME NetworkInv, NEW CONSTANT s \in Pos, SlaveReacts(s)
  PROVE  NetworkInv'
<1>0. /\ bus \in Buses /\ DevicesOk /\ CountersOk /\ IsTask(task)
      /\ bus' = bus /\ task' = task /\ network' = network /\ socket' = socket /\ regs' = regs
      /\ calls' = calls /\ miscounted' = miscounted /\ ignored' = ignored /\ faults' = faults
      /\ err' = err /\ pdi' = pdi /\ ee' = ee
  BY DEF NetworkInv, SlaveReacts
<1>1. SlaveFrame
  BY <1>0 DEF SlaveFrame, CountersOk
<1>2. /\ request[s] = "Init" /\ ~err[s]
      /\ al' = [al EXCEPT ![s] = "Init"] /\ request' = [request EXCEPT ![s] = "none"]
  BY <1>0 DEF SlaveReacts, DevicesOk
<1>3. /\ al \in [Pos -> AlStates] /\ request \in [Pos -> {"none", "Init"}]
  BY <1>0 DEF DevicesOk
<1>4. /\ al'[s] = "Init" /\ request'[s] = "none"
      /\ \A p \in Pos : p # s => al'[p] = al[p] /\ request'[p] = request[p]
  BY <1>2, <1>3
<1>5. DevicesOk'
  <2>1. al' \in [Pos -> AlStates] /\ request' \in [Pos -> {"none", "Init"}]
    BY <1>2, <1>3 DEF AlStates
  <2>2. ASSUME NEW CONSTANT p \in Pos
        PROVE  /\ (err[p] => request[p] = "none")'
               /\ (ee[p].command_error => faults > 0)'
               /\ (p \notin Slaves => ~ee[p].busy /\ ~pdi[p])'
               /\ (p \in Slaves /\ ~Profile(p).long => ee[p].data[3] = 0 /\ ee[p].data[4] = 0)'
               /\ IsRegs(regs[p])'
               /\ (p \in Slaves => regs[p].dirty \subseteq Registers(Profile(p)))'
    <3>1. Profile(p)' = Profile(p) /\ Slaves' = Slaves
      BY <1>0, BusFrame
    <3>2. /\ (err[p] => request[p] = "none") /\ (ee[p].command_error => faults > 0)
          /\ (p \notin Slaves => ~ee[p].busy /\ ~pdi[p])
          /\ (p \in Slaves /\ ~Profile(p).long => ee[p].data[3] = 0 /\ ee[p].data[4] = 0)
          /\ IsRegs(regs[p])
          /\ (p \in Slaves => regs[p].dirty \subseteq Registers(Profile(p)))
      BY <1>0 DEF DevicesOk
    <3>3. (err[p] => request[p] = "none")'
      BY <1>0, <1>4, <3>2
    <3>4. IsRegs(regs[p])'
      BY <1>0, <3>2 DEF IsRegs
    <3>5. QED
      BY <1>0, <3>1, <3>2, <3>3, <3>4
  <2>3. /\ (err \in [Pos -> BOOLEAN])' /\ (pdi \in [Pos -> BOOLEAN])'
        /\ (ee \in [Pos -> EeType])' /\ (regs = [p \in Pos |-> regs[p]])'
    BY <1>0 DEF DevicesOk
  <2>4. QED
    BY <2>1, <2>2, <2>3 DEF DevicesOk
<1>6. ASSUME SlaveUnderWay
      PROVE  SlaveUnderWay'
  <2>1. PICK i : i = task.init
    OBVIOUS
  <2>2. PICK p : p = Len(network)
    OBVIOUS
  <2>3. PICK known \in BOOLEAN : known = (p \notin ignored)
    OBVIOUS
  <2>4. PICK back : back = socket.recv_flag
    OBVIOUS
  <2>5. WorkOf(i, p, known, known, back)
    BY <1>0, <2>1, <2>2, <2>3, <2>4 DEF WorkOf
  <2>6. ASSUME Worked(i, p, known, back)
        PROVE  Worked(i, p, known, back)'
    <3>1. p \in Pos
      <4>1. i.position = p
        BY <2>6 DEF Worked, WorkSent
      <4>2. QED
        BY <1>0, <2>1, <4>1 DEF IsTask, InitType
    <3>2. CASE p = s
      BY <1>0, <1>2, <1>4, <2>6, <3>2, ReactsWork
    <3>3. CASE p # s
      BY <1>0, <1>4, <2>6, <3>1, <3>3, WorkedSame
    <3>4. QED
      BY <3>2, <3>3
  <2>7. QED
    BY <1>0, <1>6, <2>5, <2>6, UnderWayKept
<1>7. \A p \in Slaves : al[p] = "Init" => al'[p] = "Init"
  BY <1>0, <1>4, BusFacts
<1>8. ASSUME NEW CONSTANT q \in {socket}, PduOk(q), WriteOk(q)
      PROVE  WriteOk(q)'
  <2>1. CASE q.command.op # "APWR"
    BY <2>1 DEF WriteOk
  <2>2. CASE q.command.op = "APWR"
    <3>1. q.position \in Slaves
      BY <1>8, <2>2 DEF PduOk, NoPdu, DefaultCommand, CountCommand
    <3>2. q.position \in Pos
      BY <1>0, <3>1, BusFacts
    <3>3. CASE q.position = s
      <4>1. request[q.position] # "none"
        BY <1>2, <3>3
      <4>2. QED
        BY <1>8, <2>2, <4>1 DEF WriteOk
    <3>4. CASE q.position # s
      <4>1. al'[q.position] = al[q.position] /\ request'[q.position] = request[q.position]
        BY <1>4, <3>2, <3>4
      <4>2. QED
        BY <1>8, <4>1 DEF WriteOk
    <3>5. QED
      BY <3>3, <3>4
  <2>3. QED
    BY <2>1, <2>2
<1>9. QED
  BY <1>1, <1>5, <1>6, <1>7, <1>8, SlaveStepKeeps

\* Only the EEPROM interface of the slave at s changes, to e.
EeFrame(s, e) ==
  /\ SlaveFrame /\ al' = al /\ err' = err /\ request' = request /\ pdi' = pdi
  /\ s \in Slaves /\ e \in EeType /\ ee' = [ee EXCEPT ![s] = e]
  /\ e.command_error => faults' > 0
  /\ ~Profile(s).long => e.data[3] = 0 /\ e.data[4] = 0

\* A step of an EEPROM interface keeps the invariant if it keeps the work under way.
LEMMA EeStepKeeps ==
  ASSUME NetworkInv, NEW CONSTANT s, NEW CONSTANT e, EeFrame(s, e),
         NEW CONSTANT i, NEW CONSTANT p, NEW CONSTANT k1 \in BOOLEAN, NEW CONSTANT k2 \in BOOLEAN,
         NEW CONSTANT back, WorkOf(i, p, k1, k2, back),
         /\ p = s /\ Worked(i, p, k1, back) /\ SlaveUnderWay /\ ee'[s] = e
         /\ task.state \in {"StartInitSlaves", "WaitInitSlaves"}
         => Worked(i, p, k2, back)'
  PROVE  NetworkInv'
<1>0. /\ bus \in Buses /\ DevicesOk /\ CountersOk /\ IsTask(task) /\ SlaveFrame
      /\ al' = al /\ err' = err /\ request' = request /\ pdi' = pdi
      /\ s \in Slaves /\ e \in EeType /\ ee' = [ee EXCEPT ![s] = e]
      /\ e.command_error => faults' > 0
      /\ ~Profile(s).long => e.data[3] = 0 /\ e.data[4] = 0
  BY DEF NetworkInv, EeFrame
<1>1. /\ bus' = bus /\ task' = task /\ network' = network /\ socket' = socket /\ regs' = regs
      /\ ignored \subseteq ignored' /\ faults' \in {faults, faults + 1} /\ faults' \in 0 .. MaxFaults
  BY <1>0 DEF SlaveFrame
<1>2. faults > 0 => faults' > 0
  BY <1>0, <1>1, BusAssumption DEF CountersOk
<1>3. ee \in [Pos -> EeType] /\ s \in Pos
  BY <1>0, BusFacts DEF DevicesOk
<1>4. /\ ee'[s] = e /\ ee' \in [Pos -> EeType]
      /\ \A x \in Pos : x # s => ee'[x] = ee[x]
  BY <1>0, <1>3
<1>5. DevicesOk'
  <2>1. ASSUME NEW CONSTANT x \in Pos
        PROVE  /\ (err[x] => request[x] = "none")'
               /\ (ee[x].command_error => faults > 0)'
               /\ (x \notin Slaves => ~ee[x].busy /\ ~pdi[x])'
               /\ (x \in Slaves /\ ~Profile(x).long => ee[x].data[3] = 0 /\ ee[x].data[4] = 0)'
               /\ IsRegs(regs[x])'
               /\ (x \in Slaves => regs[x].dirty \subseteq Registers(Profile(x)))'
    <3>1. Profile(x)' = Profile(x) /\ Slaves' = Slaves
      BY <1>1, BusFrame
    <3>2. /\ (err[x] => request[x] = "none") /\ (ee[x].command_error => faults > 0)
          /\ (x \notin Slaves => ~ee[x].busy /\ ~pdi[x])
          /\ (x \in Slaves /\ ~Profile(x).long => ee[x].data[3] = 0 /\ ee[x].data[4] = 0)
          /\ IsRegs(regs[x])
          /\ (x \in Slaves => regs[x].dirty \subseteq Registers(Profile(x)))
      BY <1>0 DEF DevicesOk
    <3>3. IsRegs(regs[x])'
      BY <1>1, <3>2 DEF IsRegs
    <3>4. CASE x = s
      <4>1. (x \in Slaves /\ ~Profile(x).long => ee[x].data[3] = 0 /\ ee[x].data[4] = 0)'
        BY <1>0, <1>4, <3>1, <3>4
      <4>2. (x \notin Slaves => ~ee[x].busy /\ ~pdi[x])'
        BY <1>0, <3>1, <3>4
      <4>3. (ee[x].command_error => faults > 0)'
        BY <1>0, <1>4, <3>4
      <4>4. QED
        BY <1>0, <1>1, <3>1, <3>2, <3>3, <4>1, <4>2, <4>3
    <3>5. CASE x # s
      <4>1. ee'[x] = ee[x]
        BY <1>4, <3>5
      <4>2. QED
        BY <1>0, <1>1, <1>2, <3>1, <3>2, <3>3, <4>1
    <3>6. QED
      BY <3>4, <3>5
  <2>2. /\ (al \in [Pos -> AlStates])' /\ (request \in [Pos -> {"none", "Init"}])'
        /\ (err \in [Pos -> BOOLEAN])' /\ (pdi \in [Pos -> BOOLEAN])'
        /\ (regs = [x \in Pos |-> regs[x]])'
    BY <1>0, <1>1 DEF DevicesOk
  <2>3. QED
    BY <1>4, <2>1, <2>2 DEF DevicesOk
<1>6. ASSUME SlaveUnderWay, task.state \in {"StartInitSlaves", "WaitInitSlaves"}
      PROVE  SlaveUnderWay'
  <2>1. i = task.init /\ (k2 => k1)
    BY <1>1 DEF WorkOf
  <2>2. ASSUME Worked(i, p, k1, back)
        PROVE  Worked(i, p, k2, back)'
    <3>1. p \in Pos
      <4>1. i.position = p
        BY <2>2 DEF Worked, WorkSent
      <4>2. QED
        BY <1>0, <2>1, <4>1 DEF IsTask, InitType
    <3>2. CASE p = s
      BY <1>4, <1>6, <2>2, <3>2
    <3>3. CASE p # s
      <4>1. Worked(i, p, k2, back)
        BY <2>1, <2>2, LessWorked
      <4>2. ee'[p] = ee[p]
        BY <1>4, <3>1, <3>3
      <4>3. QED
        BY <1>0, <1>1, <1>2, <4>1, <4>2, WorkedSame
    <3>4. QED
      BY <3>2, <3>3
  <2>3. QED
    BY <1>1, <1>6, <2>2, UnderWayKept
<1>7. ASSUME NEW CONSTANT q \in {socket}, PduOk(q), WriteOk(q)
      PROVE  WriteOk(q)'
  BY <1>0, <1>7 DEF WriteOk
<1>8. QED
  BY <1>0, <1>5, <1>6, <1>7, SlaveStepKeeps

----------------------------------------------------------------------------
\* The parts of the work on a slave whose EEPROM interface changes.
LEMMA EeWork ==
  ASSUME bus' = bus, socket' = socket, NEW CONSTANT i, NEW CONSTANT p, NEW CONSTANT known \in BOOLEAN,
         NEW CONSTANT back, faults > 0 => faults' > 0,
         al'[p] = al[p], err'[p] = err[p], request'[p] = request[p], regs'[p] = regs[p],
         Worked(i, p, known, back), SiiUnderWay(i, p, known, back)',
         back /\ SiiAnswered(i, p, known) => SiiAnswered(i, p, known)'
  PROVE  Worked(i, p, known, back)'
<1>0. WorkSent(i, p, known, back) /\ SlaveDone(i, p) /\ AlUnderWay(i, p)
  BY DEF Worked, WorkSent, Found
<1>1. SlaveDone(i, p)'
  BY <1>0, SlaveDoneFrame
<1>2. AlUnderWay(i, p)'
  BY <1>0, AlFrame
<1>3. WorkSent(i, p, known, back)'
  BY <1>0, <1>1, <1>2, WorkParts
<1>4. ASSUME back
      PROVE  Answered(i, p, known)'
  <2>1. Answered(i, p, known)
    BY <1>4 DEF Worked
  <2>2. (AlAnswered(i, p) => AlAnswered(i, p)') /\ (SiiAnswered(i, p, known) => SiiAnswered(i, p, known)')
    BY <1>4, AlAnsweredFrame
  <2>3. QED
    BY <2>1, <2>2, AnsweredParts
<1>5. QED
  BY <1>3, <1>4 DEF Worked

\* The words are the same whatever was in the register before.
LEMMA WordsAgain ==
  ASSUME NEW f, NEW a, NEW old \in Word4, ~f.long => old[3] = 0 /\ old[4] = 0
  PROVE  /\ Words(f, a, old) = Words(f, a, <<0, 0, 0, 0>>)
         /\ ~f.long => Words(f, a, old)[3] = 0 /\ Words(f, a, old)[4] = 0
<1>1. ASSUME NEW k \in 1 .. 4
      PROVE  (IF f.long \/ k <= 2 THEN f.eeprom[a + k - 1] ELSE old[k]) =
             (IF f.long \/ k <= 2 THEN f.eeprom[a + k - 1] ELSE <<0, 0, 0, 0>>[k])
  <2>1. k = 1 \/ k = 2 \/ k = 3 \/ k = 4
    OBVIOUS
  <2>2. <<0, 0, 0, 0>>[3] = 0 /\ <<0, 0, 0, 0>>[4] = 0
    OBVIOUS
  <2>3. CASE k <= 2
    BY <2>3
  <2>4. CASE ~(k <= 2)
    <3>1. k = 3 \/ k = 4
      BY <2>1, <2>4
    <3>2. QED
      BY <2>2, <3>1
  <2>5. QED
    BY <2>3, <2>4
<1>2. Words(f, a, old) = Words(f, a, <<0, 0, 0, 0>>)
  BY <1>1 DEF Words
<1>3. ~f.long => Words(f, a, old)[3] = 0 /\ Words(f, a, old)[4] = 0
  BY DEF Words
<1>4. QED
  BY <1>2, <1>3

\* The EEPROM has loaded.
LEMMA LoadsWork ==
  ASSUME bus' = bus, socket' = socket, NEW CONSTANT i, NEW CONSTANT p, NEW CONSTANT known \in BOOLEAN,
         NEW CONSTANT back, faults > 0 => faults' > 0,
         al'[p] = al[p], err'[p] = err[p], request'[p] = request[p], regs'[p] = regs[p],
         pdi'[p] = pdi[p], NEW CONSTANT e, ee'[p] = e, ee[p].busy, e.busy = FALSE,
         e.address = ee[p].address,
         e.command_error \/ e.data = Words(Profile(p), ee[p].loading, <<0, 0, 0, 0>>),
         Worked(i, p, known, back)
  PROVE  Worked(i, p, known, back)'
<1>0. SiiUnderWay(i, p, known, back)
  BY DEF Worked, WorkSent
<1>1. ~(ee[p].busy)' /\ (ee[p].address)' = ee[p].address
  OBVIOUS
<1>2. ASSUME NEW CONSTANT a, Loading(p, a)
      PROVE  Loading(p, a)'
  <2>1. ee[p].loading = a
    BY <1>2 DEF Loading
  <2>2. Words(Profile(p), a, <<0, 0, 0, 0>>)' = Words(Profile(p), a, <<0, 0, 0, 0>>)
    <3>1. Profile(p)' = Profile(p)
      BY BusFrame
    <3>2. QED
      BY <3>1
  <2>3. (ee[p].command_error)' \/ Loaded(p, a)'
    BY <2>1, <2>2 DEF Loaded
  <2>4. QED
    BY <1>1, <2>3 DEF Loading
<1>3. ASSUME NEW CONSTANT r, SiiPrepared(r, p, back)
      PROVE  SiiPrepared(r, p, back)'
  BY <1>1, <1>2, <1>3 DEF SiiPrepared
<1>4. SiiUnderWay(i, p, known, back)'
  BY <1>0, <1>3 DEF SiiUnderWay
<1>5. SiiAnswered(i, p, known) => SiiAnswered(i, p, known)'
  <2>1. \A a : Words(Profile(p), a, <<0, 0, 0, 0>>)' = Words(Profile(p), a, <<0, 0, 0, 0>>)
    <3>1. Profile(p)' = Profile(p)
      BY BusFrame
    <3>2. QED
      BY <3>1
  <2>2. QED
    BY <1>1, <1>2, <2>1 DEF SiiAnswered
<1>6. QED
  BY <1>4, <1>5, EeWork

\* An EEPROM that has loaded, or has failed to, keeps the invariant.
LEMMA LoadsKeeps ==
  ASSUME NetworkInv, NEW CONSTANT s \in Pos, EepromLoads(s)
  PROVE  NetworkInv'
<1>0. /\ bus \in Buses /\ DevicesOk /\ CountersOk
      /\ bus' = bus /\ task' = task /\ network' = network /\ socket' = socket /\ regs' = regs
      /\ calls' = calls /\ miscounted' = miscounted /\ ignored' = ignored
      /\ al' = al /\ err' = err /\ pdi' = pdi /\ request' = request
      /\ ee[s].busy
  BY DEF NetworkInv, EepromLoads, alVars
<1>1. PICK d : d = Words(Profile(s), ee[s].loading, ee[s].data)
  OBVIOUS
<1>2. PICK e : \/ e = [ee[s] EXCEPT !.busy = FALSE, !.data = d] /\ ee' = [ee EXCEPT ![s] = e] /\ faults' = faults
               \/ /\ e = [ee[s] EXCEPT !.busy = FALSE, !.command_error = TRUE]
                  /\ ee' = [ee EXCEPT ![s] = e] /\ faults < MaxFaults /\ faults' = faults + 1
  <2>1. CASE /\ ee' = [ee EXCEPT ![s].busy = FALSE,
                            ![s].data = Words(Profile(s), ee[s].loading, @)]
             /\ faults' = faults
    <3>1. PICK e : e = [ee[s] EXCEPT !.busy = FALSE, !.data = d]
      OBVIOUS
    <3>2. ee' = [ee EXCEPT ![s] = e]
      BY <1>0, <1>1, <2>1, <3>1 DEF DevicesOk
    <3>3. QED
      BY <2>1, <3>1, <3>2
  <2>2. CASE /\ ee' = [ee EXCEPT ![s].busy = FALSE, ![s].command_error = TRUE]
             /\ faults < MaxFaults /\ faults' = faults + 1
    <3>1. PICK e : e = [ee[s] EXCEPT !.busy = FALSE, !.command_error = TRUE]
      OBVIOUS
    <3>2. ee' = [ee EXCEPT ![s] = e]
      BY <1>0, <2>2, <3>1 DEF DevicesOk
    <3>3. QED
      BY <2>2, <3>1, <3>2
  <2>3. QED
    BY <2>1, <2>2 DEF EepromLoads
<1>3. PICK old \in EeType : old = ee[s]
  BY <1>0 DEF DevicesOk
<1>4. s \in Slaves /\ (~Profile(s).long => old.data[3] = 0 /\ old.data[4] = 0)
  BY <1>0, <1>3 DEF DevicesOk
<1>5. old.data \in Word4 /\ old.loading \in 0 .. 28
  BY <1>3 DEF EeType
<1>6. d \in Word4
  BY <1>0, <1>1, <1>3, <1>4, <1>5, BusFacts, WordsType
<1>7. /\ d = Words(Profile(s), old.loading, <<0, 0, 0, 0>>)
      /\ ~Profile(s).long => d[3] = 0 /\ d[4] = 0
  BY <1>1, <1>3, <1>4, <1>5, WordsAgain
<1>8. faults \in Nat /\ faults' \in {faults, faults + 1} /\ faults' \in 0 .. MaxFaults
  BY <1>0, <1>2, BusAssumption DEF CountersOk
<1>9. /\ e \in EeType /\ e.busy = FALSE /\ e.address = old.address
      /\ e.command_error \/ e.data = d
      /\ e.data \in {d, old.data}
      /\ e.command_error => old.command_error \/ faults' > 0
  <2>1. /\ old.busy \in BOOLEAN /\ old.loading \in 0 .. 28 /\ old.address \in 0 .. 28
        /\ old.command_error \in BOOLEAN /\ old.data \in Word4
        /\ old = [busy |-> old.busy, loading |-> old.loading, address |-> old.address,
                  command_error |-> old.command_error, data |-> old.data]
    BY <1>3 DEF EeType
  <2>2. CASE e = [old EXCEPT !.busy = FALSE, !.data = d]
    <3>1. e = [busy |-> FALSE, loading |-> old.loading, address |-> old.address,
               command_error |-> old.command_error, data |-> d]
      BY <2>1, <2>2
    <3>2. QED
      BY <1>6, <2>1, <3>1 DEF EeType
  <2>3. CASE e = [old EXCEPT !.busy = FALSE, !.command_error = TRUE] /\ faults' = faults + 1
    <3>1. e = [busy |-> FALSE, loading |-> old.loading, address |-> old.address,
               command_error |-> TRUE, data |-> old.data]
      BY <2>1, <2>3
    <3>2. faults' > 0
      BY <1>8, <2>3
    <3>3. QED
      BY <2>1, <3>1, <3>2 DEF EeType
  <2>4. QED
    BY <1>2, <1>3, <2>2, <2>3
<1>10. SlaveFrame
  BY <1>0, <1>8 DEF SlaveFrame, CountersOk
<1>11. e.command_error => faults' > 0
  <2>1. old.command_error => faults > 0
    BY <1>0, <1>3 DEF DevicesOk
  <2>2. QED
    BY <1>8, <1>9, <2>1
<1>12. EeFrame(s, e)
  <2>1. ~Profile(s).long => e.data[3] = 0 /\ e.data[4] = 0
    BY <1>4, <1>7, <1>9
  <2>2. ee' = [ee EXCEPT ![s] = e]
    BY <1>2
  <2>3. QED
    BY <1>0, <1>4, <1>9, <1>10, <1>11, <2>1, <2>2 DEF EeFrame
<1>13. PICK i : i = task.init
  OBVIOUS
<1>14. PICK p : p = Len(network)
  OBVIOUS
<1>15. PICK known \in BOOLEAN : known = (p \notin ignored)
  OBVIOUS
<1>16. PICK back : back = socket.recv_flag
  OBVIOUS
<1>17. WorkOf(i, p, known, known, back)
  BY <1>0, <1>13, <1>14, <1>15, <1>16 DEF WorkOf
<1>18. ASSUME p = s, Worked(i, p, known, back), ee'[s] = e
       PROVE  Worked(i, p, known, back)'
  <2>1. faults > 0 => faults' > 0
    BY <1>8
  <2>2. e.command_error \/ e.data = Words(Profile(p), ee[p].loading, <<0, 0, 0, 0>>)
    BY <1>3, <1>7, <1>9, <1>18
  <2>3. ee[p].busy /\ e.busy = FALSE /\ e.address = ee[p].address /\ ee'[p] = e
    BY <1>0, <1>3, <1>9, <1>18
  <2>4. QED
    BY <1>0, <1>18, <2>1, <2>2, <2>3, LoadsWork
<1>19. QED
  BY <1>12, <1>17, <1>18, EeStepKeeps

----------------------------------------------------------------------------
\* The PDI reads.
LEMMA PdiWork ==
  ASSUME bus' = bus, socket' = socket, NEW CONSTANT i, NEW CONSTANT p, NEW CONSTANT known \in BOOLEAN,
         NEW CONSTANT back, faults > 0 => faults' > 0,
         al'[p] = al[p], err'[p] = err[p], request'[p] = request[p], regs'[p] = regs[p],
         pdi'[p] = pdi[p], pdi[p],
         known /\ i.state \in SiiStates => i.sii.state # "SetOwnership" /\ (i.sii.state = "Init" => ~back),
         Worked(i, p, known, back)
  PROVE  Worked(i, p, known, back)'
<1>0. SiiUnderWay(i, p, known, back)
  BY DEF Worked, WorkSent
<1>1. known /\ i.state \in SiiStates => i.sii.state = "Init" /\ ~back
  BY <1>0 DEF SiiUnderWay, SiiPrepared
<1>2. SiiUnderWay(i, p, known, back)'
  BY <1>0, <1>1 DEF SiiUnderWay, SiiPrepared
<1>3. back /\ SiiAnswered(i, p, known) => SiiAnswered(i, p, known)'
  BY <1>1 DEF SiiAnswered
<1>4. QED
  BY <1>2, <1>3, EeWork

\* A slave that takes or returns its EEPROM keeps the invariant.
LEMMA PdiKeeps ==
  ASSUME NetworkInv, NEW CONSTANT s \in Pos, PdiReads(s)
  PROVE  NetworkInv'
<1>0. /\ bus \in Buses /\ DevicesOk /\ CountersOk /\ IsTask(task)
      /\ bus' = bus /\ task' = task /\ network' = network /\ socket' = socket /\ regs' = regs
      /\ calls' = calls /\ miscounted' = miscounted
      /\ al' = al /\ err' = err /\ pdi' = pdi /\ request' = request
      /\ pdi[s] /\ faults < MaxFaults /\ faults' = faults + 1
      /\ ignored' = IF LookedBefore(s) THEN ignored \cup {s} ELSE ignored
  BY DEF NetworkInv, PdiReads, alVars
<1>1. PICK old \in EeType : old = ee[s]
  BY <1>0 DEF DevicesOk
<1>2. s \in Slaves /\ (~Profile(s).long => old.data[3] = 0 /\ old.data[4] = 0)
  BY <1>0, <1>1 DEF DevicesOk
<1>3. PICK e : e = [old EXCEPT !.busy = TRUE, !.loading = 0]
  OBVIOUS
<1>4. ee' = [ee EXCEPT ![s] = e]
  <2>1. ee' = [ee EXCEPT ![s].busy = TRUE, ![s].loading = 0]
    BY DEF PdiReads
  <2>2. QED
    BY <1>0, <1>1, <1>3, <2>1 DEF DevicesOk
<1>5. e \in EeType /\ e.data = old.data /\ e.command_error = old.command_error
  <2>1. /\ old.busy \in BOOLEAN /\ old.loading \in 0 .. 28 /\ old.address \in 0 .. 28
        /\ old.command_error \in BOOLEAN /\ old.data \in Word4
        /\ old = [busy |-> old.busy, loading |-> old.loading, address |-> old.address,
                  command_error |-> old.command_error, data |-> old.data]
    BY <1>1 DEF EeType
  <2>2. e = [busy |-> TRUE, loading |-> 0, address |-> old.address,
             command_error |-> old.command_error, data |-> old.data]
    BY <1>3, <2>1
  <2>3. QED
    BY <2>1, <2>2 DEF EeType
<1>6. faults \in Nat /\ faults' > 0 /\ faults' \in 0 .. MaxFaults
  BY <1>0, BusAssumption DEF CountersOk
<1>7. ignored \subseteq ignored' /\ ignored' \subseteq Pos
  BY <1>0 DEF CountersOk
<1>8. SlaveFrame
  BY <1>0, <1>6, <1>7 DEF SlaveFrame
<1>9. EeFrame(s, e)
  BY <1>0, <1>2, <1>4, <1>5, <1>6, <1>8 DEF EeFrame
<1>10. PICK i : i = task.init
  OBVIOUS
<1>11. PICK p : p = Len(network)
  OBVIOUS
<1>12. PICK k1 \in BOOLEAN : k1 = (p \notin ignored)
  OBVIOUS
<1>13. PICK k2 \in BOOLEAN : k2 = (p \notin ignored')
  OBVIOUS
<1>14. PICK back : back = socket.recv_flag
  OBVIOUS
<1>15. WorkOf(i, p, k1, k2, back)
  BY <1>10, <1>11, <1>12, <1>13, <1>14 DEF WorkOf
<1>16. ASSUME p = s, Worked(i, p, k1, back), SlaveUnderWay,
              task.state \in {"StartInitSlaves", "WaitInitSlaves"}
       PROVE  Worked(i, p, k2, back)'
  <2>1. Worked(i, p, k2, back)
    BY <1>7, <1>12, <1>13, <1>16, LessWorked
  <2>2. i.position = p
    BY <1>16 DEF Worked, WorkSent
  <2>3. ASSUME k2, i.state \in SiiStates
        PROVE  i.sii.state # "SetOwnership" /\ (i.sii.state = "Init" => ~back)
    <3>1. ~LookedBefore(p)
      BY <1>0, <1>13, <1>16, <2>3
    <3>2. task.state = "WaitInitSlaves"
      BY <1>0, <1>10, <1>16, <2>3 DEF SlaveUnderWay, SiiStates
    <3>3. QED
      BY <1>10, <1>14, <2>2, <2>3, <3>1, <3>2 DEF LookedBefore
  <2>4. QED
    BY <1>0, <1>6, <1>16, <2>1, <2>3, PdiWork
<1>17. QED
  BY <1>9, <1>15, <1>16, EeStepKeeps

\* The registers of slave p after a write.
RegsEffect(g, p, reg, value) ==
  /\ IsRegs(g) /\ g.dirty \subseteq regs[p].dirty
  /\ reg[1] \notin {"FixedStationAddress", "SyncManagerActivation"} => reg \notin g.dirty
  /\ g.station = IF reg[1] = "FixedStationAddress" THEN value.data ELSE regs[p].station
  /\ \A n \in SmNumber :
       g.sm[n] = IF reg[1] = "SyncManagerControl" /\ n = reg[2] THEN value.data ELSE regs[p].sm[n]
  /\ reg[1] \notin {"SyncManagerControl", "SyncManagerActivation"} => g.active = regs[p].active
  /\ reg[1] = "SyncManagerControl" /\ ~value.all => g.active = regs[p].active
  /\ reg[1] = "SyncManagerActivation" =>
       g.active = IF value.data THEN regs[p].active \cup {reg[2]} ELSE regs[p].active \ {reg[2]}

\* What a write makes of the registers.
LEMMA RegsWritten ==
  ASSUME NEW p, NEW reg, NEW value, IsRegs(regs[p]), NEW g, g = RegsAfterWrite(p, reg, value)
  PROVE  RegsEffect(g, p, reg, value)
<1>1. PICK h : h = regs[p]
  OBVIOUS
<1>2. /\ h = [dirty |-> h.dirty, station |-> h.station, sm |-> h.sm, active |-> h.active]
      /\ h.sm = [n \in SmNumber |-> h.sm[n]]
  BY <1>1 DEF IsRegs
<1>3. PICK clean : clean = [h EXCEPT !.dirty = @ \ {reg}]
  OBVIOUS
<1>4. clean = [dirty |-> h.dirty \ {reg}, station |-> h.station, sm |-> h.sm, active |-> h.active]
  BY <1>2, <1>3
<1>5. PICK n0 : n0 = reg[2]
  OBVIOUS
<1>6. CASE reg[1] = "FixedStationAddress"
  <2>1. g = [h EXCEPT !.station = value.data]
    BY <1>1, <1>6 DEF RegsAfterWrite
  <2>2. g = [dirty |-> h.dirty, station |-> value.data, sm |-> h.sm, active |-> h.active]
    BY <1>2, <2>1
  <2>3. QED
    BY <1>1, <1>2, <1>6, <2>2 DEF IsRegs, RegsEffect
<1>7. CASE reg[1] = "SyncManagerControl" /\ n0 \in SmNumber
  <2>1. PICK x : x = IF value.all THEN h.active \ {n0} ELSE h.active
    OBVIOUS
  <2>2. g = [clean EXCEPT !.sm[n0] = value.data, !.active = IF value.all THEN @ \ {n0} ELSE @]
    BY <1>1, <1>3, <1>5, <1>7 DEF RegsAfterWrite
  <2>3. PICK m : m = [h.sm EXCEPT ![n0] = value.data]
    OBVIOUS
  <2>4. g = [dirty |-> h.dirty \ {reg}, station |-> h.station, sm |-> m, active |-> x]
    BY <1>4, <2>1, <2>2, <2>3
  <2>5. /\ \A n \in SmNumber : m[n] = IF n = n0 THEN value.data ELSE h.sm[n]
        /\ m = [n \in SmNumber |-> m[n]]
    BY <1>2, <2>3
  <2>6. IsRegs(g)
    BY <2>4, <2>5 DEF IsRegs
  <2>7. /\ g.dirty \subseteq h.dirty /\ reg \notin g.dirty /\ g.station = h.station
        /\ \A n \in SmNumber : g.sm[n] = IF n = n0 THEN value.data ELSE h.sm[n]
        /\ ~value.all => g.active = h.active
    BY <2>1, <2>4, <2>5
  <2>8. QED
    BY <1>1, <1>5, <1>7, <2>6, <2>7 DEF RegsEffect
<1>8. CASE reg[1] = "SyncManagerActivation"
  <2>1. PICK x : x = IF value.data THEN h.active \cup {n0} ELSE h.active \ {n0}
    OBVIOUS
  <2>2. g = [h EXCEPT !.active = IF value.data THEN @ \cup {n0} ELSE @ \ {n0}]
    BY <1>1, <1>5, <1>8 DEF RegsAfterWrite
  <2>3. g = [dirty |-> h.dirty, station |-> h.station, sm |-> h.sm, active |-> x]
    BY <1>2, <2>1, <2>2
  <2>4. IsRegs(g)
    BY <1>2, <2>3 DEF IsRegs
  <2>5. g.dirty = h.dirty /\ g.station = h.station /\ g.sm = h.sm /\ g.active = x
    BY <2>3
  <2>6. QED
    BY <1>1, <1>5, <1>8, <2>1, <2>4, <2>5 DEF RegsEffect
<1>9. CASE /\ reg[1] \notin {"FixedStationAddress", "SyncManagerActivation"}
           /\ ~(reg[1] = "SyncManagerControl" /\ n0 \in SmNumber)
  <2>1. g = clean
    BY <1>1, <1>3, <1>5, <1>9 DEF RegsAfterWrite
  <2>2. IsRegs(g)
    BY <1>2, <1>4, <2>1 DEF IsRegs
  <2>3. g.dirty = h.dirty \ {reg} /\ g.station = h.station /\ g.sm = h.sm /\ g.active = h.active
    BY <1>4, <2>1
  <2>4. QED
    BY <1>1, <1>5, <1>9, <2>2, <2>3 DEF RegsEffect
<1>10. QED
  BY <1>6, <1>7, <1>8, <1>9

\* The EEPROM interface after a write.
EeEffect(e, p, reg, value) ==
  /\ e \in EeType /\ e.data = ee[p].data /\ (e.command_error => ee[p].command_error)
  /\ reg \notin {"SiiAddress", "SiiControl"} => e = ee[p]
  /\ reg = "SiiAddress" => e.address = value.data /\ e.busy = ee[p].busy
  /\ reg = "SiiControl" =>
       /\ e.address = ee[p].address
       /\ ~ee[p].busy /\ ~pdi[p] => e.busy = TRUE /\ e.loading = ee[p].address

\* What a write makes of the EEPROM interface.
LEMMA EeWritten ==
  ASSUME NEW p, NEW reg, NEW value, ee[p] \in EeType, pdi[p] \in BOOLEAN,
         reg = "SiiAddress" => value.data \in 0 .. 28, NEW e, e = EeAfterWrite(p, reg, value)
  PROVE  EeEffect(e, p, reg, value)
<1>1. PICK o \in EeType : o = ee[p]
  OBVIOUS
<1>2. /\ o.busy \in BOOLEAN /\ o.loading \in 0 .. 28 /\ o.address \in 0 .. 28
      /\ o.command_error \in BOOLEAN /\ o.data \in Word4
      /\ o = [busy |-> o.busy, loading |-> o.loading, address |-> o.address,
              command_error |-> o.command_error, data |-> o.data]
  BY <1>1 DEF EeType
<1>3. CASE reg = "SiiAddress"
  <2>1. e = [o EXCEPT !.address = value.data]
    BY <1>1, <1>3 DEF EeAfterWrite
  <2>2. e = [busy |-> o.busy, loading |-> o.loading, address |-> value.data,
             command_error |-> o.command_error, data |-> o.data]
    BY <1>2, <2>1
  <2>3. QED
    BY <1>1, <1>2, <1>3, <2>2 DEF EeType, EeEffect
<1>4. CASE reg = "SiiControl" /\ ~(o.busy \/ pdi[p])
  <2>1. e = [o EXCEPT !.busy = TRUE, !.loading = o.address, !.command_error = FALSE]
    BY <1>1, <1>4 DEF EeAfterWrite
  <2>2. e = [busy |-> TRUE, loading |-> o.address, address |-> o.address,
             command_error |-> FALSE, data |-> o.data]
    BY <1>2, <2>1
  <2>3. e \in EeType
    BY <1>2, <2>2 DEF EeType
  <2>4. e.data = o.data /\ e.command_error = FALSE /\ e.busy = TRUE /\ e.loading = o.address
        /\ e.address = o.address
    BY <2>2
  <2>5. QED
    BY <1>1, <1>4, <2>3, <2>4 DEF EeEffect
<1>5. CASE reg # "SiiAddress" /\ ~(reg = "SiiControl" /\ ~(o.busy \/ pdi[p]))
  <2>1. e = o
    BY <1>1, <1>5 DEF EeAfterWrite
  <2>2. QED
    BY <1>1, <1>5, <2>1 DEF EeEffect
<1>6. QED
  BY <1>3, <1>4, <1>5

OthersSame(p) ==
  \A x \in Pos : x # p => /\ err'[x] = err[x] /\ request'[x] = request[x] /\ pdi'[x] = pdi[x]
                          /\ ee'[x] = ee[x] /\ regs'[x] = regs[x]

WrittenAt(p, reg, value) ==
  /\ al' = al
  /\ err'[p] = (err[p] /\ ~(reg[1] = "AlControl" /\ value.ack))
  /\ request'[p] = IF reg[1] = "AlControl" /\ value.al # al[p] /\ (value.ack \/ ~err[p])
                   THEN value.al ELSE request[p]
  /\ pdi'[p] = IF reg[1] = "SiiAccess" THEN value.owner ELSE pdi[p]
  /\ ee'[p] = EeAfterWrite(p, reg[1], value)
  /\ regs'[p] = RegsAfterWrite(p, reg, value)

WriteAllowed(p, reg, value) ==
  /\ reg[1] = "SiiAddress" => value.data \in 0 .. 28
  /\ reg[1] = "SiiAccess" => value.owner \in BOOLEAN
  /\ reg[1] = "AlControl" =>
       /\ value.ack \in BOOLEAN
       /\ value.al = "Init" \/ (value.al = al[p] /\ request[p] = "none")

\* A write changes the slave at p and no other.
LEMMA WriteAt ==
  ASSUME DevicesOk, NEW p \in Pos, NEW reg, NEW value, Write(p, reg, value)
  PROVE  WrittenAt(p, reg, value) /\ OthersSame(p)
<1>0. /\ err \in [Pos -> BOOLEAN] /\ pdi \in [Pos -> BOOLEAN]
      /\ request \in [Pos -> {"none", "Init"}] /\ ee \in [Pos -> EeType]
      /\ regs = [x \in Pos |-> regs[x]]
  BY DEF DevicesOk
<1>1. PICK a : a = (err[p] /\ ~(reg[1] = "AlControl" /\ value.ack))
  OBVIOUS
<1>2. PICK b : b = IF reg[1] = "AlControl" /\ value.al # al[p] /\ (value.ack \/ ~err[p])
                   THEN value.al ELSE request[p]
  OBVIOUS
<1>3. PICK c : c = IF reg[1] = "SiiAccess" THEN value.owner ELSE pdi[p]
  OBVIOUS
<1>4. PICK e : e = EeAfterWrite(p, reg[1], value)
  OBVIOUS
<1>5. PICK g : g = RegsAfterWrite(p, reg, value)
  OBVIOUS
<1>6. /\ err' = [err EXCEPT ![p] = a] /\ request' = [request EXCEPT ![p] = b]
      /\ pdi' = [pdi EXCEPT ![p] = c] /\ ee' = [ee EXCEPT ![p] = e]
      /\ regs' = [regs EXCEPT ![p] = g] /\ al' = al
  BY <1>1, <1>2, <1>3, <1>4, <1>5 DEF Write
<1>7. OthersSame(p)
  BY <1>0, <1>6 DEF OthersSame
<1>8. err'[p] = a /\ request'[p] = b /\ pdi'[p] = c /\ ee'[p] = e /\ regs'[p] = g
  BY <1>0, <1>6
<1>9. QED
  BY <1>1, <1>2, <1>3, <1>4, <1>5, <1>6, <1>7, <1>8 DEF WrittenAt

\* What DevicesOk says of one slave.
DeviceOk(x) ==
  /\ err[x] => request[x] = "none"
  /\ ee[x].command_error => faults > 0
  /\ x \notin Slaves => ~ee[x].busy /\ ~pdi[x]
  /\ x \in Slaves /\ ~Profile(x).long => ee[x].data[3] = 0 /\ ee[x].data[4] = 0
  /\ IsRegs(regs[x])
  /\ x \in Slaves => regs[x].dirty \subseteq Registers(Profile(x))

\* What DevicesOk says of a slave that was not written.
LEMMA OtherDevice ==
  ASSUME bus' = bus, NEW CONSTANT x, DeviceOk(x), faults > 0 => faults' > 0,
         err'[x] = err[x], request'[x] = request[x], pdi'[x] = pdi[x], ee'[x] = ee[x], regs'[x] = regs[x]
  PROVE  DeviceOk(x)'
<1>1. Profile(x)' = Profile(x) /\ Slaves' = Slaves
  BY BusFrame
<1>2. IsRegs(regs[x])'
  BY DEF DeviceOk, IsRegs
<1>3. QED
  BY <1>1, <1>2 DEF DeviceOk

\* What DevicesOk says of the slave that was written.
LEMMA WrittenDevice ==
  ASSUME bus' = bus, DevicesOk, NEW CONSTANT p \in Pos, p \in Slaves, NEW CONSTANT reg, NEW CONSTANT value,
         WrittenAt(p, reg, value), WriteAllowed(p, reg, value), faults > 0 => faults' > 0
  PROVE  /\ DeviceOk(p)' /\ ee'[p] \in EeType /\ err'[p] \in BOOLEAN /\ pdi'[p] \in BOOLEAN
         /\ request'[p] \in {"none", "Init"}
<1>0. /\ err[p] \in BOOLEAN /\ pdi[p] \in BOOLEAN /\ request[p] \in {"none", "Init"}
      /\ ee[p] \in EeType /\ IsRegs(regs[p]) /\ regs[p].dirty \subseteq Registers(Profile(p))
      /\ (err[p] => request[p] = "none") /\ (ee[p].command_error => faults > 0)
      /\ (~Profile(p).long => ee[p].data[3] = 0 /\ ee[p].data[4] = 0)
  BY DEF DevicesOk
<1>1. Profile(p)' = Profile(p) /\ Slaves' = Slaves
  BY BusFrame
<1>2. /\ ee'[p] \in EeType /\ ee'[p].data = ee[p].data /\ (ee'[p].command_error => ee[p].command_error)
  <2>0. PICK name : name = reg[1]
    OBVIOUS
  <2>1. PICK e : e = EeAfterWrite(p, name, value)
    OBVIOUS
  <2>2. e \in EeType /\ e.data = ee[p].data /\ (e.command_error => ee[p].command_error)
    <3>1. name = "SiiAddress" => value.data \in 0 .. 28
      BY <2>0 DEF WriteAllowed
    <3>2. EeEffect(e, p, name, value)
      BY <1>0, <2>1, <3>1, EeWritten
    <3>3. QED
      BY <3>2 DEF EeEffect
  <2>3. ee'[p] = EeAfterWrite(p, reg[1], value)
    BY Zenon DEF WrittenAt
  <2>4. ee'[p] = e
    BY <2>0, <2>1, <2>3, Zenon
  <2>5. QED
    BY <2>2, <2>4, Zenon
<1>3. IsRegs(regs'[p]) /\ regs'[p].dirty \subseteq regs[p].dirty
  <2>1. PICK g : g = RegsAfterWrite(p, reg, value)
    OBVIOUS
  <2>2. IsRegs(g) /\ g.dirty \subseteq regs[p].dirty
    BY <1>0, <2>1, RegsWritten DEF RegsEffect
  <2>3. QED
    BY <2>1, <2>2 DEF WrittenAt
<1>4. err'[p] \in BOOLEAN
  <2>1. err'[p] = (err[p] /\ ~(reg[1] = "AlControl" /\ value.ack))
    BY DEF WrittenAt
  <2>2. QED
    BY <2>1, Zenon
<1>5. request'[p] \in {"none", "Init"} /\ (err'[p] => request'[p] = "none")
  <2>1. CASE reg[1] = "AlControl" /\ value.al # al[p] /\ (value.ack \/ ~err[p])
    BY <2>1 DEF WrittenAt, WriteAllowed
  <2>2. CASE ~(reg[1] = "AlControl" /\ value.al # al[p] /\ (value.ack \/ ~err[p]))
    <3>1. request'[p] = request[p]
      BY <2>2, Zenon DEF WrittenAt
    <3>2. err'[p] => err[p]
      BY Zenon DEF WrittenAt
    <3>3. QED
      BY <1>0, <3>1, <3>2
  <2>3. QED
    BY <2>1, <2>2
<1>6. pdi'[p] \in BOOLEAN
  BY <1>0 DEF WrittenAt, WriteAllowed
<1>7. DeviceOk(p)'
  <2>1. (err[p] => request[p] = "none")'
    BY <1>5
  <2>2. (ee[p].command_error => faults > 0)'
    BY <1>0, <1>2
  <2>3. (p \in Slaves /\ ~Profile(p).long => ee[p].data[3] = 0 /\ ee[p].data[4] = 0)'
    BY <1>0, <1>1, <1>2
  <2>4. IsRegs(regs[p])'
    BY <1>3
  <2>5. (p \in Slaves => regs[p].dirty \subseteq Registers(Profile(p)))'
    BY <1>0, <1>1, <1>3
  <2>6. QED
    BY <1>1, <2>1, <2>2, <2>3, <2>4, <2>5 DEF DeviceOk
<1>8. QED
  BY <1>2, <1>4, <1>5, <1>6, <1>7

\* A write that is allowed keeps every slave right.
LEMMA WriteKeepsDevices ==
  ASSUME bus' = bus, DevicesOk, NEW CONSTANT p \in Pos, p \in Slaves, NEW CONSTANT reg, NEW CONSTANT value,
         Write(p, reg, value), WriteAllowed(p, reg, value), faults > 0 => faults' > 0
  PROVE  DevicesOk'
<1>1. WrittenAt(p, reg, value) /\ OthersSame(p)
  BY WriteAt
<1>2. /\ DeviceOk(p)' /\ ee'[p] \in EeType /\ err'[p] \in BOOLEAN /\ pdi'[p] \in BOOLEAN
      /\ request'[p] \in {"none", "Init"}
  BY <1>1, WrittenDevice
<1>3. ASSUME NEW CONSTANT x \in Pos
      PROVE  DeviceOk(x)'
  <2>1. DeviceOk(x)
    BY DEF DevicesOk, DeviceOk
  <2>2. CASE x = p
    BY <1>2, <2>2
  <2>3. CASE x # p
    BY <1>1, <2>1, <2>3, OtherDevice DEF OthersSame
  <2>4. QED
    BY <2>2, <2>3
<1>4. /\ al' \in [Pos -> AlStates]
      /\ err' = [x \in Pos |-> err'[x]] /\ pdi' = [x \in Pos |-> pdi'[x]]
      /\ request' = [x \in Pos |-> request'[x]] /\ ee' = [x \in Pos |-> ee'[x]]
      /\ regs' = [x \in Pos |-> regs'[x]]
  <2>0. /\ err \in [Pos -> BOOLEAN] /\ pdi \in [Pos -> BOOLEAN] /\ al \in [Pos -> AlStates]
        /\ request \in [Pos -> {"none", "Init"}] /\ ee \in [Pos -> EeType]
        /\ regs = [x \in Pos |-> regs[x]]
    BY DEF DevicesOk
  <2>1. PICK a, b, c, e, g :
          /\ err' = [err EXCEPT ![p] = a] /\ request' = [request EXCEPT ![p] = b]
          /\ pdi' = [pdi EXCEPT ![p] = c] /\ ee' = [ee EXCEPT ![p] = e]
          /\ regs' = [regs EXCEPT ![p] = g] /\ al' = al
    BY Zenon DEF Write
  <2>2. QED
    BY <2>0, <2>1
<1>5. \A x \in Pos : /\ err'[x] \in BOOLEAN /\ pdi'[x] \in BOOLEAN
                     /\ request'[x] \in {"none", "Init"} /\ ee'[x] \in EeType
  BY <1>1, <1>2 DEF OthersSame, DevicesOk
<1>6. /\ err' \in [Pos -> BOOLEAN] /\ pdi' \in [Pos -> BOOLEAN]
      /\ request' \in [Pos -> {"none", "Init"}] /\ ee' \in [Pos -> EeType]
  BY <1>4, <1>5
<1>7. QED
  BY <1>3, <1>4, <1>6 DEF DevicesOk, DeviceOk

\* Which states write the sync managers and the station address.
LEMMA WriteRegisters ==
  ASSUME NEW i, i.state \in WriteStates, NEW reg, reg = RegisterOf(i)
  PROVE  /\ reg[1] = "SyncManagerControl" <=> i.state \in {"ClearSm", "SetSmControl"}
         /\ reg[1] = "SyncManagerActivation" <=> i.state = "SetSmActivation"
         /\ reg[1] = "FixedStationAddress" <=> i.state = "SetStationAddress"
         /\ i.state \in {"ClearSm", "SetSmControl", "SetSmActivation"} => reg[2] = i.n
<1>1. CASE i.state \in {"SetLoopPort", "ResetErrorCount", "SetWatchDogDivider", "DisableDlWatchDog", "DisableSmWatchDog"}
  BY <1>1 DEF RegisterOf, SiiStates
<1>2. CASE i.state \in {"ClearFmmu", "ClearSm", "SetSmControl", "SetSmActivation", "SetStationAddress"}
  BY <1>2 DEF RegisterOf, SiiStates
<1>3. CASE i.state \in {"ClearDcActivation", "ClearCyclicOperationStartTime", "ClearSync0CycleTime", "ClearSync1CycleTime"}
  BY <1>3 DEF RegisterOf, SiiStates
<1>4. QED
  BY <1>1, <1>2, <1>3 DEF WriteStates

\* What those states write.
LEMMA WriteValues ==
  ASSUME NEW i
  PROVE  /\ i.state = "SetSmControl" => ValueOf(i) = SmValue(i.info.sm[i.n])
         /\ i.state = "SetSmActivation" => ValueOf(i) = IsMailbox(i.info.sm[i.n])
         /\ i.state = "SetStationAddress" => ValueOf(i) = i.position + 1
<1>0. PICK sm : sm = i.info.sm[i.n]
  OBVIOUS
<1>1. CASE i.state = "SetSmControl"
  <2>0. PICK mailbox \in BOOLEAN : mailbox <=> IsMailbox(sm)
    BY DEF IsMailbox
  <2>1. CASE mailbox
    <3>1. ValueOf(i) = sm
      BY <1>0, <1>1, <2>0, <2>1 DEF ValueOf, SiiStates
    <3>2. QED
      BY <1>0, <1>1, <2>0, <2>1, <3>1 DEF SmValue
  <2>2. CASE ~mailbox
    <3>1. ValueOf(i) = NoSm
      BY <1>0, <1>1, <2>0, <2>2 DEF ValueOf, SiiStates
    <3>2. QED
      BY <1>0, <1>1, <2>0, <2>2, <3>1 DEF SmValue
  <2>3. QED
    BY <1>1, <2>1, <2>2
<1>2. CASE i.state = "SetSmActivation"
  BY <1>2 DEF ValueOf, SiiStates
<1>3. CASE i.state = "SetStationAddress"
  BY <1>3 DEF ValueOf, SiiStates
<1>4. QED
  BY <1>1, <1>2, <1>3

\* A slave with less to reset is as far as it was.
LEMMA DoneShrinks ==
  ASSUME NEW CONSTANT i, NEW CONSTANT p, al'[p] = al[p], regs'[p].dirty \subseteq regs[p].dirty,
         \A n \in SmNumber : regs'[p].sm[n] = regs[p].sm[n],
         regs'[p].active = regs[p].active, regs'[p].station = regs[p].station, SlaveDone(i, p)
  PROVE  SlaveDone(i, p)'
  BY DEF SlaveDone

\* A write of the task itself: the slave is as far as it was, and the write was executed.
LEMMA WriteDone ==
  ASSUME bus' = bus, bus \in Buses, NEW CONSTANT i \in InitType, NEW CONSTANT p \in Slaves,
         i.state \in WriteStates, i.position = p, CountsRight(i), SlaveDone(i, p), al'[p] = al[p],
         regs[p].dirty \subseteq Registers(Profile(p)),
         NEW CONSTANT reg, reg = RegisterOf(i), NEW CONSTANT value,
         value = [data |-> ValueOf(i), all |-> i.state = "ClearSm", owner |-> FALSE],
         RegsEffect(regs'[p], p, reg, value)
  PROVE  SlaveDone(i, p)' /\ WriteAnswered(i, p)'
<1>0. /\ value.data = ValueOf(i) /\ value.all = (i.state = "ClearSm") /\ i.n \in 0 .. 4
  BY DEF InitType
<1>1. PICK g : g = regs'[p]
  OBVIOUS
<1>2. PICK r : r = Rank(i)
  OBVIOUS
<1>3. /\ reg[1] = "SyncManagerControl" <=> i.state \in {"ClearSm", "SetSmControl"}
      /\ reg[1] = "SyncManagerActivation" <=> i.state = "SetSmActivation"
      /\ reg[1] = "FixedStationAddress" <=> i.state = "SetStationAddress"
      /\ i.state \in {"ClearSm", "SetSmControl", "SetSmActivation"} => reg[2] = i.n
  BY WriteRegisters
<1>4. /\ i.state = "ClearSm" => r = 20 + i.n
      /\ i.state = "SetSmControl" => r = 40 + 2 * i.n
      /\ i.state = "SetSmActivation" => r = 41 + 2 * i.n
      /\ i.state = "SetStationAddress" => r = 50
  BY <1>2, RankValues
<1>5. RegsEffect(g, p, reg, value)
  BY <1>1
<1>6. /\ g.dirty \subseteq regs[p].dirty
      /\ reg[1] \notin {"FixedStationAddress", "SyncManagerActivation"} => reg \notin g.dirty
      /\ i.state # "SetStationAddress" => g.station = regs[p].station
      /\ i.state = "SetStationAddress" => g.station = ValueOf(i)
      /\ i.state \notin {"ClearSm", "SetSmActivation"} => g.active = regs[p].active
      /\ i.state = "SetSmActivation" =>
           g.active = IF ValueOf(i) THEN regs[p].active \cup {i.n} ELSE regs[p].active \ {i.n}
  BY <1>0, <1>3, <1>5 DEF RegsEffect
<1>7. \A n \in SmNumber :
        g.sm[n] = IF i.state \in {"ClearSm", "SetSmControl"} /\ n = i.n THEN ValueOf(i) ELSE regs[p].sm[n]
  BY <1>0, <1>3, <1>5 DEF RegsEffect
<1>8. SlaveDone(i, p)'
  <2>1. /\ r > 2 => al[p] = "Init"
        /\ \A x \in regs[p].dirty : r <= ResetAt(x)
        /\ r > 50 => regs[p].station = p + 1 /\ i.info.configured_address = p + 1
    BY <1>2 DEF SlaveDone
  <2>2. ASSUME NEW CONSTANT n \in SmNumber
        PROVE  /\ r > 40 + 2 * n => g.sm[n] = SmValue(i.info.sm[n])
               /\ r > 41 + 2 * n => (n \in g.active <=> IsMailbox(i.info.sm[n]))
    <3>1. /\ r > 40 + 2 * n => regs[p].sm[n] = SmValue(i.info.sm[n])
          /\ r > 41 + 2 * n => (n \in regs[p].active <=> IsMailbox(i.info.sm[n]))
      BY <1>2 DEF SlaveDone
    <3>2. r > 40 + 2 * n => i.state # "ClearSm" /\ (i.state = "SetSmControl" => n # i.n)
      BY <1>0, <1>4 DEF SmNumber
    <3>3. r > 41 + 2 * n => i.state # "ClearSm" /\ (i.state = "SetSmActivation" => n # i.n)
      BY <1>0, <1>4 DEF SmNumber
    <3>4. r > 40 + 2 * n => g.sm[n] = regs[p].sm[n]
      BY <1>7, <3>2
    <3>5. r > 41 + 2 * n => (n \in g.active <=> n \in regs[p].active)
      BY <1>6, <3>3
    <3>6. QED
      BY <3>1, <3>4, <3>5
  <2>3. r > 50 => g.station = p + 1
    BY <1>4, <1>6, <2>1
  <2>4. \A x \in g.dirty : r <= ResetAt(x)
    BY <1>6, <2>1
  <2>5. QED
    BY <1>1, <1>2, <2>1, <2>2, <2>3, <2>4 DEF SlaveDone
<1>9. WriteAnswered(i, p)'
  <2>1. reg \notin g.dirty
    <3>1. CASE reg[1] \in {"FixedStationAddress", "SyncManagerActivation"}
      <4>1. IsProfile(Profile(p))
        BY BusFacts
      <4>2. reg \notin Registers(Profile(p))
        BY <3>1, <4>1, RegisterForm DEF SingleRegisters
      <4>3. QED
        BY <1>6, <4>2
    <3>2. QED
      BY <1>6, <3>1
  <2>2. i.state = "SetSmControl" => g.sm[i.n] = SmValue(i.info.sm[i.n])
    BY <1>7, WriteValues DEF CountsRight
  <2>3. i.state = "SetSmActivation" => (i.n \in g.active <=> IsMailbox(i.info.sm[i.n]))
    BY <1>6, WriteValues
  <2>4. i.state = "SetStationAddress" => g.station = p + 1
    BY <1>6, WriteValues
  <2>5. QED
    BY <1>1, <2>1, <2>2, <2>3, <2>4 DEF WriteAnswered
<1>10. QED
  BY <1>8, <1>9

\* The PDU q comes back with the working counter w and the answer a.
Back(q, w, a) ==
  /\ q = socket /\ q # NoPdu /\ q.recv_flag = FALSE
  /\ socket' = [q EXCEPT !.recv_flag = TRUE, !.wkc = w, !.answer = a]
  /\ bus' = bus /\ task' = task /\ network' = network /\ calls' = calls
  /\ ignored' = ignored /\ miscounted' = miscounted /\ al' = al
  /\ faults' \in {faults, faults + 1} /\ faults' \in 0 .. MaxFaults

Counter(q, w) == w \in 0 .. Len(bus.slaves) /\ (q.command # CountCommand => w \in {0, 1})

Answer(z, q, w, a) ==
  /\ z # NoPdu /\ z.recv_flag = TRUE /\ z.wkc = w /\ z.answer = a
  /\ z.command = q.command /\ z.position = q.position /\ z.value = q.value

\* The PDU that is back is the one that was sent, with a counter and an answer.
LEMMA BackPdu ==
  ASSUME bus' = bus, NEW CONSTANT q, PduOk(q), WriteOk(q), q # NoPdu,
         NEW CONSTANT w, NEW CONSTANT a, Counter(q, w), Back(q, w, a),
         NEW CONSTANT z, z = socket'
  PROVE  PduOk(z)' /\ WriteOk(z)' /\ Answer(z, q, w, a)
<1>1. q = [command |-> q.command, position |-> q.position, value |-> q.value,
           recv_flag |-> q.recv_flag, wkc |-> q.wkc, answer |-> q.answer]
  BY DEF PduOk
<1>2. z = [command |-> q.command, position |-> q.position, value |-> q.value,
           recv_flag |-> TRUE, wkc |-> w, answer |-> a]
  BY <1>1 DEF Back
<1>3. /\ z.recv_flag = TRUE /\ z.wkc = w /\ z.answer = a
      /\ z.command = q.command /\ z.position = q.position /\ z.value = q.value
  BY <1>2
<1>4. z # NoPdu
  BY <1>3 DEF NoPdu
<1>5. PduOk(z)'
  <2>1. Slaves' = Slaves
    BY BusFrame
  <2>2. \/ q.command = CountCommand /\ q.position = -1
        \/ /\ q.command.op \in {"APRD", "APWR"} /\ q.position \in Slaves
           /\ q.command = [op |-> q.command.op, reg |-> q.command.reg]
    BY DEF PduOk
  <2>3. CountCommand.op = "BWR"
    BY DEF CountCommand
  <2>4. QED
    BY <1>2, <1>3, <2>1, <2>2, <2>3 DEF PduOk, Counter
<1>6. WriteOk(z)'
  BY <1>3 DEF WriteOk
<1>7. QED
  BY <1>3, <1>4, <1>5, <1>6 DEF Answer

\* An exchange keeps the invariant if it keeps the work under way and the slaves that were
\* pushed.
LEMMA BackKeeps ==
  ASSUME NetworkInv, NEW CONSTANT q, NEW CONSTANT w, NEW CONSTANT a, Back(q, w, a), DevicesOk',
         Counter(q, w),
         q.command = CountCommand /\ faults' = 0 => w = Len(bus.slaves),
         task.state \in {"StartInitSlaves", "WaitInitSlaves"} /\ SlaveUnderWay =>
           /\ SlaveUnderWay'
           /\ \A x \in 0 .. Len(network) - 1 : regs'[x] = regs[x]
  PROVE  NetworkInv'
<1>0. /\ bus \in Buses /\ IsTask(task) /\ NetworkOk /\ SocketOk /\ CountersOk /\ SlavesRight /\ TaskRight
      /\ Excused
      /\ q = socket /\ q # NoPdu /\ q.recv_flag = FALSE
      /\ socket' = [q EXCEPT !.recv_flag = TRUE, !.wkc = w, !.answer = a]
      /\ bus' = bus /\ task' = task /\ network' = network /\ calls' = calls
      /\ ignored' = ignored /\ miscounted' = miscounted /\ al' = al
      /\ faults' \in {faults, faults + 1} /\ faults' \in 0 .. MaxFaults
  BY DEF NetworkInv, Back
<1>1. faults \in Nat /\ faults' \in Nat /\ faults' >= faults /\ (faults > 0 => faults' > 0)
  BY <1>0, BusAssumption DEF CountersOk
<1>2. PICK z : z = socket'
  OBVIOUS
<1>3. PduOk(q) /\ WriteOk(q)
  BY <1>0 DEF SocketOk
<1>4. PduOk(z)' /\ WriteOk(z)' /\ Answer(z, q, w, a)
  BY <1>0, <1>2, <1>3, BackPdu
<1>5. /\ socket' = z /\ z # NoPdu /\ z.recv_flag = TRUE /\ z.wkc = w /\ z.command = q.command
  BY <1>2, <1>4 DEF Answer
<1>6. IsTask(task)' /\ NetworkOk' /\ CountersOk'
  BY <1>0 DEF IsTask, NetworkOk, CountersOk
<1>7. Busy \/ task.error = "GivenUp"
  BY <1>0 DEF SocketOk
<1>8. task.state # "Complete"
  BY <1>0, <1>7 DEF TaskRight, Busy, NetworkBusy
<1>9. SocketOk'
  BY <1>0, <1>4, <1>5, <1>7 DEF SocketOk, Busy
<1>10. TaskRight'
  <2>1. Counting => Counting'
    BY <1>0, <1>1, <1>4, <1>5 DEF Counting
  <2>2. QED
    BY <1>0, <1>1, <2>1 DEF TaskRight
<1>11. SlavesRight'
  <2>1. ASSUME NEW CONSTANT k \in 1 .. Len(network), NEW CONSTANT info \in {network[k].info}
        PROVE  /\ OwnInfo(k - 1, info)'
               /\ task.state \in {"StartInitSlaves", "WaitInitSlaves"} => ReadySlave(k - 1, info)'
    <3>1. OwnInfo(k - 1, info)
      BY <1>0 DEF SlavesRight
    <3>2. OwnInfo(k - 1, info)'
      BY <1>0, <3>1, OwnFrame
    <3>3. ASSUME task.state \in {"StartInitSlaves", "WaitInitSlaves"}
          PROVE  ReadySlave(k - 1, info)'
      <4>1. ReadySlave(k - 1, info) /\ SlaveUnderWay
        BY <1>0, <3>3 DEF SlavesRight, TaskRight
      <4>2. PICK x : x = k - 1
        OBVIOUS
      <4>3. x \in 0 .. Len(network) - 1
        BY <1>0, <4>2 DEF NetworkOk
      <4>4. regs'[x] = regs[x]
        BY <3>3, <4>1, <4>3
      <4>5. QED
        BY <1>0, <4>1, <4>2, <4>4, ReadyFrame
    <3>4. QED
      BY <3>2, <3>3
  <2>2. CountKept => CountKept'
    BY <1>0 DEF CountKept
  <2>3. QED
    BY <1>0, <1>8, <2>1, <2>2 DEF SlavesRight
<1>12. Excused'
  <2>1. PICK t : t = task
    OBVIOUS
  <2>2. PICK s : s = network
    OBVIOUS
  <2>3. Excuse(t, s)
    BY <1>0, <2>1, <2>2 DEF Excused
  <2>4. \A p : Profile(p)' = Profile(p)
    BY <1>0 DEF Profile
  <2>5. \A p : Unsupported(p)' <=> Unsupported(p)
    BY <2>4 DEF Unsupported
  <2>6. t.state # "panic"
    BY <1>0, <1>7, <2>1 DEF TaskRight, Busy, NetworkBusy
  <2>7. Excuse(t, s)'
    BY <1>0, <1>1, <2>3, <2>4, <2>5, <2>6 DEF Excuse
  <2>8. QED
    BY <1>0, <2>1, <2>2, <2>7 DEF Excused
<1>13. QED
  BY <1>0, <1>6, <1>9, <1>10, <1>11, <1>12 DEF NetworkInv

\* What an exchange does: the slave misses the PDU, is read, is written, or slaves are counted.
MissedBack(q, w) ==
  q.position \in Slaves /\ w = 0 /\ UNCHANGED deviceVars /\ faults' > 0

ReadBack(q, w, a) ==
  /\ q.position \in Slaves /\ q.command.op = "APRD" /\ w = 1
  /\ a = ReadOf(q.position, q.command.reg[1]) /\ UNCHANGED deviceVars

WriteBack(q, w) ==
  /\ q.position \in Slaves /\ q.command.op = "APWR" /\ w = 1
  /\ Write(q.position, q.command.reg, q.value)

CountBack(q, w) ==
  /\ q.command = CountCommand /\ q.position = -1 /\ w \in 0 .. Len(bus.slaves)
  /\ faults' = 0 => w = Len(bus.slaves)
  /\ UNCHANGED <<alVars, ee>>
  /\ \E reached \in SUBSET Slaves :
       regs' = [p \in Pos |-> IF p \in reached
                              THEN [regs[p] EXCEPT !.dirty = @ \ {CountCommand.reg}] ELSE regs[p]]

\* A working counter counts the slaves that were reached.
LEMMA Counts ==
  ASSUME bus \in Buses
  PROVE  /\ Cardinality({}) = 0 /\ \A x : Cardinality({x}) = 1
         /\ Cardinality(Slaves) = Len(bus.slaves)
         /\ \A reached \in SUBSET Slaves : Cardinality(reached) \in 0 .. Len(bus.slaves)
<1>1. Cardinality({}) = 0 /\ \A x : Cardinality({x}) = 1
  BY FS_EmptySet, FS_Singleton
<1>2. PICK n \in Nat : n = Len(bus.slaves)
  BY BusFacts
<1>3. Slaves = 0 .. n - 1
  BY <1>2 DEF Slaves
<1>4. IsFiniteSet(0 .. n - 1) /\ Cardinality(0 .. n - 1) = n
  <2>1. 0 \in Int /\ n - 1 \in Int
    OBVIOUS
  <2>2. Cardinality(0 .. n - 1) = IF 0 > n - 1 THEN 0 ELSE n - 1 - 0 + 1
    BY <2>1, FS_Interval
  <2>3. IsFiniteSet(0 .. n - 1)
    BY <2>1, FS_Interval
  <2>4. QED
    BY <2>2, <2>3
<1>5. IsFiniteSet(Slaves) /\ Cardinality(Slaves) = n
  BY <1>3, <1>4
<1>6. ASSUME NEW reached \in SUBSET Slaves
      PROVE  Cardinality(reached) \in 0 .. n
  <2>1. IsFiniteSet(reached) /\ Cardinality(reached) <= Cardinality(Slaves)
    BY <1>5, FS_Subset
  <2>2. Cardinality(reached) \in Nat
    BY <2>1, FS_CardinalityType
  <2>3. QED
    BY <1>5, <2>1, <2>2
<1>7. QED
  BY <1>1, <1>2, <1>5, <1>6

\* Every exchange is of one of these kinds.
LEMMA ExchangeKinds ==
  ASSUME NetworkInv, Exchange, NEW CONSTANT q, q = socket
  PROVE  \E w, a : /\ Back(q, w, a)
                   /\ MissedBack(q, w) \/ ReadBack(q, w, a) \/ WriteBack(q, w) \/ CountBack(q, w)
<1>0. /\ bus \in Buses /\ CountersOk /\ PduOk(q) /\ faults \in Nat /\ MaxFaults \in Nat
  BY BusAssumption DEF NetworkInv, SocketOk, CountersOk
<1>1. PICK asked : asked = IF q.command.op = "BWR" THEN Slaves ELSE {q.position}
  OBVIOUS
<1>2. PICK reached \in {asked, {}} \cup (IF q.command.op = "BWR" THEN SUBSET asked ELSE {}) :
        /\ IF reached = asked THEN UNCHANGED faults ELSE faults < MaxFaults /\ faults' = faults + 1
        /\ socket' = [socket EXCEPT
               !.recv_flag = TRUE, !.wkc = Cardinality(reached),
               !.answer = IF q.command.op = "APRD" /\ reached # {}
                          THEN ReadOf(socket.position, q.command.reg[1]) ELSE 0]
        /\ CASE q.command.op = "APWR" /\ reached # {} -> Write(socket.position, q.command.reg, socket.value)
             [] q.command.op = "BWR" ->
                  /\ regs' = [p \in Pos |-> IF p \in reached
                                            THEN [regs[p] EXCEPT !.dirty = @ \ {q.command.reg}] ELSE regs[p]]
                  /\ UNCHANGED <<alVars, ee>>
             [] OTHER -> UNCHANGED deviceVars
  BY <1>1, ZenonT(60) DEF Exchange
<1>3. /\ q # NoPdu /\ q.recv_flag = FALSE
      /\ bus' = bus /\ task' = task /\ network' = network /\ calls' = calls
      /\ ignored' = ignored /\ miscounted' = miscounted
  BY <1>0 DEF Exchange, PduOk
<1>4. \/ q.command = CountCommand /\ q.position = -1 /\ q.command.op = "BWR"
      \/ q.command.op \in {"APRD", "APWR"} /\ q.position \in Slaves
  BY <1>0, <1>3 DEF PduOk, CountCommand
<1>5. faults' \in {faults, faults + 1} /\ faults' \in 0 .. MaxFaults /\ (reached # asked => faults' > 0)
  BY <1>0, <1>2 DEF CountersOk
<1>6. PICK w : w = Cardinality(reached)
  OBVIOUS
<1>7. PICK a : a = IF q.command.op = "APRD" /\ reached # {}
                   THEN ReadOf(q.position, q.command.reg[1]) ELSE 0
  OBVIOUS
<1>8. socket' = [q EXCEPT !.recv_flag = TRUE, !.wkc = w, !.answer = a]
  BY <1>2, <1>6, <1>7, Zenon
<1>9. CASE q.command = CountCommand /\ q.position = -1 /\ q.command.op = "BWR"
  <2>1. asked = Slaves /\ reached \in SUBSET Slaves
    BY <1>1, <1>2, <1>9
  <2>2. /\ regs' = [p \in Pos |-> IF p \in reached
                         THEN [regs[p] EXCEPT !.dirty = @ \ {q.command.reg}] ELSE regs[p]]
        /\ UNCHANGED <<alVars, ee>>
    <3>1. "BWR" # "APWR"
      OBVIOUS
    <3>2. QED
      BY <1>2, <1>9, <3>1, Zenon
  <2>3. w \in 0 .. Len(bus.slaves) /\ (faults' = 0 => w = Len(bus.slaves))
    BY <1>0, <1>5, <1>6, <2>1, Counts
  <2>4. CountBack(q, w)
    BY <1>9, <2>1, <2>2, <2>3 DEF CountBack
  <2>5. al' = al
    BY <2>2 DEF alVars
  <2>6. Back(q, w, a)
    BY <1>3, <1>5, <1>8, <2>5 DEF Back
  <2>7. QED
    BY <2>4, <2>6
<1>10. CASE q.command.op \in {"APRD", "APWR"} /\ q.position \in Slaves
  <2>1. asked = {q.position} /\ reached \in {asked, {}} /\ q.command.op # "BWR"
    BY <1>1, <1>2, <1>10
  <2>2. CASE reached = {}
    <3>1. UNCHANGED deviceVars
      BY <1>2, <2>1, <2>2, Zenon
    <3>2. w = 0 /\ reached # asked
      BY <1>0, <1>6, <2>1, <2>2, Counts
    <3>3. MissedBack(q, w)
      BY <1>5, <1>10, <3>1, <3>2 DEF MissedBack
    <3>4. Back(q, w, a)
      BY <1>3, <1>5, <1>8, <3>1 DEF Back, deviceVars, alVars
    <3>5. QED
      BY <3>3, <3>4
  <2>3. CASE reached = asked /\ q.command.op = "APRD"
    <3>0. "APRD" # "APWR" /\ reached # {}
      BY <2>1, <2>3
    <3>1. UNCHANGED deviceVars
      BY <1>2, <2>1, <2>3, <3>0, Zenon
    <3>2. w = 1 /\ a = ReadOf(q.position, q.command.reg[1])
      <4>1. w = 1
        BY <1>0, <1>6, <2>1, <2>3, Counts
      <4>2. QED
        BY <1>7, <2>3, <3>0, <4>1, Zenon
    <3>3. ReadBack(q, w, a)
      BY <1>10, <2>3, <3>1, <3>2, Zenon DEF ReadBack
    <3>4. Back(q, w, a)
      BY <1>3, <1>5, <1>8, <3>1 DEF Back, deviceVars, alVars
    <3>5. QED
      BY <3>3, <3>4
  <2>4. CASE reached = asked /\ q.command.op = "APWR"
    <3>0. reached # {} /\ socket = q
      BY <2>1, <2>4
    <3>1. Write(q.position, q.command.reg, q.value)
      BY <1>2, <2>4, <3>0, Zenon
    <3>2. w = 1
      BY <1>0, <1>6, <2>1, <2>4, Counts
    <3>3. WriteBack(q, w)
      BY <1>10, <2>4, <3>1, <3>2 DEF WriteBack
    <3>4. Back(q, w, a)
      BY <1>3, <1>5, <1>8, <3>1 DEF Back, Write
    <3>5. QED
      BY <3>3, <3>4
  <2>5. QED
    BY <1>10, <2>1, <2>2, <2>3, <2>4
<1>11. QED
  BY <1>4, <1>9, <1>10

\* The PDU q that comes back is the one of the slave's task i.
OwnWork(q, i, p, known) ==
  /\ i = task.init /\ p = Len(network) /\ known = (p \notin ignored) /\ p \in Slaves
  /\ WorkSent(i, p, known, FALSE)
  /\ q.command = InitPdu(i).command /\ q.position = p /\ q.value = InitPdu(i).value

\* While a slave is initialised the PDU under way is that of its task.
LEMMA OwnWorkThere ==
  ASSUME NetworkInv, NEW CONSTANT q, NEW CONSTANT w, NEW CONSTANT a, Back(q, w, a), SlaveUnderWay,
         NEW CONSTANT i, i = task.init, NEW CONSTANT p, p = Len(network),
         NEW CONSTANT known \in BOOLEAN, known = (p \notin ignored)
  PROVE  OwnWork(q, i, p, known)
<1>0. /\ bus \in Buses /\ NetworkOk /\ q = socket /\ q # NoPdu /\ q.recv_flag = FALSE
  BY DEF NetworkInv, Back
<1>1. /\ i.position = p /\ p < task.num_slaves
      /\ (i.state = "Error" /\ socket = NoPdu) \/ WorkUnderWay(i, p, known, FALSE)
  BY <1>0 DEF SlaveUnderWay
<1>2. WorkSent(i, p, known, FALSE) /\ Own(i)
  BY <1>0, <1>1 DEF WorkUnderWay
<1>3. p \in Slaves
  <2>1. p \in Nat /\ task.num_slaves <= Len(bus.slaves) /\ Len(bus.slaves) \in Nat
    BY <1>0, BusFacts DEF NetworkOk
  <2>2. task.num_slaves \in Nat
    BY DEF NetworkInv, IsTask
  <2>3. QED
    BY <1>1, <2>1, <2>2 DEF Slaves
<1>4. PICK z : z = InitPdu(i)
  OBVIOUS
<1>5. q.command = z.command /\ q.position = z.position /\ q.value = z.value
  BY <1>0, <1>2, <1>4 DEF Own
<1>6. SentPdu(z, p)
  BY <1>0, <1>2, <1>3, <1>4, WorkPdu
<1>7. q.position = p
  BY <1>5, <1>6 DEF SentPdu
<1>8. QED
  BY <1>2, <1>3, <1>4, <1>5, <1>7 DEF OwnWork

\* The answer to the slave's task keeps the work under way.
LEMMA OwnBack ==
  ASSUME NetworkInv, NEW CONSTANT q, NEW CONSTANT w, NEW CONSTANT a, Back(q, w, a), Counter(q, w),
         SlaveUnderWay, NEW CONSTANT i, NEW CONSTANT p, NEW CONSTANT known, OwnWork(q, i, p, known),
         WorkSent(i, p, known, TRUE)', Answered(i, p, known)'
  PROVE  SlaveUnderWay'
<1>0. /\ q = socket /\ q # NoPdu /\ q.recv_flag = FALSE /\ task' = task /\ network' = network /\ ignored' = ignored
      /\ bus' = bus /\ PduOk(q) /\ WriteOk(q)
  BY DEF NetworkInv, Back, SocketOk
<1>1. /\ i = task.init /\ p = Len(network) /\ known = (p \notin ignored)
  BY DEF OwnWork
<1>2. /\ i.position = p /\ task.count = p /\ p < task.num_slaves
      /\ task.state = "StartInitSlaves" => i.state = "SetLoopPort"
      /\ Own(i)
  BY <1>0, <1>1 DEF SlaveUnderWay, WorkUnderWay
<1>3. PICK z : z = socket'
  OBVIOUS
<1>4. Answer(z, q, w, a)
  BY <1>0, <1>3, BackPdu
<1>5. Own(i)'
  <2>1. PICK y : y = InitPdu(i)
    OBVIOUS
  <2>2. InitPdu(i)' = y
    BY <2>1, PduSame
  <2>3. task.command = q.command /\ q.command = y.command /\ q.position = y.position /\ q.value = y.value
    BY <1>0, <1>2, <2>1 DEF Own
  <2>4. QED
    BY <1>0, <1>3, <1>4, <2>2, <2>3 DEF Own, Answer
<1>6. z.recv_flag = TRUE
  BY <1>4 DEF Answer
<1>7. WorkUnderWay(i, p, known, TRUE)'
  BY <1>5 DEF WorkUnderWay
<1>8. i = task'.init /\ p = Len(network') /\ TRUE = socket'.recv_flag /\ known = (Len(network') \notin ignored')
  BY <1>0, <1>1, <1>3, <1>6
<1>9. QED
  BY <1>0, <1>2, <1>7, <1>8 DEF SlaveUnderWay

\* What is prepared for a PDU under way is prepared for the same PDU once it is back.
LEMMA BackPrepared ==
  ASSUME NEW CONSTANT i, NEW CONSTANT p, NEW CONSTANT known \in BOOLEAN
  PROVE  /\ SiiUnderWay(i, p, known, FALSE) => SiiUnderWay(i, p, known, TRUE)
         /\ WorkSent(i, p, known, FALSE) => WorkSent(i, p, known, TRUE)
<1>1. \A r : SiiPrepared(r, p, FALSE) => SiiPrepared(r, p, TRUE)
  BY DEF SiiPrepared
<1>2. SiiUnderWay(i, p, known, FALSE) => SiiUnderWay(i, p, known, TRUE)
  BY <1>1 DEF SiiUnderWay
<1>3. QED
  BY <1>2, Zenon DEF WorkSent

\* A PDU that no slave has executed keeps the invariant.
LEMMA MissedKeeps ==
  ASSUME NetworkInv, NEW CONSTANT q, NEW CONSTANT w, NEW CONSTANT a, Back(q, w, a), MissedBack(q, w)
  PROVE  NetworkInv'
<1>0. /\ bus \in Buses /\ DevicesOk /\ CountersOk /\ bus' = bus /\ UNCHANGED deviceVars /\ w = 0
      /\ q.position \in Slaves /\ faults' > 0 /\ faults \in Nat /\ faults' \in {faults, faults + 1}
      /\ PduOk(q) /\ WriteOk(q)
  BY BusAssumption DEF NetworkInv, Back, MissedBack, CountersOk, SocketOk
<1>1. /\ al' = al /\ err' = err /\ request' = request /\ pdi' = pdi /\ ee' = ee /\ regs' = regs
  BY <1>0 DEF deviceVars, alVars
<1>2. DevicesOk'
  BY <1>0, DeviceFrame
<1>3. Len(bus.slaves) \in Nat
  BY <1>0, BusFacts
<1>4. Counter(q, w)
  BY <1>0, <1>3 DEF Counter
<1>5. ASSUME SlaveUnderWay
      PROVE  SlaveUnderWay'
  <2>1. PICK i : i = task.init
    OBVIOUS
  <2>2. PICK p : p = Len(network)
    OBVIOUS
  <2>3. PICK known \in BOOLEAN : known = (p \notin ignored)
    OBVIOUS
  <2>4. OwnWork(q, i, p, known)
    BY <1>5, <2>1, <2>2, <2>3, OwnWorkThere
  <2>5. WorkSent(i, p, known, TRUE)
    BY <2>4, BackPrepared DEF OwnWork
  <2>6. WorkSent(i, p, known, TRUE)'
    BY <1>0, <1>1, <2>5, WorkFrame
  <2>7. Answered(i, p, known)'
    <3>1. PICK z : z = socket'
      OBVIOUS
    <3>2. z.wkc = 0
      BY <1>0, <1>4, <3>1, BackPdu, ZenonT(60) DEF Answer, Back
    <3>3. QED
      BY <1>0, <3>1, <3>2 DEF Answered
  <2>8. QED
    BY <1>4, <1>5, <2>4, <2>6, <2>7, OwnBack
<1>6. QED
  BY <1>0, <1>1, <1>2, <1>4, <1>5, BackKeeps

\* A slave that is reached by the count has less to reset.
LEMMA CountKeepsDevices ==
  ASSUME bus' = bus, DevicesOk, faults > 0 => faults' > 0, NEW CONSTANT q, NEW CONSTANT w, CountBack(q, w)
  PROVE  DevicesOk'
<1>0. /\ al' = al /\ err' = err /\ request' = request /\ pdi' = pdi /\ ee' = ee
  BY DEF CountBack, alVars
<1>1. PICK reached \in SUBSET Slaves :
        regs' = [p \in Pos |-> IF p \in reached
                               THEN [regs[p] EXCEPT !.dirty = @ \ {CountCommand.reg}] ELSE regs[p]]
  BY Zenon DEF CountBack
<1>2. regs' = [p \in Pos |-> regs'[p]]
  BY <1>1
<1>3. ASSUME NEW CONSTANT x \in Pos
      PROVE  DeviceOk(x)'
  <2>1. DeviceOk(x)
    BY DEF DevicesOk, DeviceOk
  <2>2. CASE x \in reached
    <3>1. PICK g : g = regs[x]
      OBVIOUS
    <3>2. PICK c : c = CountCommand.reg
      OBVIOUS
    <3>3. regs'[x] = [g EXCEPT !.dirty = @ \ {c}]
      BY <1>1, <2>2, <3>1, <3>2
    <3>4. /\ g = [dirty |-> g.dirty, station |-> g.station, sm |-> g.sm, active |-> g.active]
          /\ g.sm = [n \in SmNumber |-> g.sm[n]]
      BY <2>1, <3>1 DEF DeviceOk, IsRegs
    <3>5. regs'[x] = [dirty |-> g.dirty \ {c}, station |-> g.station, sm |-> g.sm, active |-> g.active]
      BY <3>3, <3>4
    <3>6. IsRegs(regs[x])'
      BY <3>4, <3>5 DEF IsRegs
    <3>7. regs'[x].dirty \subseteq regs[x].dirty
      BY <3>1, <3>5
    <3>8. Profile(x)' = Profile(x) /\ Slaves' = Slaves
      BY BusFrame
    <3>9. QED
      BY <1>0, <2>1, <3>6, <3>7, <3>8 DEF DeviceOk
  <2>3. CASE x \notin reached
    <3>1. regs'[x] = regs[x]
      BY <1>1, <2>3
    <3>2. QED
      BY <1>0, <2>1, <3>1, OtherDevice
  <2>4. QED
    BY <2>2, <2>3
<1>4. /\ (al \in [Pos -> AlStates])' /\ (request \in [Pos -> {"none", "Init"}])'
      /\ (err \in [Pos -> BOOLEAN])' /\ (pdi \in [Pos -> BOOLEAN])' /\ (ee \in [Pos -> EeType])'
  BY <1>0 DEF DevicesOk
<1>5. QED
  BY <1>2, <1>3, <1>4 DEF DevicesOk, DeviceOk

\* The count, by all the slaves or only by some, keeps the invariant.
LEMMA CountKeeps ==
  ASSUME NetworkInv, NEW CONSTANT q, NEW CONSTANT w, NEW CONSTANT a, Back(q, w, a), CountBack(q, w)
  PROVE  NetworkInv'
<1>0. /\ bus \in Buses /\ DevicesOk /\ bus' = bus /\ faults \in Nat /\ faults' \in {faults, faults + 1}
  BY BusAssumption DEF NetworkInv, Back, CountersOk
<1>1. DevicesOk'
  BY <1>0, CountKeepsDevices
<1>2. Counter(q, w) /\ (faults' = 0 => w = Len(bus.slaves)) /\ q.position = -1
  BY DEF Counter, CountBack
<1>3. ~SlaveUnderWay
  <2>1. SUFFICES ASSUME SlaveUnderWay
                 PROVE  FALSE
    OBVIOUS
  <2>2. PICK i : i = task.init
    OBVIOUS
  <2>3. PICK p : p = Len(network)
    OBVIOUS
  <2>4. PICK known \in BOOLEAN : known = (p \notin ignored)
    OBVIOUS
  <2>5. OwnWork(q, i, p, known)
    BY <2>1, <2>2, <2>3, <2>4, OwnWorkThere
  <2>6. p \in Slaves /\ q.position = p
    BY <2>5 DEF OwnWork
  <2>7. QED
    BY <1>0, <1>2, <2>6, BusFacts DEF Slaves
<1>4. QED
  BY <1>1, <1>2, <1>3, BackKeeps

\* The command and the value of the slave's PDU, state by state.
LEMMA OwnCommands ==
  ASSUME NEW i \in InitType, NEW c, c = InitPdu(i).command, NEW v, v = InitPdu(i).value
  PROVE  /\ i.state \in WriteStates =>
              /\ c.op = "APWR" /\ c.reg = RegisterOf(i)
              /\ v = [data |-> ValueOf(i), all |-> i.state = "ClearSm", owner |-> FALSE]
         /\ i.state \in ReadStates => c.op = "APRD" /\ c.reg = RegisterOf(i)
         /\ i.state \in SiiStates =>
              /\ c.op = SiiOp(i.sii) /\ c.reg = <<SiiRegister(i.sii), 0>>
              /\ v.data = i.sii.address /\ v.owner = FALSE
         /\ i.state = "RequestInitState" =>
              /\ c.op = IF i.al.state \in {"Read", "Poll"} THEN "APRD" ELSE "APWR"
              /\ c.reg = <<AlRegister(i.al), 0>>
              /\ v.al = IF i.al.state = "Request" THEN i.al.target ELSE i.al.reset
              /\ v.ack = (i.al.state = "ResetError") /\ v.owner = TRUE
<1>1. \A op, reg, position, value :
        /\ Pdu(op, reg, position, value).command = [op |-> op, reg |-> reg]
        /\ Pdu(op, reg, position, value).value = value
  BY PduForm
<1>2. CASE i.state \in WriteStates
  <2>1. PICK value : value = [data |-> ValueOf(i), all |-> i.state = "ClearSm", owner |-> FALSE]
    OBVIOUS
  <2>2. InitPdu(i) = Pdu("APWR", RegisterOf(i), i.position, value)
    BY <1>2, <2>1, WritePdu
  <2>3. c = [op |-> "APWR", reg |-> RegisterOf(i)] /\ v = value
    BY <1>1, <2>2
  <2>4. QED
    BY <1>2, <2>1, <2>3, StateNames
<1>3. CASE i.state \in ReadStates
  <2>1. PICK value : value = [data |-> ValueOf(i), all |-> i.state = "ClearSm", owner |-> FALSE]
    OBVIOUS
  <2>2. InitPdu(i) = Pdu("APRD", RegisterOf(i), i.position, value)
    BY <1>3, <2>1, ReadPdu
  <2>3. c = [op |-> "APRD", reg |-> RegisterOf(i)]
    BY <1>1, <2>2
  <2>4. QED
    BY <1>3, <2>3, StateNames
<1>4. CASE i.state \in SiiStates
  <2>1. PICK value : value = [data |-> i.sii.address, all |-> i.state = "ClearSm", owner |-> FALSE]
    OBVIOUS
  <2>2. InitPdu(i) = Pdu(SiiOp(i.sii), <<SiiRegister(i.sii), 0>>, i.position, value)
    BY <1>4, <2>1, SiiPdu
  <2>3. c = [op |-> SiiOp(i.sii), reg |-> <<SiiRegister(i.sii), 0>>] /\ v = value
    BY <1>1, <2>2
  <2>4. QED
    BY <1>4, <2>1, <2>3, StateNames
<1>5. CASE i.state = "RequestInitState"
  <2>0. PICK t : t = i.al
    OBVIOUS
  <2>1. PICK value : value = [al |-> IF t.state = "Request" THEN t.target ELSE t.reset,
                              ack |-> t.state = "ResetError", owner |-> TRUE]
    OBVIOUS
  <2>2. InitPdu(i) = Pdu(IF t.state \in {"Read", "Poll"} THEN "APRD" ELSE "APWR",
                         <<AlRegister(t), 0>>, i.position, value)
    BY <1>5, <2>0, <2>1, AlPdu
  <2>3. c = [op |-> IF t.state \in {"Read", "Poll"} THEN "APRD" ELSE "APWR", reg |-> <<AlRegister(t), 0>>]
        /\ v = value
    BY <1>1, <2>2
  <2>4. QED
    BY <1>5, <2>0, <2>1, <2>3, StateNames
<1>6. QED
  BY <1>2, <1>3, <1>4, <1>5

\* What a slave answers to the transfer and to the SII reader.
LEMMA ReadValues ==
  ASSUME NEW p
  PROVE  /\ ReadOf(p, "AlStatus") = [bits |-> AL!Bits(al[p]), change_err |-> err[p]]
         /\ ReadOf(p, "SiiControl").busy = ee[p].busy
         /\ ReadOf(p, "SiiControl").command_error = ee[p].command_error
         /\ ReadOf(p, "SiiData") = ee[p].data
<1>1. ReadOf(p, "AlStatus") = [bits |-> AL!Bits(al[p]), change_err |-> err[p]]
  BY Zenon DEF ReadOf
<1>2. ReadOf(p, "SiiControl").busy = ee[p].busy /\ ReadOf(p, "SiiControl").command_error = ee[p].command_error
  BY DEF ReadOf
<1>3. ReadOf(p, "SiiData") = ee[p].data
  BY DEF ReadOf
<1>4. QED
  BY <1>1, <1>2, <1>3

\* What was read is as the slave's task will rely on it.
LEMMA ReadIsAnswered ==
  ASSUME bus \in Buses, bus' = bus, DevicesOk, faults > 0 => faults' > 0, NEW CONSTANT q, NEW CONSTANT w,
         NEW CONSTANT answer, ReadBack(q, w, answer), Answer(socket', q, w, answer),
         NEW CONSTANT i, NEW CONSTANT p, NEW CONSTANT known \in BOOLEAN, OwnWork(q, i, p, known)
  PROVE  Answered(i, p, known)'
<1>a. PICK c : c = q.command
  OBVIOUS
<1>b. /\ UNCHANGED deviceVars /\ WorkSent(i, p, known, FALSE) /\ c = InitPdu(i).command
      /\ c.op = "APRD" /\ answer = ReadOf(p, c.reg[1]) /\ socket'.answer = answer /\ socket'.wkc = 1
      /\ p \in Pos
  BY <1>a, BusFacts DEF ReadBack, Answer, OwnWork
<1>0. /\ i \in InitType /\ SiiUnderWay(i, p, known, FALSE)
      /\ al' = al /\ err' = err /\ request' = request /\ pdi' = pdi /\ ee' = ee /\ regs' = regs
      /\ al[p] \in AlStates /\ err[p] \in BOOLEAN /\ (err[p] => request[p] = "none")
      /\ ee[p] \in EeType /\ (ee[p].command_error => faults > 0)
  BY <1>b DEF WorkSent, deviceVars, alVars, DevicesOk
<1>1. i.state \notin WriteStates
  BY <1>0, <1>b, OwnCommands
<1>2. WriteAnswered(i, p)'
  BY <1>1 DEF WriteAnswered, WriteStates
<1>3. ReadAnswered(i, p)'
  <2>1. CASE i.state = "CheckDlStatus"
    <3>1. c.reg = <<"DlStatus", 0>>
      BY <1>b, <1>0, <2>1, OwnCommands DEF ReadStates, RegisterOf, SiiStates
    <3>2. answer = ReadOf(p, "DlStatus")
      BY <1>b, <3>1
    <3>3. QED
      BY <1>b, <2>1, <3>2, ReadSame DEF ReadAnswered
  <2>2. CASE i.state = "CheckDlInfo"
    <3>1. c.reg = <<"DlInformation", 0>>
      BY <1>b, <1>0, <2>2, OwnCommands DEF ReadStates, RegisterOf, SiiStates
    <3>2. answer = ReadOf(p, "DlInformation")
      BY <1>b, <3>1
    <3>3. QED
      BY <1>b, <2>2, <3>2, ReadSame DEF ReadAnswered
  <2>3. QED
    BY <2>1, <2>2 DEF ReadAnswered
<1>4. AlAnswered(i, p)'
  <2>1. ASSUME i.state = "RequestInitState", i.al.state \in {"Read", "Poll"}
        PROVE  /\ answer = [bits |-> AL!Bits(al[p]), change_err |-> err[p]]
    <3>1. c.reg = <<AlRegister(i.al), 0>> /\ AlRegister(i.al) = "AlStatus"
      BY <1>b, <1>0, <2>1, OwnCommands DEF AlRegister
    <3>2. answer = ReadOf(p, "AlStatus")
      BY <1>b, <3>1
    <3>3. QED
      BY <3>2, ReadValues
  <2>2. QED
    BY <1>b, <1>0, <2>1 DEF AlAnswered
<1>5. SiiAnswered(i, p, known)'
  <2>1. ASSUME i.state \in SiiStates
        PROVE  /\ i.sii.state \notin {"SetOwnership", "SetAddress", "SetReadOperation"}
               /\ i.sii.state \in {"Init", "Wait"} =>
                    answer.busy = ee[p].busy /\ answer.command_error = ee[p].command_error
               /\ i.sii.state = "Read" => answer = ee[p].data
    <3>1. SiiOp(i.sii) = "APRD" /\ c.reg = <<SiiRegister(i.sii), 0>>
      BY <1>b, <1>0, <2>1, OwnCommands
    <3>2. i.sii.state \notin {"SetOwnership", "SetAddress", "SetReadOperation"}
      BY <3>1 DEF SiiOp
    <3>3. answer = ReadOf(p, SiiRegister(i.sii))
      BY <1>b, <3>1
    <3>4. i.sii.state \in {"Init", "Wait"} => SiiRegister(i.sii) = "SiiControl"
      BY DEF SiiRegister
    <3>5. i.sii.state = "Read" => SiiRegister(i.sii) = "SiiData"
      BY DEF SiiRegister
    <3>6. QED
      BY <3>2, <3>3, <3>4, <3>5, ReadValues
  <2>2. ee[p].busy \in BOOLEAN /\ ee[p].command_error \in BOOLEAN /\ ee[p].data \in Word4
    BY <1>0 DEF EeType
  <2>3. PICK r : r = i.sii
    OBVIOUS
  <2>4. i.state \in SiiStates /\ known => SiiPrepared(r, p, FALSE)
    BY <1>0, <2>3 DEF SiiUnderWay
  <2>5. \A x : (Loaded(p, x)' <=> Loaded(p, x)) /\ (Loading(p, x)' <=> Loading(p, x))
    BY <1>0, LoadedFrame
  <2>6. Profile(p)' = Profile(p)
    BY BusFrame
  <2>7. ASSUME i.state \in SiiStates, known, r.state = "Wait", ~answer.busy, ~answer.command_error
        PROVE  Loaded(p, r.address)' /\ ~ee'[p].busy
    BY <1>0, <2>1, <2>3, <2>4, <2>5, <2>7 DEF SiiPrepared, Loading
  <2>8. ASSUME i.state \in SiiStates, known, r.state = "Read"
        PROVE  answer = Words(Profile(p), r.address, <<0, 0, 0, 0>>)'
    <3>1. answer = Words(Profile(p), r.address, <<0, 0, 0, 0>>)
      BY <2>1, <2>3, <2>4, <2>8 DEF SiiPrepared, Loaded
    <3>2. QED
      BY <2>6, <3>1
  <2>9. QED
    BY <1>b, <1>0, <2>1, <2>2, <2>3, <2>7, <2>8 DEF SiiAnswered
<1>6. QED
  BY <1>b, <1>2, <1>3, <1>4, <1>5 DEF Answered

\* A read that was executed keeps the invariant.
LEMMA ReadKeeps ==
  ASSUME NetworkInv, NEW CONSTANT q, NEW CONSTANT w, NEW CONSTANT a, Back(q, w, a), ReadBack(q, w, a)
  PROVE  NetworkInv'
<1>0. /\ bus \in Buses /\ DevicesOk /\ bus' = bus /\ UNCHANGED deviceVars /\ w = 1 /\ q # NoPdu
      /\ q.position \in Slaves /\ faults \in Nat /\ faults' \in {faults, faults + 1}
      /\ PduOk(q) /\ WriteOk(q) /\ q.command.op = "APRD"
      /\ a = ReadOf(q.position, q.command.reg[1])
  BY BusAssumption DEF NetworkInv, Back, ReadBack, CountersOk, SocketOk
<1>1. /\ al' = al /\ err' = err /\ request' = request /\ pdi' = pdi /\ ee' = ee /\ regs' = regs
  BY <1>0 DEF deviceVars, alVars
<1>2. DevicesOk'
  BY <1>0, DeviceFrame
<1>3. Counter(q, w)
  <2>1. Len(bus.slaves) \in Nat /\ q.position \in 0 .. Len(bus.slaves) - 1
    BY <1>0, BusFacts
  <2>2. QED
    BY <1>0, <2>1 DEF Counter
<1>4. q.command # CountCommand
  BY <1>0 DEF CountCommand
<1>5. ASSUME SlaveUnderWay
      PROVE  SlaveUnderWay'
  <2>1. PICK i : i = task.init
    OBVIOUS
  <2>2. PICK p : p = Len(network)
    OBVIOUS
  <2>3. PICK known \in BOOLEAN : known = (p \notin ignored)
    OBVIOUS
  <2>4. OwnWork(q, i, p, known)
    BY <1>5, <2>1, <2>2, <2>3, OwnWorkThere
  <2>5. WorkSent(i, p, known, FALSE) /\ p \in Slaves /\ p \in Pos /\ q.position = p
    BY <1>0, <2>4, BusFacts DEF OwnWork
  <2>6. WorkSent(i, p, known, TRUE)
    BY <2>5, BackPrepared
  <2>7. WorkSent(i, p, known, TRUE)'
    BY <1>0, <1>1, <2>6, WorkFrame
  <2>8. Answered(i, p, known)'
    <3>1. PICK z : z = socket'
      OBVIOUS
    <3>2. Answer(z, q, w, a)
      BY <1>0, <1>3, <3>1, BackPdu
    <3>3. QED
      BY <1>0, <2>4, <3>1, <3>2, ReadIsAnswered
  <2>9. QED
    BY <1>3, <1>5, <2>4, <2>7, <2>8, OwnBack
<1>6. QED
  BY <1>1, <1>2, <1>3, <1>4, <1>5, BackKeeps

\* The two effects of a write, put together.
LEMMA WriteEffects ==
  ASSUME DevicesOk, NEW p \in Pos, NEW reg, NEW value, WrittenAt(p, reg, value),
         WriteAllowed(p, reg, value), NEW name, name = reg[1]
  PROVE  RegsEffect(regs'[p], p, reg, value) /\ EeEffect(ee'[p], p, name, value)
<1>0. ee[p] \in EeType /\ pdi[p] \in BOOLEAN /\ IsRegs(regs[p])
  BY DEF DevicesOk
<1>1. PICK g : g = RegsAfterWrite(p, reg, value)
  OBVIOUS
<1>2. RegsEffect(g, p, reg, value)
  BY <1>0, <1>1, RegsWritten
<1>3. regs'[p] = g
  BY <1>1, Zenon DEF WrittenAt
<1>4. PICK e : e = EeAfterWrite(p, name, value)
  OBVIOUS
<1>5. name = "SiiAddress" => value.data \in 0 .. 28
  BY DEF WriteAllowed
<1>6. EeEffect(e, p, name, value)
  BY <1>0, <1>4, <1>5, EeWritten
<1>7. ee'[p] = e
  BY <1>4, Zenon DEF WrittenAt
<1>8. QED
  BY <1>2, <1>3, <1>6, <1>7, Zenon

\* A PDU of the slave's own task is executed at p.
OwnWritten(q, i, p, known) ==
  /\ OwnWork(q, i, p, known) /\ q.command.op = "APWR"
  /\ WrittenAt(p, q.command.reg, q.value)
  /\ RegsEffect(regs'[p], p, q.command.reg, q.value)
  /\ \E name \in {q.command.reg[1]} : EeEffect(ee'[p], p, name, q.value)

\* A write of the slave's task itself is executed.
LEMMA OwnWriteStates ==
  ASSUME bus \in Buses, bus' = bus, DevicesOk, NEW CONSTANT q, NEW CONSTANT i, NEW CONSTANT p \in Slaves,
         NEW CONSTANT known \in BOOLEAN, OwnWritten(q, i, p, known), i.state \in WriteStates
  PROVE  /\ SlaveDone(i, p)' /\ AlUnderWay(i, p)' /\ SiiUnderWay(i, p, known, TRUE)'
         /\ WriteAnswered(i, p)' /\ AlAnswered(i, p)' /\ SiiAnswered(i, p, known)'
         /\ ReadAnswered(i, p)'
<1>0. /\ i \in InitType /\ i.position = p /\ CountsRight(i) /\ SlaveDone(i, p)
  BY DEF OwnWritten, OwnWork, WorkSent, Found
<1>1. PICK reg : reg = q.command.reg
  OBVIOUS
<1>2. PICK value : value = q.value
  OBVIOUS
<1>3. /\ reg = RegisterOf(i)
      /\ value = [data |-> ValueOf(i), all |-> i.state = "ClearSm", owner |-> FALSE]
  BY <1>0, <1>1, <1>2, OwnCommands DEF OwnWritten, OwnWork
<1>4. RegsEffect(regs'[p], p, reg, value)
  BY <1>1, <1>2 DEF OwnWritten
<1>5. al'[p] = al[p]
  BY Zenon DEF OwnWritten, WrittenAt
<1>6. regs[p].dirty \subseteq Registers(Profile(p))
  BY BusFacts DEF DevicesOk
<1>7. SlaveDone(i, p)' /\ WriteAnswered(i, p)'
  BY <1>0, <1>3, <1>4, <1>5, <1>6, WriteDone
<1>8. i.state \notin SiiStates /\ i.state \notin ReadStates /\ i.state # "RequestInitState"
  BY StateNames
<1>9. QED
  BY <1>7, <1>8 DEF AlUnderWay, SiiUnderWay, AlAnswered, SiiAnswered, ReadAnswered, ReadStates

\* Writes other than those of the task itself touch no register of SlaveDone.
LEMMA InnerWrite ==
  ASSUME NEW CONSTANT i, NEW CONSTANT p, SlaveDone(i, p), NEW CONSTANT reg, NEW CONSTANT value,
         al' = al, RegsEffect(regs'[p], p, reg, value), NEW CONSTANT name, name = reg[1],
         name \in {"SiiAccess", "SiiAddress", "SiiControl", "AlControl"}
  PROVE  SlaveDone(i, p)'
<1>1. PICK g : g = regs'[p]
  OBVIOUS
<1>2. /\ g.dirty \subseteq regs[p].dirty /\ g.station = regs[p].station /\ g.active = regs[p].active
      /\ \A n \in SmNumber : g.sm[n] = regs[p].sm[n]
  BY <1>1 DEF RegsEffect
<1>3. QED
  BY <1>1, <1>2, DoneShrinks

\* A write of the SII reader is executed.
LEMMA OwnSiiStates ==
  ASSUME bus \in Buses, bus' = bus, DevicesOk, NEW CONSTANT q, NEW CONSTANT i, NEW CONSTANT p \in Slaves,
         NEW CONSTANT known \in BOOLEAN, OwnWritten(q, i, p, known), i.state \in SiiStates
  PROVE  /\ SlaveDone(i, p)' /\ AlUnderWay(i, p)' /\ SiiUnderWay(i, p, known, TRUE)'
         /\ WriteAnswered(i, p)' /\ AlAnswered(i, p)' /\ SiiAnswered(i, p, known)'
         /\ ReadAnswered(i, p)'
<1>0. /\ i \in InitType /\ SlaveDone(i, p) /\ SiiUnderWay(i, p, known, FALSE)
  BY DEF OwnWritten, OwnWork, WorkSent, Found
<1>1. PICK reg : reg = q.command.reg
  OBVIOUS
<1>2. PICK value : value = q.value
  OBVIOUS
<1>3. PICK name : name = reg[1]
  OBVIOUS
<1>4. PICK r : r = i.sii
  OBVIOUS
<1>5. /\ SiiOp(r) = "APWR" /\ reg = <<SiiRegister(r), 0>> /\ value.data = r.address /\ value.owner = FALSE
  BY <1>0, <1>1, <1>2, <1>4, OwnCommands, ZenonT(60) DEF OwnWritten, OwnWork
<1>6. /\ r.state \in {"SetOwnership", "SetAddress", "SetReadOperation"} /\ name = SiiRegister(r)
  BY <1>3, <1>5 DEF SiiOp
<1>7. /\ r.state = "SetOwnership" => name = "SiiAccess"
      /\ r.state = "SetAddress" => name = "SiiAddress"
      /\ r.state = "SetReadOperation" => name = "SiiControl"
  BY <1>6 DEF SiiRegister
<1>8. /\ RegsEffect(regs'[p], p, reg, value) /\ EeEffect(ee'[p], p, name, value)
      /\ WrittenAt(p, reg, value)
  BY <1>1, <1>2, <1>3 DEF OwnWritten
<1>9. al' = al /\ pdi'[p] = IF name = "SiiAccess" THEN value.owner ELSE pdi[p]
  BY <1>3, <1>8, Zenon DEF WrittenAt
<1>10. SlaveDone(i, p)'
  BY <1>0, <1>3, <1>6, <1>7, <1>8, <1>9, InnerWrite
<1>11. PICK e : e = ee'[p]
  OBVIOUS
<1>12. /\ r.state = "SetOwnership" => e = ee[p] /\ ~pdi'[p]
       /\ r.state # "SetOwnership" => pdi'[p] = pdi[p]
       /\ r.state = "SetAddress" => e.address = r.address /\ e.busy = ee[p].busy
       /\ r.state = "SetReadOperation" =>
            /\ e.address = ee[p].address
            /\ ~ee[p].busy /\ ~pdi[p] => e.busy = TRUE /\ e.loading = ee[p].address
  BY <1>5, <1>6, <1>7, <1>8, <1>9, <1>11 DEF EeEffect
<1>13. known => SiiPrepared(r, p, FALSE)
  BY <1>0, <1>4 DEF SiiUnderWay
<1>14. known => SiiPrepared(r, p, TRUE)'
  BY <1>6, <1>11, <1>12, <1>13 DEF SiiPrepared
<1>15. SiiUnderWay(i, p, known, TRUE)'
  BY <1>0, <1>4, <1>14 DEF SiiUnderWay
<1>16. known /\ r.state = "SetReadOperation" => Loading(p, r.address)'
  BY <1>11, <1>12, <1>13 DEF SiiPrepared, Loading
<1>17. SiiAnswered(i, p, known)'
  BY <1>4, <1>6, <1>11, <1>12, <1>16 DEF SiiAnswered
<1>18. i.state \notin WriteStates /\ i.state \notin ReadStates /\ i.state # "RequestInitState"
  BY StateNames
<1>19. QED
  BY <1>10, <1>15, <1>17, <1>18
     DEF AlUnderWay, AlAnswered, ReadAnswered, ReadStates, WriteAnswered, WriteStates

\* A write of the transfer to Init is executed.
LEMMA OwnAlStates ==
  ASSUME bus \in Buses, bus' = bus, DevicesOk, NEW CONSTANT q, NEW CONSTANT i, NEW CONSTANT p \in Slaves,
         NEW CONSTANT known \in BOOLEAN, OwnWritten(q, i, p, known), i.state = "RequestInitState"
  PROVE  /\ SlaveDone(i, p)' /\ AlUnderWay(i, p)' /\ SiiUnderWay(i, p, known, TRUE)'
         /\ WriteAnswered(i, p)' /\ AlAnswered(i, p)' /\ SiiAnswered(i, p, known)'
         /\ ReadAnswered(i, p)'
<1>0. /\ i \in InitType /\ SlaveDone(i, p) /\ AlUnderWay(i, p)
  BY DEF OwnWritten, OwnWork, WorkSent, Found
<1>1. PICK reg : reg = q.command.reg
  OBVIOUS
<1>2. PICK value : value = q.value
  OBVIOUS
<1>3. PICK name : name = reg[1]
  OBVIOUS
<1>4. PICK t : t = i.al
  OBVIOUS
<1>5. /\ t.state \notin {"Read", "Poll"} /\ reg = <<AlRegister(t), 0>>
      /\ value.al = IF t.state = "Request" THEN t.target ELSE t.reset
  BY <1>0, <1>1, <1>2, <1>4, OwnCommands, ZenonT(60) DEF OwnWritten, OwnWork
<1>6. AlPrepared(t, p)
  BY <1>0, <1>4 DEF AlUnderWay
<1>7. /\ t.state \in {"ResetError", "OffAck", "ResetSiiOwnership", "Request"}
      /\ t.state \in {"ResetError", "OffAck"} => t.reset = al[p] /\ request[p] = "none"
      /\ t.state \in {"ResetSiiOwnership", "Request"} => ~err[p]
  BY <1>5, <1>6 DEF AlPrepared
<1>8. name = AlRegister(t)
  BY <1>3, <1>5
<1>9. name \in {"SiiAccess", "AlControl"}
  BY <1>7, <1>8 DEF AlRegister
<1>10. RegsEffect(regs'[p], p, reg, value) /\ WrittenAt(p, reg, value)
  BY <1>1, <1>2 DEF OwnWritten
<1>11. /\ al' = al /\ (err'[p] => err[p])
       /\ value.al = al[p] => request'[p] = request[p]
  BY <1>10, Zenon DEF WrittenAt
<1>12. SlaveDone(i, p)'
  BY <1>0, <1>3, <1>9, <1>10, <1>11, InnerWrite
<1>13. t.state \in {"ResetError", "OffAck"} => request'[p] = "none"
  BY <1>5, <1>7, <1>11
<1>14. AlPrepared(t, p)'
  BY <1>6, <1>7, <1>11, <1>13 DEF AlPrepared
<1>15. AlUnderWay(i, p)'
  BY <1>4, <1>14 DEF AlUnderWay
<1>16. AlAnswered(i, p)'
  BY <1>4, <1>5 DEF AlAnswered
<1>17. i.state \notin WriteStates /\ i.state \notin ReadStates /\ i.state \notin SiiStates
  BY StateNames
<1>18. QED
  BY <1>12, <1>15, <1>16, <1>17
     DEF SiiUnderWay, SiiAnswered, ReadAnswered, ReadStates, WriteAnswered, WriteStates

\* A write that was executed keeps the invariant.
LEMMA WriteKeeps ==
  ASSUME NetworkInv, NEW CONSTANT q, NEW CONSTANT w, NEW CONSTANT a, Back(q, w, a), WriteBack(q, w)
  PROVE  NetworkInv'
<1>0. /\ bus \in Buses /\ DevicesOk /\ NetworkOk /\ bus' = bus /\ w = 1 /\ q # NoPdu /\ q.recv_flag = FALSE
      /\ q.position \in Slaves /\ faults \in Nat /\ faults' \in {faults, faults + 1}
      /\ PduOk(q) /\ WriteOk(q) /\ q.command.op = "APWR"
      /\ Write(q.position, q.command.reg, q.value)
  BY BusAssumption DEF NetworkInv, Back, WriteBack, CountersOk, SocketOk
<1>1. PICK p : p = q.position
  OBVIOUS
<1>2. PICK reg : reg = q.command.reg
  OBVIOUS
<1>3. PICK value : value = q.value
  OBVIOUS
<1>4. p \in Slaves /\ p \in Pos /\ Len(bus.slaves) \in Nat /\ p \in 0 .. Len(bus.slaves) - 1
  BY <1>0, <1>1, BusFacts
<1>5. Write(p, reg, value)
  BY <1>0, <1>1, <1>2, <1>3
<1>6. WriteAllowed(p, reg, value)
  BY <1>0, <1>1, <1>2, <1>3 DEF WriteOk, WriteAllowed
<1>7. DevicesOk'
  BY <1>0, <1>4, <1>5, <1>6, WriteKeepsDevices
<1>8. WrittenAt(p, reg, value) /\ OthersSame(p)
  BY <1>0, <1>4, <1>5, WriteAt
<1>9. Counter(q, w) /\ q.command # CountCommand
  BY <1>0, <1>4 DEF Counter, CountCommand
<1>10. ASSUME SlaveUnderWay
       PROVE  SlaveUnderWay' /\ \A x \in 0 .. Len(network) - 1 : regs'[x] = regs[x]
  <2>1. PICK i : i = task.init
    OBVIOUS
  <2>2. PICK m : m = Len(network)
    OBVIOUS
  <2>3. PICK known \in BOOLEAN : known = (m \notin ignored)
    OBVIOUS
  <2>4. OwnWork(q, i, m, known)
    BY <1>10, <2>1, <2>2, <2>3, OwnWorkThere
  <2>5. m = p
    BY <1>1, <2>4 DEF OwnWork
  <2>6. OwnWork(q, i, p, known) /\ WorkSent(i, p, known, FALSE)
    BY <2>4, <2>5 DEF OwnWork
  <2>7. OwnWritten(q, i, p, known)
    <3>1. PICK name : name = reg[1]
      OBVIOUS
    <3>2. RegsEffect(regs'[p], p, reg, value) /\ EeEffect(ee'[p], p, name, value)
      BY <1>0, <1>4, <1>6, <1>8, <3>1, WriteEffects
    <3>3. QED
      BY <1>0, <1>2, <1>3, <1>8, <2>6, <3>1, <3>2 DEF OwnWritten
  <2>8. /\ SlaveDone(i, p)' /\ AlUnderWay(i, p)' /\ SiiUnderWay(i, p, known, TRUE)'
        /\ WriteAnswered(i, p)' /\ AlAnswered(i, p)' /\ SiiAnswered(i, p, known)'
        /\ ReadAnswered(i, p)'
    <3>1. i \in InitType /\ i.state \in SlaveInitState /\ i.state \notin Ended
      BY <2>6, InitFields DEF WorkSent
    <3>2. CASE i.state \in WriteStates
      BY <1>0, <1>4, <2>7, <3>2, OwnWriteStates
    <3>3. CASE i.state \in SiiStates
      BY <1>0, <1>4, <2>7, <3>3, OwnSiiStates
    <3>4. CASE i.state = "RequestInitState"
      BY <1>0, <1>4, <2>7, <3>4, OwnAlStates
    <3>5. i.state \notin ReadStates
      BY <1>0, <2>6, <3>1, OwnCommands DEF OwnWork
    <3>6. QED
      BY <3>1, <3>2, <3>3, <3>4, <3>5, StateNames
  <2>9. WorkSent(i, p, known, TRUE)'
    BY <1>0, <2>6, <2>8, WorkParts
  <2>10. Answered(i, p, known)'
    <3>1. PICK z : z = socket'
      OBVIOUS
    <3>2. Answer(z, q, w, a)
      BY <1>0, <1>9, <3>1, BackPdu
    <3>3. socket'.wkc = 1
      BY <1>0, <3>1, <3>2 DEF Answer
    <3>4. QED
      BY <2>8, <3>3 DEF Answered
  <2>11. SlaveUnderWay'
    BY <1>9, <1>10, <2>6, <2>9, <2>10, OwnBack
  <2>12. ASSUME NEW x \in 0 .. Len(network) - 1
         PROVE  regs'[x] = regs[x]
    <3>1. Len(network) \in Nat
      BY <1>0 DEF NetworkOk
    <3>2. x # p /\ x \in 0 .. Len(bus.slaves) - 1
      BY <1>4, <2>2, <2>5, <3>1
    <3>3. x \in Pos
      BY <1>0, <3>2, BusFacts
    <3>4. QED
      BY <1>8, <3>2, <3>3 DEF OthersSame
  <2>13. QED
    BY <2>11, <2>12
<1>11. QED
  BY <1>7, <1>9, <1>10, BackKeeps

\* An exchange of a PDU with the slaves keeps the invariant.
LEMMA ExchangeKeeps ==
  ASSUME NetworkInv, Exchange
  PROVE  NetworkInv'
<1>1. PICK q : q = socket
  OBVIOUS
<1>2. PICK w, a : /\ Back(q, w, a)
                  /\ MissedBack(q, w) \/ ReadBack(q, w, a) \/ WriteBack(q, w) \/ CountBack(q, w)
  BY <1>1, ExchangeKinds
<1>3. CASE MissedBack(q, w)
  BY <1>2, <1>3, MissedKeeps
<1>4. CASE ReadBack(q, w, a)
  BY <1>2, <1>4, ReadKeeps
<1>5. CASE WriteBack(q, w)
  BY <1>2, <1>5, WriteKeeps
<1>6. CASE CountBack(q, w)
  BY <1>2, <1>6, CountKeeps
<1>7. QED
  BY <1>2, <1>3, <1>4, <1>5, <1>6

\* A step that changes nothing.
LEMMA StutterKeeps ==
  ASSUME NetworkInv, UNCHANGED vars
  PROVE  NetworkInv'
<1>0. /\ bus \in Buses /\ DevicesOk /\ CountersOk /\ IsTask(task) /\ faults \in Nat
      /\ bus' = bus /\ task' = task /\ network' = network /\ socket' = socket /\ regs' = regs
      /\ calls' = calls /\ miscounted' = miscounted /\ ignored' = ignored /\ faults' = faults
      /\ al' = al /\ err' = err /\ request' = request /\ pdi' = pdi /\ ee' = ee /\ UNCHANGED deviceVars
  BY BusAssumption DEF NetworkInv, CountersOk, vars, deviceVars, alVars
<1>1. SlaveFrame
  BY <1>0 DEF SlaveFrame, CountersOk
<1>2. DevicesOk'
  BY <1>0, DeviceFrame
<1>3. ASSUME SlaveUnderWay
      PROVE  SlaveUnderWay'
  <2>1. PICK i : i = task.init
    OBVIOUS
  <2>2. PICK p : p = Len(network)
    OBVIOUS
  <2>3. PICK known \in BOOLEAN : known = (p \notin ignored)
    OBVIOUS
  <2>4. PICK back : back = socket.recv_flag
    OBVIOUS
  <2>5. WorkOf(i, p, known, known, back)
    BY <1>0, <2>1, <2>2, <2>3, <2>4 DEF WorkOf
  <2>6. ASSUME Worked(i, p, known, back)
        PROVE  Worked(i, p, known, back)'
    BY <1>0, <2>6, WorkedSame
  <2>7. QED
    BY <1>0, <1>3, <2>5, <2>6, UnderWayKept
<1>4. ASSUME NEW CONSTANT q \in {socket}, PduOk(q), WriteOk(q)
      PROVE  WriteOk(q)'
  BY <1>0, <1>4 DEF WriteOk
<1>5. QED
  BY <1>0, <1>1, <1>2, <1>3, <1>4, SlaveStepKeeps

\* The invariant holds before the first call.
LEMMA Initially ==
  ASSUME Init
  PROVE  NetworkInv
<1>0. /\ bus \in Buses /\ network = <<>> /\ socket = NoPdu /\ faults = 0 /\ calls = 0
      /\ ignored = {} /\ miscounted = FALSE
  BY DEF Init
<1>1. /\ Len(bus.slaves) \in Nat /\ bus.capacity \in Nat /\ MaxFaults \in Nat /\ MaxCalls \in Nat
  BY <1>0, BusFacts, BusAssumption
<1>2. IsTask(task) /\ task.state = "Idle" /\ task.num_slaves = 0 /\ task.error = "none"
  <2>1. PICK i \in InitType : i = NewSlaveInit(NewAl(0))
    BY <1>0, NewInitType
  <2>2. task = [state |-> "Idle", count |-> 0, num_slaves |-> 0, error |-> "none",
                command |-> DefaultCommand, init |-> i]
    BY <2>1, Zenon DEF Init, NewNetworkInit
  <2>3. QED
    BY <2>1, <2>2 DEF IsTask, NetworkInitState
<1>3. NetworkOk /\ CountersOk
  <2>1. <<>> \in Seq(SlaveType) /\ Len(<<>>) = 0
    OBVIOUS
  <2>2. NetworkOk
    BY <1>0, <1>1, <1>2, <2>1 DEF NetworkOk
  <2>3. CountersOk
    <3>1. miscounted \in BOOLEAN /\ ignored \subseteq Pos
      BY <1>0, Zenon
    <3>2. faults \in 0 .. MaxFaults /\ calls \in 0 .. MaxCalls
      BY <1>0, <1>1
    <3>3. QED
      BY <3>1, <3>2 DEF CountersOk
  <2>4. QED
    BY <2>2, <2>3
<1>4. SocketOk
  <2>1. PduOk(NoPdu)
    BY <1>1 DEF PduOk, NoPdu
  <2>2. WriteOk(NoPdu)
    BY DEF WriteOk, NoPdu, DefaultCommand
  <2>3. QED
    BY <1>0, <2>1, <2>2 DEF SocketOk
<1>5. DevicesOk
  <2>1. \A p \in Slaves : IsProfile(Profile(p))
    BY <1>0, BusFacts
  <2>2. al \in [Pos -> AlStates]
    BY <2>1 DEF Init, AlStates, IsProfile
  <2>3. err \in [Pos -> BOOLEAN]
    <3>1. err = [p \in Pos |-> p \in Slaves /\ Profile(p).err]
      BY DEF Init
    <3>2. \A p \in Pos : (p \in Slaves /\ Profile(p).err) \in BOOLEAN
      BY Zenon
    <3>3. QED
      BY <3>1, <3>2, Zenon
  <2>4. /\ request = [p \in Pos |-> "none"] /\ pdi = [p \in Pos |-> FALSE]
    BY DEF Init
  <2>5. PICK e : e = [busy |-> FALSE, loading |-> 0, address |-> 0,
                      command_error |-> FALSE, data |-> <<0, 0, 0, 0>>]
    OBVIOUS
  <2>6. ee = [p \in Pos |-> e]
    BY <2>5, Zenon DEF Init
  <2>7. e \in EeType /\ e.busy = FALSE /\ e.command_error = FALSE /\ e.data[3] = 0 /\ e.data[4] = 0
    BY <2>5, ZeroWords DEF EeType
  <2>8. regs = [p \in Pos |-> [dirty |-> IF p \in Slaves THEN Registers(Profile(p)) ELSE {},
                               station |-> 1, sm |-> [n \in SmNumber |-> NoSm], active |-> {}]]
    BY Zenon DEF Init
  <2>9. regs = [p \in Pos |-> regs[p]]
    BY <2>8, Zenon
  <2>10. ASSUME NEW p \in Pos
         PROVE  IsRegs(regs[p]) /\ (p \in Slaves => regs[p].dirty \subseteq Registers(Profile(p)))
    <3>1. PICK d : d = IF p \in Slaves THEN Registers(Profile(p)) ELSE {}
      OBVIOUS
    <3>2. PICK m : m = [n \in SmNumber |-> NoSm]
      OBVIOUS
    <3>3. regs[p] = [dirty |-> d, station |-> 1, sm |-> m, active |-> {}]
      BY <2>8, <3>1, <3>2
    <3>4. m = [n \in SmNumber |-> m[n]]
      BY <3>2
    <3>5. QED
      BY <3>1, <3>3, <3>4 DEF IsRegs
  <2>11. QED
    BY <1>0, <2>2, <2>3, <2>4, <2>6, <2>7, <2>9, <2>10 DEF DevicesOk
<1>6. SlavesRight
  BY <1>0, <1>2 DEF SlavesRight
<1>7. TaskRight
  BY <1>2 DEF TaskRight
<1>8. Excused
  BY <1>2 DEF Excused, Excuse
<1>9. QED
  BY <1>0, <1>2, <1>3, <1>4, <1>5, <1>6, <1>7, <1>8 DEF NetworkInv

\* The invariant is inductive.
LEMMA NextKeeps ==
  ASSUME NetworkInv, [Next]_vars
  PROVE  NetworkInv'
<1>1. CASE Start
  BY <1>1, StartKeeps
<1>2. CASE GiveUp
  BY <1>2, GiveUpKeeps
<1>3. CASE Step
  BY <1>3, StepKeeps
<1>4. CASE Exchange
  BY <1>4, ExchangeKeeps
<1>5. ASSUME NEW CONSTANT p \in Pos, SlaveReacts(p) \/ EepromLoads(p) \/ PdiReads(p)
      PROVE  NetworkInv'
  BY <1>5, ReactsKeeps, LoadsKeeps, PdiKeeps
<1>6. CASE UNCHANGED vars
  BY <1>6, StutterKeeps
<1>7. QED
  BY <1>1, <1>2, <1>3, <1>4, <1>5, <1>6 DEF Next

----------------------------------------------------------------------------
(* What the invariant says of the properties. *)

\* The types of the state.
LEMMA TypeFollows ==
  ASSUME NetworkInv
  PROVE  TypeOK
<1>0. bus \in Buses /\ IsTask(task) /\ NetworkOk /\ DevicesOk /\ CountersOk
  BY DEF NetworkInv
<1>1. task.num_slaves \in 0 .. MaxSlaves
  <2>1. Len(bus.slaves) \in 0 .. MaxSlaves /\ MaxSlaves \in Nat
    BY <1>0, BusFacts
  <2>2. QED
    BY <1>0, <2>1 DEF IsTask, NetworkOk
<1>2. /\ task.init.state \in SlaveInitState /\ task.init.position \in Pos /\ task.init.n \in 0 .. 4
      /\ task.init.sii.state \in SiiState /\ task.init.al \in AL!Task
  <2>1. PICK i \in InitType : i = task.init
    BY <1>0 DEF IsTask
  <2>2. /\ i.state \in SlaveInitState /\ i.n \in 0 .. 4 /\ i.position \in Pos
        /\ i.al \in AL!Task /\ i.sii \in SiiType
    BY InitFields
  <2>3. i.sii.state \in SiiState
    BY <2>2 DEF SiiType
  <2>4. QED
    BY <2>1, <2>2, <2>3
<1>3. request \in [Pos -> AlStates \cup {"none"}]
  BY <1>0 DEF DevicesOk, AlStates
<1>4. QED
  BY <1>0, <1>1, <1>2, <1>3 DEF TypeOK, IsTask, NetworkOk, DevicesOk, CountersOk

\* What was pushed is the slave's own.
LEMMA InfoFollows ==
  ASSUME NetworkInv
  PROVE  InfoIsOwn
<1>0. NetworkOk /\ SlavesRight
  BY DEF NetworkInv
<1>1. ASSUME NEW k \in DOMAIN network, NEW p, p = k - 1, NEW info, info = network[k].info, p \notin ignored
      PROVE  /\ info.vender_id = Profile(p).eeprom[VenderId]
             /\ info.product_code = Profile(p).eeprom[ProductCode]
             /\ info.revision_number = Profile(p).eeprom[RevisionNumber]
             /\ info.support_coe = ((Profile(p).eeprom[MailboxProtocol] \div 4) % 2 = 1)
             /\ info.sm = [n \in SmNumber |-> SmIn(p, n)]
             /\ info.number_of_fmmu = Profile(p).fmmu /\ info.number_of_sm = Profile(p).sm
             /\ info.support_dc = Profile(p).dc /\ info.linked = Profile(p).linked
  <2>1. k \in 1 .. Len(network) /\ network[k] \in SlaveType
    BY <1>0 DEF NetworkOk
  <2>2. info \in InfoType
    BY <1>1, <2>1 DEF SlaveType
  <2>3. OwnInfo(p, info)
    BY <1>0, <1>1, <2>1 DEF SlavesRight
  <2>4. info.sm \in [SmNumber -> SmType] /\ \A n \in SmNumber : info.sm[n] = SmIn(p, n)
    BY <1>1, <2>2, <2>3 DEF InfoType, OwnInfo
  <2>5. info.sm = [n \in SmNumber |-> SmIn(p, n)]
    <3>1. PICK m \in [SmNumber -> SmType] : m = info.sm
      BY <2>4
    <3>2. m = [n \in SmNumber |-> m[n]]
      OBVIOUS
    <3>3. \A n \in SmNumber : m[n] = SmIn(p, n)
      BY <2>4, <3>1
    <3>4. QED
      BY <3>1, <3>2, <3>3
  <2>6. QED
    BY <1>1, <2>3, <2>5, Zenon DEF OwnInfo
<1>2. QED
  BY <1>1 DEF InfoIsOwn

\* What ReadyWhenComplete says of the slave at p.
ReadyAt(p, info) ==
  /\ al[p] = "Init"
  /\ regs[p].station = p + 1 /\ info.configured_address = p + 1
  /\ \A r \in regs[p].dirty :
       r[1] \in {"FmmuRegister", "SyncManagerControl"} /\ r[2] \notin FmmuCleared
  /\ \A r \in regs[p].dirty : r[1] = "SyncManagerControl" => r[2] \notin SmCleared
  /\ \A n \in SmNumber :
       IF IsMailbox(info.sm[n]) THEN regs[p].sm[n] = info.sm[n] /\ n \in regs[p].active
       ELSE regs[p].sm[n] = NoSm /\ n \notin regs[p].active
  /\ AreaRight(info)

\* Every slave that was pushed is ready once the call is complete.
LEMMA ReadyFollows ==
  ASSUME NetworkInv
  PROVE  ReadyWhenComplete
<1>1. SUFFICES ASSUME task.state = "Complete"
               PROVE  /\ miscounted \/ Len(network) = Len(bus.slaves)
                      /\ \A p \in 0 .. Len(network) - 1 : ReadyAt(p, network[p + 1].info)
  BY Zenon DEF ReadyWhenComplete, ReadyAt, AreaRight
<1>2. bus \in Buses /\ NetworkOk /\ SlavesRight /\ DevicesOk
  BY DEF NetworkInv
<1>3. miscounted \/ Len(network) = Len(bus.slaves)
  BY <1>1, <1>2 DEF NetworkOk, SlavesRight, CountKept
<1>4. ASSUME NEW p \in 0 .. Len(network) - 1, NEW info, info = network[p + 1].info
      PROVE  ReadyAt(p, info)
  <2>1. Len(network) \in Nat /\ Len(network) <= Len(bus.slaves) /\ Len(bus.slaves) \in Nat
    BY <1>2, BusFacts DEF NetworkOk
  <2>2. p \in Slaves /\ p + 1 \in 1 .. Len(network) /\ (p + 1) - 1 = p
    BY <2>1 DEF Slaves
  <2>3. ReadySlave(p, info)
    BY <1>1, <1>2, <1>4, <2>2 DEF SlavesRight
  <2>4. IsProfile(Profile(p)) /\ regs[p].dirty \subseteq Registers(Profile(p))
    BY <1>2, <2>2, BusFacts DEF DevicesOk
  <2>5. ASSUME NEW r \in regs[p].dirty
        PROVE  /\ r[1] \in {"FmmuRegister", "SyncManagerControl"} /\ r[2] \notin FmmuCleared
               /\ r[1] = "SyncManagerControl" => r[2] \notin SmCleared
    <3>1. r \in Registers(Profile(p)) /\ 56 <= ResetAt(r)
      BY <2>3, <2>4 DEF ReadySlave
    <3>2. /\ r = <<r[1], r[2]>> /\ r[2] \in Nat
          /\ r[1] \in SingleRegisters \cup {"FmmuRegister", "SyncManagerControl"}
      BY <2>4, <3>1, RegisterForm
    <3>3. r[1] \notin SingleRegisters
      BY <3>1, <3>2, ResetValues DEF SingleRegisters
    <3>4. /\ r[1] = "FmmuRegister" => r[2] \notin FmmuCleared
          /\ r[1] = "SyncManagerControl" => r[2] \notin SmCleared
      BY <3>1, <3>2, ResetValues DEF FmmuCleared, SmCleared
    <3>5. FmmuCleared \subseteq SmCleared
      BY DEF FmmuCleared, SmCleared
    <3>6. QED
      BY <3>2, <3>3, <3>4, <3>5
  <2>6. ASSUME NEW n \in SmNumber
        PROVE  IF IsMailbox(info.sm[n]) THEN regs[p].sm[n] = info.sm[n] /\ n \in regs[p].active
               ELSE regs[p].sm[n] = NoSm /\ n \notin regs[p].active
    BY <2>3, Zenon DEF ReadySlave, SmValue
  <2>7. QED
    BY <2>3, <2>5, <2>6 DEF ReadySlave, ReadyAt
<1>5. QED
  BY <1>3, <1>4

----------------------------------------------------------------------------
(* The theorems. *)

\* The inductive invariant holds always.
LEMMA InvAlways == Spec => []NetworkInv
<1>1. Init => NetworkInv
  BY Initially
<1>2. NetworkInv /\ [Next]_vars => NetworkInv'
  BY NextKeeps
<1>3. QED
  BY <1>1, <1>2, PTL DEF Spec

\* For every network and any number of calls and faults the state of init is
\* well typed: no counter leaves its bounds, and no more slaves are pushed than there are
\* or than fit.
THEOREM TypeCorrect == Spec => []TypeOK
<1>1. NetworkInv => TypeOK
  BY TypeFollows
<1>2. QED
  BY <1>1, InvAlways, PTL

\* NetworkInitTask pushes for the k-th slave what that slave's own registers and EEPROM
\* say, never what another slave answered or a word that an earlier read left in the data
\* register, unless an error of the EEPROM was overwritten by a later step of SiiReader for
\* that very slave.
THEOREM InfoAlwaysOwn == Spec => []InfoIsOwn
<1>1. NetworkInv => InfoIsOwn
  BY InfoFollows
<1>2. QED
  BY <1>1, InvAlways, PTL

\* When init returns Ok all slaves that were counted were pushed, each is in Init, has its own
\* station address, has every register reset that the task resets, its sync managers are
\* set up as SlaveInfo says, and its process data area overlaps no mailbox and lies in its
\* RAM if its mailboxes do.
THEOREM ReadyAlways == Spec => []ReadyWhenComplete
<1>1. NetworkInv => ReadyWhenComplete
  BY ReadyFollows
<1>2. QED
  BY <1>1, InvAlways, PTL

\* init fails only after a fault, for a slave without EEPROM, or for lack of
\* room, and panics only for a slave whose features or areas it does not support or whose
\* EEPROM error was overwritten.
THEOREM FailsAlwaysWithCause == Spec => []FailsWithCause
<1>1. NetworkInv => FailsWithCause
  BY ExcuseEnough DEF NetworkInv
<1>2. QED
  BY <1>1, InvAlways, PTL
==============================================================================

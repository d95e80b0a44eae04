------------------------------ MODULE SlaveInit ------------------------------
(***************************************************************************)
(* task/slave_initialize.rs: the task that initialises the slave at one    *)
(* position.  It brings the slave to Init with an AL state transfer        *)
(* (module AlStateTransfer, instantiated in NetworkInit), puts its data    *)
(* link registers into a known state, reads what the slave supports and,   *)
(* with the SII reader, what its EEPROM says, sets up the sync managers of *)
(* the mailbox and gives the slave its station address.                    *)
(*                                                                         *)
(* The operators work on the record of a task.  Arithmetic is u16 in a     *)
(* build with overflow checks: outside of it the task panics.              *)
(***************************************************************************)
EXTENDS SiiReader

\* MAX_SM_SIZE; begin of the process RAM; FMMUs and sync managers that are cleared;
\* entries of SlaveInfo::sm.
MAX_SM_SIZE == 256
RamStart == 4096
FmmuCleared == 0 .. 3
SmCleared == 0 .. 4
SmNumber == 0 .. 3

U16 == 0 .. 65535

\* The words of the EEPROM, register/sii.rs.
VenderId == 8
ProductCode == 10
RevisionNumber == 12
StandardRxMailboxOffset == 24
StandardRxMailboxSize == 25
StandardTxMailboxOffset == 26
StandardTxMailboxSize == 27
MailboxProtocol == 28

NoSm == [kind |-> "none", size |-> 0, start |-> 0]
ProcessDataSm(kind) == [NoSm EXCEPT !.kind = kind]
MailboxSm(kind, size) == [kind |-> kind, size |-> size, start |-> 0]
IsMailbox(sm) == sm.kind \in {"MailboxRx", "MailboxTx"}

\* SlaveInfoBuilder::default.  A pdo_start_address of 0 is None; port types, bit
\* operations and strict_al_control are copied like the number of FMMUs.
NewInfo ==
  [configured_address |-> 0, vender_id |-> 0, product_code |-> 0, revision_number |-> 0,
   linked |-> {}, ram_size_kb |-> 0, number_of_fmmu |-> 0, number_of_sm |-> 0,
   pdo_start |-> 0, pdo_size |-> 0, sm |-> [n \in SmNumber |-> NoSm],
   support_dc |-> FALSE, support_coe |-> FALSE]

----------------------------------------------------------------------------
(* The mailbox and process data areas *)

\* One entry of SlaveInfo::sm.
WithSm(info, n, sm) == [info EXCEPT !.sm = [@ EXCEPT ![n] = sm]]

\* GetRxMailboxSize and GetTxMailboxSize, for n = 0 and n = 1: a mailbox needs four
\* sync managers; without one, they serve the process data.
WithMailbox(info, n, data) ==
  LET mailbox == IF n = 0 THEN "MailboxRx" ELSE "MailboxTx"
      process == ProcessDataSm(IF n = 0 THEN "ProcessDataRx" ELSE "ProcessDataTx")
      size == IF AsU16(data) < MAX_SM_SIZE THEN AsU16(data) ELSE MAX_SM_SIZE
  IN CASE 4 <= info.number_of_sm /\ NotZero(data) ->
            WithSm(WithSm(info, n, MailboxSm(mailbox, size)), n + 2, process)
       [] ~(4 <= info.number_of_sm /\ NotZero(data)) /\ 2 <= info.number_of_sm ->
            WithSm(info, n, process)
       [] OTHER -> info

\* GetRxMailboxOffset and GetTxMailboxOffset.
WithOffset(info, n, data) ==
  IF IsMailbox(info.sm[n]) THEN WithSm(info, n, [info.sm[n] EXCEPT !.start = AsU16(data)]) ELSE info

Larger(a, b) == IF a < b THEN b ELSE a
Smaller(a, b) == IF a < b THEN a ELSE b
Excess(a, b) == IF a > b THEN a - b ELSE 0

\* set_process_data_sm_size_offset: the larger of the areas before and behind the
\* mailboxes.
MailboxStart(info) == Smaller(info.sm[0].start, info.sm[1].start)

MailboxEnd(info) ==
  Larger(info.sm[0].start + info.sm[0].size - 1, info.sm[1].start + info.sm[1].size - 1)

RamEnd(info) == info.ram_size_kb * 1024 - 1 + RamStart

\* The intermediate results, in the order of evaluation.
AreaOverflows(info) ==
  \/ \E n \in {0, 1} : LET end == info.sm[n].start + info.sm[n].size IN
       end \notin U16 \/ end - 1 \notin U16
  \/ info.ram_size_kb * 1024 \notin U16
  \/ info.ram_size_kb * 1024 - 1 \notin U16
  \/ RamEnd(info) \notin U16
  \/ /\ Excess(MailboxStart(info), RamStart) <= Excess(RamEnd(info), MailboxEnd(info))
     /\ MailboxEnd(info) + 1 \notin U16

\* Mutant: the area behind the mailboxes begins with their last octet.
WithProcessDataAreaShort(info) ==
  LET before == Excess(MailboxStart(info), RamStart)
      behind == Excess(RamEnd(info), MailboxEnd(info))
  IN CASE ~(IsMailbox(info.sm[0]) /\ IsMailbox(info.sm[1])) -> [info EXCEPT !.pdo_start = 0]
       [] OTHER -> IF before > behind
            THEN [info EXCEPT !.pdo_start = RamStart, !.pdo_size = before]
            ELSE [info EXCEPT !.pdo_start = MailboxEnd(info), !.pdo_size = behind]

WithProcessDataArea(info) ==
  LET mailboxes == IsMailbox(info.sm[0]) /\ IsMailbox(info.sm[1])
      before == Excess(MailboxStart(info), RamStart)
      behind == Excess(RamEnd(info), MailboxEnd(info))
  IN CASE ~mailboxes -> [info EXCEPT !.pdo_start = 0]
       [] mailboxes /\ before > behind ->
            [info EXCEPT !.pdo_start = RamStart, !.pdo_size = before]
       [] mailboxes /\ before <= behind ->
            [info EXCEPT !.pdo_start = MailboxEnd(info) + 1, !.pdo_size = behind]

----------------------------------------------------------------------------
(* The states *)

SiiStates == {"GetVenderID", "GetProductCode", "GetRevision", "GetProtocol",
              "GetRxMailboxSize", "GetRxMailboxOffset", "GetTxMailboxSize",
              "GetTxMailboxOffset"}

ReadStates == {"CheckDlStatus", "CheckDlInfo", "CheckPdiControl"}

WriteStates == {"SetLoopPort", "ResetErrorCount", "SetWatchDogDivider", "DisableDlWatchDog",
                "DisableSmWatchDog", "ClearFmmu", "ClearSm", "SetSmControl",
                "SetSmActivation", "SetStationAddress", "ClearDcActivation",
                "ClearCyclicOperationStartTime", "ClearSync0CycleTime", "ClearSync1CycleTime"}

Ended == {"Idle", "Error", "Complete", "panic"}

SlaveInitState == SiiStates \cup ReadStates \cup WriteStates \cup Ended \cup {"RequestInitState"}

\* SlaveInitTask; first is the flag of the states with an inner task, n the number of
\* those with a counter, error the kind of error, al and sii the inner tasks.
NewSlaveInit(al) ==
  [state |-> "Idle", n |-> 0, first |-> FALSE, position |-> 0, error |-> "none",
   info |-> NewInfo, al |-> al, sii |-> NewSiiReader]

\* start
SlaveInitStart(t, position) ==
  [t EXCEPT !.state = "SetLoopPort", !.n = 0, !.position = position, !.info = NewInfo]

Goto(t, state) == [t EXCEPT !.state = state, !.n = 0, !.first = TRUE]

InitFails(t, error) == [t EXCEPT !.state = "Error", !.error = error]

Panics(t) == [t EXCEPT !.state = "panic"]

SiiAddressOf(state) ==
  CASE state = "GetVenderID" -> VenderId
    [] state = "GetProductCode" -> ProductCode
    [] state = "GetRevision" -> RevisionNumber
    [] state = "GetProtocol" -> MailboxProtocol
    [] state = "GetRxMailboxSize" -> StandardRxMailboxSize
    [] state = "GetRxMailboxOffset" -> StandardRxMailboxOffset
    [] state = "GetTxMailboxSize" -> StandardTxMailboxSize
    [] state = "GetTxMailboxOffset" -> StandardTxMailboxOffset

----------------------------------------------------------------------------
(* next_pdu *)

\* The task when it sends: an inner task is new with its first state and started
\* with the first PDU, and the address is noted.
SlaveInitSending(t, newAl) ==
  CASE t.state = "RequestInitState" /\ t.first -> [t EXCEPT !.al = newAl]
    [] t.state \in SiiStates /\ t.first ->
         [t EXCEPT !.sii = SiiStart(IF t.state = "GetVenderID" THEN NewSiiReader ELSE @,
                                    SiiAddressOf(t.state))]
    [] t.state = "SetStationAddress" ->
         [t EXCEPT !.info.configured_address = t.position + 1]
    [] OTHER -> t

\* The register of a state of its own.  The sync manager registers are written from
\* slave_info: only mailboxes are set up.
RegisterOf(t) ==
  CASE t.state = "CheckDlStatus" -> <<"DlStatus", 0>>
    [] t.state = "CheckDlInfo" -> <<"DlInformation", 0>>
    [] t.state = "CheckPdiControl" -> <<"PdiControl", 0>>
    [] t.state = "SetLoopPort" -> <<"DlControl", 0>>
    [] t.state = "ResetErrorCount" -> <<"RxErrorCounter", 0>>
    [] t.state = "SetWatchDogDivider" -> <<"WatchDogDivider", 0>>
    [] t.state = "DisableDlWatchDog" -> <<"DlUserWatchDog", 0>>
    [] t.state = "DisableSmWatchDog" -> <<"SyncManagerChannelWatchDog", 0>>
    [] t.state = "ClearFmmu" -> <<"FmmuRegister", t.n>>
    [] t.state \in {"ClearSm", "SetSmControl"} -> <<"SyncManagerControl", t.n>>
    [] t.state = "SetSmActivation" -> <<"SyncManagerActivation", t.n>>
    [] t.state = "SetStationAddress" -> <<"FixedStationAddress", 0>>
    [] t.state = "ClearDcActivation" -> <<"DcActivation", 0>>
    [] t.state = "ClearCyclicOperationStartTime" -> <<"CyclicOperationStartTime", 0>>
    [] t.state = "ClearSync0CycleTime" -> <<"Sync0CycleTime", 0>>
    [] t.state = "ClearSync1CycleTime" -> <<"Sync1CycleTime", 0>>
    [] t.state \in SiiStates -> <<SiiRegister(t.sii), 0>>

OpOf(t) ==
  CASE t.state \in WriteStates -> "APWR"
    [] t.state \in ReadStates -> "APRD"
    [] t.state \in SiiStates -> SiiOp(t.sii)

\* What the PDU carries, where a property depends on it.
ValueOf(t) ==
  CASE t.state = "SetSmControl" /\ IsMailbox(t.info.sm[t.n]) -> t.info.sm[t.n]
    [] t.state = "SetSmControl" /\ ~IsMailbox(t.info.sm[t.n]) -> NoSm
    [] t.state = "ClearSm" -> NoSm
    [] t.state = "SetSmActivation" -> IsMailbox(t.info.sm[t.n])
    [] t.state = "SetStationAddress" -> t.position + 1
    [] t.state \in SiiStates -> t.sii.address
    [] OTHER -> 0

----------------------------------------------------------------------------
(* recieve_and_process *)

\* The states that only wait for their PDU to be executed.
AfterWrite(t) ==
  LET next(state) == Goto(t, state)
      counting(last, state) == IF t.n < last THEN [t EXCEPT !.n = @ + 1] ELSE next(state)
  IN CASE t.state = "SetLoopPort" -> next("RequestInitState")
       [] t.state = "ResetErrorCount" -> next("SetWatchDogDivider")
       [] t.state = "SetWatchDogDivider" -> next("DisableDlWatchDog")
       [] t.state = "DisableDlWatchDog" -> next("DisableSmWatchDog")
       [] t.state = "DisableSmWatchDog" -> next("CheckDlStatus")
       [] t.state = "ClearFmmu" -> counting(3, "ClearSm")
       [] t.state = "ClearSm" -> counting(4, "GetVenderID")
       [] t.state = "SetSmControl" -> [t EXCEPT !.state = "SetSmActivation"]
       [] t.state = "SetSmActivation" ->
            IF 3 <= t.n THEN next("SetStationAddress")
            ELSE [t EXCEPT !.state = "SetSmControl", !.n = @ + 1]
       [] t.state = "SetStationAddress" -> next("CheckPdiControl")
       [] t.state = "ClearDcActivation" -> next("ClearCyclicOperationStartTime")
       [] t.state = "ClearCyclicOperationStartTime" -> next("ClearSync0CycleTime")
       [] t.state = "ClearSync0CycleTime" -> next("ClearSync1CycleTime")
       [] t.state = "ClearSync1CycleTime" -> next("Complete")

\* CheckDlStatus, CheckDlInfo with its assertions, CheckPdiControl.
AfterRead(t, answer) ==
  CASE t.state = "CheckDlStatus" ->
         IF answer.pdi_operational THEN Goto([t EXCEPT !.info.linked = answer.linked], "CheckDlInfo")
         ELSE InitFails(t, "FailedToLoadEEPROM")
    [] t.state = "CheckDlInfo" ->
         IF (answer.dc => answer.dc_range) /\ answer.lrw
         THEN Goto([t EXCEPT !.info = [@ EXCEPT
                      !.support_dc = answer.dc, !.ram_size_kb = answer.ram,
                      !.number_of_fmmu = answer.fmmu, !.number_of_sm = answer.sm]],
                   "ClearFmmu")
         ELSE Panics(t)
    [] t.state = "CheckPdiControl" ->
         Goto(t, IF t.info.support_dc THEN "ClearDcActivation" ELSE "Complete")

\* What the states of the SII do with the words they have read.
AfterSii(t, data) ==
  CASE t.state = "GetVenderID" ->
         Goto([t EXCEPT !.info.vender_id = AsU16(data)], "GetProductCode")
    [] t.state = "GetProductCode" ->
         Goto([t EXCEPT !.info.product_code = AsU16(data)], "GetRevision")
    [] t.state = "GetRevision" ->
         Goto([t EXCEPT !.info.revision_number = AsU16(data)], "GetProtocol")
    [] t.state = "GetProtocol" ->
         Goto([t EXCEPT !.info.support_coe = (AsU16(data) \div 4) % 2 = 1], "GetRxMailboxSize")
    [] t.state = "GetRxMailboxSize" ->
         Goto([t EXCEPT !.info = WithMailbox(@, 0, data)], "GetRxMailboxOffset")
    [] t.state = "GetRxMailboxOffset" ->
         Goto([t EXCEPT !.info = WithOffset(@, 0, data)], "GetTxMailboxSize")
    [] t.state = "GetTxMailboxSize" ->
         Goto([t EXCEPT !.info = WithMailbox(@, 1, data)], "GetTxMailboxOffset")
    [] t.state = "GetTxMailboxOffset" ->
         LET info == WithOffset(t.info, 1, data)
             mailboxes == IsMailbox(info.sm[0]) /\ IsMailbox(info.sm[1])
         IN IF mailboxes /\ AreaOverflows(info) THEN Panics(t)
            ELSE Goto([t EXCEPT !.info = WithProcessDataArea(info)], "SetSmControl")

SiiDone(t, r) ==
  LET u == [t EXCEPT !.sii = r, !.first = FALSE] IN
  CASE r.state = "Complete" -> AfterSii(u, r.data)
    [] r.state = "Error" -> InitFails(u, "SiiRead")
    [] OTHER -> u

AlDone(t, a) ==
  LET u == [t EXCEPT !.al = a, !.first = FALSE] IN
  CASE a.state = "Complete" -> Goto(u, "ResetErrorCount")
    [] a.state = "Error" -> InitFails(u, "AlStateTransition")
    [] a.state = "panic" -> Panics(u)
    [] OTHER -> u

\* The tasks that t may become with an answer whose command is the expected one; alNext
\* are the transfers the inner one may become.
SlaveInitRecieved(t, wkc, answer, alNext) ==
  CASE t.state \in Ended -> {t}
    [] t.state \notin Ended /\ wkc # 1 -> {InitFails(t, "UnexpectedWkc")}
    [] wkc = 1 /\ t.state \in WriteStates -> {AfterWrite(t)}
    [] wkc = 1 /\ t.state \in ReadStates -> {AfterRead(t, answer)}
    [] wkc = 1 /\ t.state \in SiiStates -> {SiiDone(t, r) : r \in SiiRecieved(t.sii, answer)}
    [] wkc = 1 /\ t.state = "RequestInitState" -> {AlDone(t, a) : a \in alNext}
=============================================================================

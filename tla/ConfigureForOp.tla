--------------------------- MODULE ConfigureForOp ---------------------------
(***************************************************************************)
(* configure_slaves_for_operation of master/configure_for_op.rs: the PDO   *)
(* maps of the configuration are written to the object dictionaries, the   *)
(* sync managers and FMMUs set up for what the dictionaries then hold, and *)
(* the synchronisation is started.                                         *)
(*                                                                         *)
(* The calls of write_sdo, read_sdo, write_register and read_register are  *)
(* a list of requests to be made, one step each; reads that follow one     *)
(* another are one request, as nobody but the master changes what they     *)
(* read.  A request may fail as the SDO session and the register access do:*)
(* with an error, or for SDOs in the unwrap of the mailbox result, and in  *)
(* both cases before or after the slave has acted on it.  The caller may   *)
(* change the configuration and call again.                                *)
(*                                                                         *)
(* The object dictionary is a store.  The data of one direction of a slave *)
(* is taken to be shorter than 8192 octets, so that its bits fit a u16.    *)
(***************************************************************************)
EXTENDS LogicalBits, FiniteSets, SequencesExt, FiniteSetsExt, TLC

CONSTANTS
  Buses,            \* slaves and the configurations the caller may choose
  MaxSlaves,
  MaxPduDatagram,   \* MAX_PDU_DATAGRAM, 1468 in the code
  MaxCalls,         \* calls of configure_slaves_for_operation
  MaxFaults         \* requests that fail

ASSUME BoundAssumption == MaxCalls \in Nat /\ MaxFaults \in Nat /\ MaxPduDatagram \in Nat

LOGICAL_START_ADDRESS == 4096

Direction == {"Output", "Input"}

SyncMode == {"FreeRun", "SyncManagerEvent", "Sync0Event", "Sync1Event"}

NoSm == -1
DefaultValue == 0   \* CycleTime::DefaultValue; other numbers are SpecifiedValue

NoFmmu == [enable |-> FALSE]

ASSUME BusAssumption ==
  \A b \in Buses : Len(b.slaves) <= MaxSlaves /\ b.configs # {}
                   /\ \A c \in b.configs : Len(c) = Len(b.slaves)

VARIABLES
  bus,          \* slaves and configurations
  hw,           \* of every slave: object dictionary and registers
  config,       \* SlaveConfig of every slave
  fmmu_config,  \* of every Slave: FmmuConfig of FMMU 0, 1 and 2
  placed,       \* LogicalBits of the entries of the configuration
  process,      \* image_size and expected_wkc of the ProcessTask
  phase,        \* the part of the call that is under way
  todo,         \* requests to be made
  result,       \* of the last call
  calls, faults

masterVars == <<config, fmmu_config, placed, process>>
callVars == <<phase, todo, result, calls>>
vars == <<bus, hw, masterVars, callVars, faults>>

Slaves == DOMAIN bus.slaves
FmmuNumber == 0 .. 2

----------------------------------------------------------------------------
(* Requests *)

Sdo(s, index, sub, value, kind) ==
  [op |-> "sdo", s |-> s, address |-> <<index, sub>>, value |-> value, kind |-> kind]

Register(op, s, at, value, kind) ==
  [op |-> op, s |-> s, at |-> at, value |-> value, kind |-> kind]

\* The reads before a sync manager is set up, and before its mode is; the kind of the
\* first error stands for those of all.
SizeOf(s, d, start) ==
  [op |-> "size", s |-> s, d |-> d, start |-> start, kind |-> "GetNumberOfSyncManagerChannel"]

ModesOf(s, d) == [op |-> "modes", s |-> s, d |-> d, kind |-> "GetSyncManagerSyncType"]

Sm(s, d) == bus.slaves[s].sm[d]
SmAssign(s, d) == 7184 + Sm(s, d)     \* 0x1C10
SmSync(s, d) == 7216 + Sm(s, d)       \* 0x1C30

\* Maps without entries are passed over.
UsedMaps(c, d) == SelectSeq(c[d], LAMBDA m : m.entries # <<>>)

MapRequests(s, m) ==
  IF m.is_fixed THEN <<>>
  ELSE <<Sdo(s, m.index, 0, 0, "ClearPdoEntries")>>
         \o [j \in DOMAIN m.entries |->
               Sdo(s, m.index, j, m.entries[j], "AssignPdoEntryToPdoMap")]
         \o <<Sdo(s, m.index, 0, Len(m.entries), "SetNumberOfPdoEntries")>>

\* Mutant: the assignment is not cleared before the maps are written.
OdRequestsUncleared(s, d) ==
  LET maps == UsedMaps(config'[s], d)
      Assign(i) == Sdo(s, SmAssign(s, d), i, maps[i].index, "AssignPdoMapToSyncManager")
  IN IF Sm(s, d) = NoSm THEN <<>>
     ELSE FlattenSeq([i \in DOMAIN maps |-> <<Assign(i)>> \o MapRequests(s, maps[i])])
            \o <<Sdo(s, SmAssign(s, d), 0, Len(maps), "SetNumberOfPdoMappings")>>

\* set_pdo_config_to_od_utility
OdRequests(s, d) ==
  LET maps == UsedMaps(config'[s], d)
      Assign(i) == Sdo(s, SmAssign(s, d), i, maps[i].index, "AssignPdoMapToSyncManager")
  IN IF Sm(s, d) = NoSm THEN <<>>
     ELSE <<Sdo(s, SmAssign(s, d), 0, 0, "ClearPdoMappings")>>
            \o FlattenSeq([i \in DOMAIN maps |-> <<Assign(i)>> \o MapRequests(s, maps[i])])
            \o <<Sdo(s, SmAssign(s, d), 0, Len(maps), "SetNumberOfPdoMappings")>>

\* set_pdo_config_to_od
OdStage == FlattenSeq([s \in Slaves |-> OdRequests(s, "Output") \o OdRequests(s, "Input")])

\* set_pdo_to_sm
SmStage ==
  FlattenSeq([s \in Slaves |->
    IF bus.slaves[s].pdo_start = 0 THEN <<>>
    ELSE <<SizeOf(s, "Output", bus.slaves[s].pdo_start)>>])

----------------------------------------------------------------------------
(* set_pdo_to_sm_utility *)

UsedType == [Output |-> 3, Input |-> 4]

\* The bits of the maps assigned to the sync manager, as read_sdo reads them.
MapBits(od, index) ==
  MapThenSumSet(LAMBDA j : od[<<index, j>>].bits, 1 .. od[<<index, 0>>])

OdBits(s, d) ==
  LET od == hw[s].od IN
  IF bus.slaves[s].types[d] = 0 THEN 0
  ELSE MapThenSumSet(LAMBDA i : MapBits(od, od[<<SmAssign(s, d), i>>]),
                     1 .. od[<<SmAssign(s, d), 0>>])

Octets(bits) == IF bits % 8 = 0 THEN bits \div 8 ELSE bits \div 8 + 1

\* The requests that follow the reads; the data of a sync manager takes three buffers.
SmRequests(s, d, start) ==
  LET size == Octets(OdBits(s, d))
      area == [start |-> start, length |-> size, direction |-> d]
      next == IF Sm(s, d) = NoSm THEN start ELSE start + size * 3
  IN (IF Sm(s, d) = NoSm THEN <<>>
      ELSE <<Register("control", s, d, area, "unwrap"),
             Register("activation", s, d, size # 0, "unwrap")>>)
       \o (IF d = "Output" THEN <<SizeOf(s, "Input", next)>> ELSE <<>>)

\* The assertion on the number of sync managers, and the match on the type.
SizePanics(s, d) ==
  \/ bus.slaves[s].num_sm < 4
  \/ Sm(s, d) # NoSm /\ bus.slaves[s].types[d] \notin {0, UsedType[d]}

\* The FmmuConfig made after the sync manager is set up.
FmmuOf == [Output |-> 0, Input |-> 1]

NewFmmuConfig(start, bits, d) ==
  [physical |-> start, direction |-> d, bits |-> NewLogicalBits(bits)]

----------------------------------------------------------------------------
(* set_logical_address_to_fmmu_config and configure_fmmu *)

Bits(fc, s, i) == fc[s][i].bits.bit_length

Before(s, i) == {t \in Slaves \X FmmuNumber : t[1] < s \/ (t[1] = s /\ t[2] < i)}

\* Mutant: the areas of the FMMUs of a slave all begin where its first begins.
BitAddressOfSlave(fc, s, i) ==
  LOGICAL_START_ADDRESS * 8 + MapThenSumSet(LAMBDA t : Bits(fc, t[1], t[2]), Before(s, 0))

BitAddress(fc, s, i) ==
  LOGICAL_START_ADDRESS * 8 + MapThenSumSet(LAMBDA t : Bits(fc, t[1], t[2]), Before(s, i))

\* One area of the image after the other, for the FMMUs that have a length.
WithAddresses(fc) ==
  [s \in Slaves |-> [i \in FmmuNumber |->
     IF Bits(fc, s, i) = 0 THEN fc[s][i]
     ELSE [fc[s][i] EXCEPT !.bits.address = BitAddress(fc, s, i) \div 8,
                           !.bits.start_bit = BitAddress(fc, s, i) % 8]]]

ImageSize(fc) ==
  Octets(MapThenSumSet(LAMBDA t : Bits(fc, t[1], t[2]), Slaves \X FmmuNumber))

Has(fc, s, d) == \E i \in FmmuNumber : Bits(fc, s, i) # 0 /\ fc[s][i].direction = d

ExpectedWkc(fc) ==
  MapThenSumSet(LAMBDA s : (IF Has(fc, s, "Input") THEN 1 ELSE 0)
                             + (IF Has(fc, s, "Output") THEN 2 ELSE 0), Slaves)

FmmuRegister(f) ==
  [enable |-> TRUE, logical |-> f.bits.address, length |-> ByteLength(f.bits),
   end_bit |-> EndBit(f.bits), physical |-> f.physical, direction |-> f.direction]

FmmuRequests(fc, s) ==
  FlattenSeq([n \in 1 .. 3 |->
    IF fc[s][n - 1].bits.address = NoAddress \/ ByteLength(fc[s][n - 1].bits) = 0 THEN <<>>
    ELSE <<Register("fmmu", s, n - 1, FmmuRegister(fc[s][n - 1]), "SetFmmuRegister")>>])

----------------------------------------------------------------------------
(* set_logical_address_to_pdo_entry_config *)

Entries(c, d) == FlattenSeq([m \in DOMAIN c[d] |-> c[d][m].entries])

BitsBefore(entries, j) == MapThenSumSet(LAMBDA k : entries[k].bits, 1 .. j - 1)

\* Mutant: every entry is placed where the first one is.
PlaceFirst(f, entries, j) ==
  [address |-> f.bits.address, start_bit |-> f.bits.start_bit, bit_length |-> entries[j].bits]

\* An entry that does not begin with an octet is placed one octet further.
Place(f, entries, j) ==
  LET total == f.bits.address * 8 + f.bits.start_bit + BitsBefore(entries, j)
      mod8 == total % 8
  IN [address |-> IF mod8 = 0 THEN total \div 8 ELSE total \div 8 + 1,
      start_bit |-> mod8, bit_length |-> entries[j].bits]

Located(fc, s, d) == fc[s][FmmuOf[d]].bits.address # NoAddress /\ config[s][d] # <<>>

PlacedEntries ==
  [s \in Slaves |-> [d \in Direction |->
     IF ~Located(fmmu_config, s, d) THEN placed[s][d]
     ELSE LET entries == Entries(config[s], d) IN
          [j \in DOMAIN entries |-> Place(fmmu_config[s][FmmuOf[d]], entries, j)]]]

\* The assertion that the entries fill the area of the FMMU.
EntriesMismatch ==
  \E s \in Slaves, d \in Direction :
    /\ Located(fmmu_config, s, d)
    /\ LET entries == Entries(config[s], d) IN
       BitsBefore(entries, Len(entries) + 1) # Bits(fmmu_config, s, FmmuOf[d])

----------------------------------------------------------------------------
(* configure_sync_mode *)

Used(s, d) == bus.slaves[s].types[d] # 0

\* The reads for one direction: the cycle time of the dictionary is an upload of four
\* octets, of which the fifth is taken.
ModesPanic(s, d) ==
  \/ Sm(s, d) = NoSm
  \/ bus.slaves[s].types[d] \notin {0, UsedType[d]}
  \/ Used(s, d) /\ config[s].cycle_time = DefaultValue

\* Mutant: the shortest cycle time of the slave is not looked at.
ModesErrorUntimed(s, d) ==
  IF Used(s, d) /\ config[s].sync_mode \notin bus.slaves[s].modes
  THEN "SyncModeNotSupported" ELSE "none"

ModesError(s, d) ==
  CASE Used(s, d) /\ config[s].sync_mode \notin bus.slaves[s].modes -> "SyncModeNotSupported"
    [] Used(s, d) /\ config[s].sync_mode \in bus.slaves[s].modes
         /\ config[s].cycle_time < bus.slaves[s].min_cycle -> "CycleTimeTooSmall"
    [] OTHER -> "none"

Unless(condition, requests) == IF condition THEN <<>> ELSE requests

ModesRequests(s, d) ==
  LET free == config[s].sync_mode = "FreeRun" IN
  Unless(~Used(s, d),
    <<Sdo(s, SmSync(s, d), 1, config[s].sync_mode, "SetSyncManagerSyncType"),
      Sdo(s, SmSync(s, d), 2, config[s].cycle_time, "SetSyncManagerCycleTime")>>
      \o Unless(free, <<Sdo(s, SmSync(s, d), 8, 1, "ResetSyncError")>>))

\* The larger of the cycle times read is 0: none was read, or the call has panicked.
CycleTime(s) == IF config[s].cycle_time = DefaultValue THEN 0 ELSE config[s].cycle_time

\* Mutant: the start time is waited for before it is set.
SyncRegistersEarly(s, active) ==
  <<Register("sync0", s, 0, CycleTime(s), "SetSync0CycleTime"),
    Register("sync1", s, 0, CycleTime(s) \div 2, "SetSync1CycleTime"),
    [op |-> "wait", s |-> s, kind |-> "SetSyncSignalStartTime"],
    Register("start", s, 0, "ahead", "SetSyncSignalStartTime"),
    Register("active", s, 0, active, "ActivateDc")>>

\* The registers of the synchronisation; the last request waits for the start time to pass.
SyncRegisters(s, active) ==
  <<Register("sync0", s, 0, CycleTime(s), "SetSync0CycleTime"),
    Register("sync1", s, 0, CycleTime(s) \div 2, "SetSync1CycleTime"),
    Register("start", s, 0, "ahead", "SetSyncSignalStartTime"),
    Register("active", s, 0, active, "ActivateDc"),
    [op |-> "wait", s |-> s, kind |-> "SetSyncSignalStartTime"]>>

\* A slave that supports CoE.
SyncRequests(s) ==
  <<ModesOf(s, "Output"), ModesOf(s, "Input")>>
    \o Unless(config[s].sync_mode = "FreeRun", <<Sdo(s, 4337, 2, 9, "ResetSyncError")>>)   \* 0x10F1
    \o SyncRegisters(s, config[s].sync_mode \in {"Sync0Event", "Sync1Event"})

SyncStage ==
  FlattenSeq([s \in Slaves |-> IF bus.slaves[s].coe THEN SyncRequests(s) ELSE <<>>])

----------------------------------------------------------------------------
(* Slaves, external *)

\* What a request does to a slave: an FMMU, or a clock, that it does not have is not set.
Acted(r, h) ==
  CASE r.op = "sdo" -> [h EXCEPT !.od = (r.address :> r.value) @@ @]
    [] r.op = "control" -> [h EXCEPT !.sm[r.at] = r.value @@ @]
    [] r.op = "activation" -> [h EXCEPT !.sm[r.at].enable = r.value]
    [] r.op = "fmmu" /\ r.at < bus.slaves[r.s].fmmu -> [h EXCEPT !.fmmu[r.at] = r.value]
    [] r.op = "sync0" -> [h EXCEPT !.sync0 = r.value]
    [] r.op = "sync1" -> [h EXCEPT !.sync1 = r.value]
    [] r.op = "start" /\ bus.slaves[r.s].clock -> [h EXCEPT !.start = r.value]
    [] r.op = "active" -> [h EXCEPT !.active = r.value]
    [] OTHER -> h

Mailbox(r) == r.op \in {"sdo", "size", "modes"}

\* How a request ends that is not disturbed.  Without a mailbox the answer is waited for
\* in vain, and without CoE it is an error mailbox.
Outcome(r) ==
  CASE Mailbox(r) /\ ~bus.slaves[r.s].mailbox -> "panic"
    [] Mailbox(r) /\ bus.slaves[r.s].mailbox /\ ~bus.slaves[r.s].coe -> r.kind
    [] r.op = "size" /\ bus.slaves[r.s].coe ->
         IF SizePanics(r.s, r.d) THEN "panic" ELSE "Ok"
    [] r.op = "modes" /\ bus.slaves[r.s].coe ->
         CASE ModesPanic(r.s, r.d) -> "panic"
           [] ~ModesPanic(r.s, r.d) /\ ModesError(r.s, r.d) # "none" -> ModesError(r.s, r.d)
           [] OTHER -> "Ok"
    [] r.op = "wait" -> IF hw[r.s].start = "passed" THEN "Ok" ELSE "again"
    [] OTHER -> "Ok"

ClockRuns ==
  \E s \in Slaves :
    /\ hw[s].start = "ahead"
    /\ hw' = [hw EXCEPT ![s].start = "passed"]
    /\ UNCHANGED <<bus, masterVars, callVars, faults>>

----------------------------------------------------------------------------
(* The call *)

\* The requests that the answer to r leads to.
Following(r) ==
  CASE r.op = "size" -> SmRequests(r.s, r.d, r.start)
    [] r.op = "modes" -> ModesRequests(r.s, r.d)
    [] OTHER -> <<>>

Configured(r) ==
  IF r.op # "activation" THEN fmmu_config
  ELSE [fmmu_config EXCEPT ![r.s][FmmuOf[r.at]] =
          NewFmmuConfig(hw[r.s].sm[r.at].start, hw[r.s].sm[r.at].length * 8, r.at)]

Ends(outcome) ==
  /\ phase' = IF outcome = "panic" THEN "panic" ELSE "idle"
  /\ result' = outcome
  /\ todo' = <<>>

Request ==
  /\ todo # <<>>
  /\ LET r == Head(todo) IN
     /\ Outcome(r) # "again"
     /\ IF Outcome(r) = "Ok"
        THEN /\ hw' = [hw EXCEPT ![r.s] = Acted(r, @)]
             /\ fmmu_config' = Configured(r)
             /\ todo' = Following(r) \o Tail(todo)
             /\ UNCHANGED <<phase, result>>
        ELSE Ends(Outcome(r)) /\ UNCHANGED <<hw, fmmu_config>>
  /\ UNCHANGED <<bus, config, placed, process, calls, faults>>

\* The errors of the sync manager registers are unwrapped, like those of the mailbox.
FailureOf(r) ==
  CASE Mailbox(r) -> {r.kind, "panic"}
    [] r.op \in {"control", "activation"} -> {"panic"}
    [] OTHER -> {r.kind}

Fault ==
  /\ todo # <<>>
  /\ faults < MaxFaults
  /\ faults' = faults + 1
  /\ LET r == Head(todo) IN
     /\ hw' \in {hw, [hw EXCEPT ![r.s] = Acted(r, @)]}
     /\ \E outcome \in FailureOf(r) : Ends(outcome)
  /\ UNCHANGED <<bus, masterVars, calls>>

\* configure_slaves_for_operation, with a configuration of the caller.
Start(c) ==
  /\ phase = "idle"
  /\ calls < MaxCalls
  /\ calls' = calls + 1
  /\ config' = c
  /\ placed' = IF c = config THEN placed
               ELSE [s \in Slaves |-> [d \in Direction |->
                       [j \in DOMAIN Entries(c[s], d) |->
                          NewLogicalBits(Entries(c[s], d)[j].bits)]]]
  /\ phase' = "od"
  /\ todo' = OdStage
  /\ result' = "none"
  /\ UNCHANGED <<bus, hw, fmmu_config, process, faults>>

\* From one part of the call to the next.
StageEnds(stage, next) == phase = stage /\ todo = <<>> /\ phase' = next

OdDone ==
  /\ StageEnds("od", "sm")
  /\ todo' = SmStage
  /\ UNCHANGED <<bus, hw, masterVars, result, calls, faults>>

\* Mutant: the size of the image is not checked.
SmDoneUnchecked ==
  /\ phase = "sm"
  /\ todo = <<>>
  /\ fmmu_config' = WithAddresses(fmmu_config)
  /\ phase' = "fmmu"
  /\ todo' = FlattenSeq([s \in Slaves |-> FmmuRequests(fmmu_config', s)])
  /\ UNCHANGED <<bus, hw, config, placed, process, result, calls, faults>>

SmDone ==
  /\ phase = "sm"
  /\ todo = <<>>
  /\ fmmu_config' = WithAddresses(fmmu_config)
  /\ IF ImageSize(fmmu_config) > MaxPduDatagram
     THEN Ends("panic")
     ELSE /\ phase' = "fmmu"
          /\ todo' = FlattenSeq([s \in Slaves |-> FmmuRequests(fmmu_config', s)])
          /\ UNCHANGED result
  /\ UNCHANGED <<bus, hw, config, placed, process, calls, faults>>

FmmuDone ==
  /\ phase = "fmmu"
  /\ todo = <<>>
  /\ process' = [image_size |-> ImageSize(fmmu_config), expected_wkc |-> ExpectedWkc(fmmu_config)]
  /\ placed' = PlacedEntries
  /\ IF EntriesMismatch
     THEN Ends("panic")
     ELSE phase' = "sync" /\ todo' = SyncStage /\ UNCHANGED result
  /\ UNCHANGED <<bus, hw, config, fmmu_config, calls, faults>>

SyncDone ==
  /\ phase = "sync"
  /\ todo = <<>>
  /\ Ends("Ok")
  /\ UNCHANGED <<bus, hw, masterVars, calls, faults>>

----------------------------------------------------------------------------
\* After the initialisation: no sync manager and no FMMU is set, and the status of the
\* mailbox of a slave with two FMMUs or more is to be mapped by the third.
NewHw(sl) ==
  [od |-> sl.od, sm |-> [d \in Direction |-> [start |-> 0, length |-> 0, direction |-> d,
                                              enable |-> FALSE]],
   fmmu |-> [i \in FmmuNumber |-> NoFmmu], sync0 |-> 0, sync1 |-> 0, start |-> "none",
   active |-> FALSE]

MailboxStatus == 2061     \* SyncManagerStatus of sync manager 1

NewFmmuConfigs(sl) ==
  [i \in FmmuNumber |->
     IF i = 2 /\ 2 <= sl.fmmu /\ sl.mailbox THEN NewFmmuConfig(MailboxStatus, 8, "Input")
     ELSE NewFmmuConfig(0, 0, "None")]

Init ==
  /\ bus \in Buses
  /\ hw = [s \in Slaves |-> NewHw(bus.slaves[s])]
  /\ config = [s \in Slaves |-> [Output |-> <<>>, Input |-> <<>>, sync_mode |-> "FreeRun",
                                 cycle_time |-> DefaultValue]]
  /\ fmmu_config = [s \in Slaves |-> NewFmmuConfigs(bus.slaves[s])]
  /\ placed = [s \in Slaves |-> [d \in Direction |-> <<>>]]
  /\ process = [image_size |-> 0, expected_wkc |-> 0]
  /\ phase = "idle"
  /\ todo = <<>>
  /\ result = "none"
  /\ calls = 0
  /\ faults = 0

CallStep == Request \/ OdDone \/ SmDone \/ FmmuDone \/ SyncDone

Next == CallStep \/ Fault \/ ClockRuns \/ \E c \in bus.configs : Start(c)

Spec == Init /\ [][Next]_vars

\* The caller runs, and a clock that has been given a start time reaches it.
FairSpec == Spec /\ WF_vars(CallStep) /\ WF_vars(ClockRuns)

----------------------------------------------------------------------------
(* Properties *)

Ok == phase = "idle" /\ result = "Ok"

TypeOK ==
  /\ bus \in Buses
  /\ \A s \in Slaves : config[s].sync_mode \in SyncMode
  /\ phase \in {"idle", "od", "sm", "fmmu", "sync", "panic"}
  /\ phase \in {"idle", "panic"} => todo = <<>>
  /\ \A s \in Slaves, d \in Direction : Len(placed[s][d]) = Len(Entries(config[s], d))
  /\ \A s \in Slaves, i \in FmmuNumber : hw[s].fmmu[i].enable =>
       hw[s].fmmu[i].logical \in LOGICAL_START_ADDRESS .. LOGICAL_START_ADDRESS + MaxPduDatagram - 1
  /\ process.image_size \in 0 .. MaxPduDatagram
  /\ process.expected_wkc \in 0 .. 3 * MaxSlaves
  /\ calls \in 0 .. MaxCalls
  /\ faults \in 0 .. MaxFaults

\* The sequence an object of the dictionary holds: the first of its sub-indices that
\* its sub-index 0 counts.
Held(od, index) == [j \in 1 .. od[<<index, 0>>] |-> od[<<index, j>>]]

\* What an assignment, and a map, may hold as a whole.
Assignments(s, d) ==
  {Held(bus.slaves[s].od, SmAssign(s, d))}
    \cup {[i \in DOMAIN UsedMaps(c[s], d) |-> UsedMaps(c[s], d)[i].index] : c \in bus.configs}

MapContents(s, index) ==
  {Held(bus.slaves[s].od, index)}
    \cup {m.entries : m \in UNION {ToSet(c[s][d]) : c \in bus.configs, d \in Direction}}

(* The PDO maps of a slave are written one SDO at a time, and the call may *)
(* end with any of them.  A sync manager is never left with half of an     *)
(* assignment: one that counts any maps is that of a configuration or of   *)
(* the slave's start, and each of its maps is whole.  A map is rewritten   *)
(* only while the assignment that names it counts none.                    *)
AssignmentWhole ==
  \A s \in Slaves, d \in Direction :
    LET od == hw[s].od IN
    Sm(s, d) # NoSm /\ bus.slaves[s].coe /\ od[<<SmAssign(s, d), 0>>] # 0 =>
      /\ Held(od, SmAssign(s, d)) \in Assignments(s, d)
      /\ \A i \in 1 .. od[<<SmAssign(s, d), 0>>] :
           LET index == od[<<SmAssign(s, d), i>>] IN
           od[<<index, 0>>] # 0 /\ Held(od, index) \in MapContents(s, index)

\* The octets start .. start + 3 * length - 1 of the buffers of a sync manager.
Buffers(area) == area.start .. area.start + 3 * area.length - 1

\* The octets of the image that an FMMU reads or writes.
Area(f) == f.logical .. f.logical + f.length - 1

\* FMMUs that the last call has not written, and ones that the slave does not have.
Stale(s) == \E i \in FmmuNumber : hw[s].fmmu[i].enable /\ Bits(fmmu_config, s, i) = 0
Lacks(s) == \E i \in FmmuNumber : i >= bus.slaves[s].fmmu /\ Bits(fmmu_config, s, i) # 0

\* What a logical read write of the image adds up to on this bus.
BusWkc ==
  MapThenSumSet(LAMBDA s : (IF \E i \in FmmuNumber : hw[s].fmmu[i].enable
                                 /\ hw[s].fmmu[i].direction = "Input" THEN 1 ELSE 0)
                            + (IF \E i \in FmmuNumber : hw[s].fmmu[i].enable
                                 /\ hw[s].fmmu[i].direction = "Output" THEN 2 ELSE 0), Slaves)

Consistent(s, d) ==
  LET sl == bus.slaves[s]
      sm == hw[s].sm[d]
      f == hw[s].fmmu[FmmuOf[d]]
      maps == UsedMaps(config[s], d)
  IN /\ Held(hw[s].od, SmAssign(s, d)) = [i \in DOMAIN maps |-> maps[i].index]
     /\ \A i \in DOMAIN maps :
          maps[i].is_fixed \/ Held(hw[s].od, maps[i].index) = maps[i].entries
     /\ 8 * sm.length >= OdBits(s, d) /\ 8 * sm.length < OdBits(s, d) + 8
     /\ sm.enable <=> OdBits(s, d) # 0
     /\ Buffers(hw[s].sm["Output"]) \cap Buffers(hw[s].sm["Input"]) = {}
     /\ sm.enable /\ FmmuOf[d] < sl.fmmu =>
          f.enable /\ f.direction = d /\ f.physical = sm.start /\ f.length = sm.length

(* A call that returns Ok has made the slaves and the master agree: every  *)
(* slave holds the maps of the configuration, its sync managers are as     *)
(* long as their data and their triple buffers lie apart, its FMMUs lead   *)
(* there, the FMMUs of all slaves share no octet of the image, and a cycle *)
(* comes back with expected_wkc.  The latter two are lost when a direction *)
(* had data in an earlier configuration and has none now, as its FMMU is   *)
(* not switched off, and the counter also when the master uses an FMMU     *)
(* that the slave does not have.                                           *)
ConfiguredWhenOk ==
  Ok =>
    /\ \A s \in Slaves, d \in Direction :
         Sm(s, d) # NoSm /\ bus.slaves[s].pdo_start # 0 => Consistent(s, d)
    /\ (\A s \in Slaves : ~Stale(s)) =>
         \A t, u \in Slaves \X FmmuNumber :
           LET f == hw[t[1]].fmmu[t[2]]
               g == hw[u[1]].fmmu[u[2]]
           IN f.enable /\ g.enable /\ t # u => Area(f) \cap Area(g) = {}
    /\ (\A s \in Slaves : ~Stale(s) /\ ~Lacks(s)) => BusWkc = process.expected_wkc

\* An entry of whole octets, the j-th of its direction, that begins with an octet.
WholeOctets(s, d, j) ==
  LET entries == Entries(config[s], d) IN
  entries[j].bits % 8 = 0 /\ BitsBefore(entries, j) % 8 = 0

\* The octet of the image the FMMU exchanges with the first octet of the entry.
FirstOctet(s, d, j) ==
  hw[s].fmmu[FmmuOf[d]].logical - LOGICAL_START_ADDRESS
    + BitsBefore(Entries(config[s], d), j) \div 8 + 1

Image == NamedOctets("image", process.image_size)

WrittenRight(b, first) ==
  LET size == b.bit_length \div 8
      data == NamedOctets("data", size)
      after == WriteFromBuffer(b, LOGICAL_START_ADDRESS, Image, data)
  IN after = <<"Some", [n \in DOMAIN Image |->
                 IF n \in first .. first + size - 1 THEN data[n - first + 1] ELSE Image[n]]>>

ReadRight(b, first) ==
  LET size == b.bit_length \div 8
      read == ReadToBuffer(b, LOGICAL_START_ADDRESS, Image, size)
  IN /\ read[1] = "Some"
     /\ \A i \in 1 .. size, k \in BitNumber :
          k < 7 \/ i = size => read[2][i][k] = Image[first + i - 1][k]

(* After Ok, write_pdo of an entry of whole octets changes exactly the     *)
(* octets of the image that the slave takes for that object, and read_pdo  *)
(* returns those the slave has put there for it: the addresses given to    *)
(* the entries, the FMMUs and the maps in the dictionary belong together.  *)
(* Nothing is said of bit 7 of the octets before the last one, which       *)
(* read_to_buffer mixes with bit 0 of the next, and of entries that share  *)
(* an octet.                                                               *)
PdoWhereMapped ==
  Ok => \A s \in Slaves, d \in Direction : \A j \in DOMAIN placed[s][d] :
    WholeOctets(s, d, j) /\ hw[s].sm[d].enable /\ FmmuOf[d] < bus.slaves[s].fmmu =>
      IF d = "Output" THEN WrittenRight(placed[s][d][j], FirstOctet(s, d, j))
      ELSE ReadRight(placed[s][d][j], FirstOctet(s, d, j))

SmUsed(s, d) == bus.slaves[s].coe /\ Used(s, d)

PanicCause ==
  \/ faults > 0
  \/ \E s \in Slaves : LET sl == bus.slaves[s] IN
       \/ ~sl.mailbox /\ (\E d \in Direction : sl.sm[d] # NoSm)
       \/ sl.coe /\ (sl.num_sm < 4 \/ \E d \in Direction : sl.types[d] \notin {0, UsedType[d]})
       \/ config[s].cycle_time = DefaultValue /\ \E d \in Direction : SmUsed(s, d)
       \/ \E d \in Direction : SmUsed(s, d) /\ Located(fmmu_config, s, d)
            /\ OdBits(s, d) # BitsBefore(Entries(config[s], d), Len(Entries(config[s], d)) + 1)
       \/ \E d \in Direction : SmUsed(s, d) /\ OdBits(s, d) % 8 # 0
  \/ ImageSize(fmmu_config) > MaxPduDatagram

RefusalCause ==
  \/ faults > 0
  \/ \E s \in Slaves : LET sl == bus.slaves[s] IN
       \/ sl.mailbox /\ ~sl.coe
       \/ \E d \in Direction : SmUsed(s, d)
            /\ (config[s].sync_mode \notin sl.modes \/ config[s].cycle_time < sl.min_cycle)

(* The call panics, and returns an error, only for a cause: a request that *)
(* failed, a slave the code does not provide for (sync managers without a  *)
(* mailbox, a mailbox without CoE, fewer than four sync managers), the     *)
(* default cycle time, entries that do not fill octets or differ from      *)
(* those of a fixed map, an image that is too large, a mode or a cycle     *)
(* time that the slave does not support.  None of the causes that a slave  *)
(* or the configuration has is passed over in a call that returns Ok.      *)
EndsForCause ==
  /\ phase = "panic" => PanicCause
  /\ phase = "idle" /\ result \notin {"none", "Ok"} => RefusalCause
  /\ Ok /\ faults = 0 => ~PanicCause /\ ~RefusalCause

(* The call ends, unless a slave with CoE has no clock: the loop that      *)
(* waits for the start time then has no end, whatever mode is configured.  *)
ConfigureEnds ==
  (phase = "od" /\ \A s \in Slaves : bus.slaves[s].coe => bus.slaves[s].clock)
    ~> phase \in {"idle", "panic"}
=============================================================================

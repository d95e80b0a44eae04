# TLA+ models of the EtherCAT master

This directory specifies the EtherCAT master in `src/src`: the layer that
multiplexes the PDUs of several tasks onto one Ethernet frame, the tasks that
talk to the slaves over it, and the master that runs them in its cycle and in
blocking calls. The modules are checked with TLC on small instances. The safety
properties of the socket layer, of the mailbox, SDO and AL state tasks, of the
initialisation of the slaves and of the master's cycle are proved with TLAPS for
every value of the constants.

## The system

The master is a `no_std`, single threaded library. Nothing in it runs
concurrently with itself; what makes it hard is that almost every operation is
cut into steps by the network. A task does a step, its PDU travels, slaves act
in between, and the answer arrives later, incomplete, twice or not at all.

| Part | State | Operations | Talks to |
|---|---|---|---|
| `util.rs` IndexSet | array of items and a free list | `add_item`, `remove_item` | holds the sockets |
| `interface/pdu_if.rs` PduInterface | frame buffer, `pdus_total_size`, `pdu_count`, `tx_count`, `recv_data_size` | `add_pdu`, `transmit_one_frame`, `receive_one_frame`, `consume_pdus` | device driver |
| `interface/socket_if.rs` SocketInterface | sockets (command, length, `recv_flag`, buffer), `lost_frame_count` | `set_pdu`, `poll_tx_rx`, `add_socket`, `remove_socket` | PduInterface, tasks |
| `interface/hal.rs` | device | `transmit`, `receive` tokens | Ethernet |
| `task/mod.rs` | step counter of `block_on` | `process_one_step`, blocking calls, `read_sdo`, `write_sdo` | tasks, one socket |
| `task/mailbox*.rs` | state of reader or writer, timer, saved bytes | `start_to_read`, `start_to_write`, step | mailbox of a slave |
| `task/al_state_transfer.rs` | state, timer, target | `start`, step | AL registers of one or all slaves |
| `task/sii_read.rs` | state, timer | `start`, step | EEPROM of a slave |
| `task/slave_initialize.rs`, `network_initilize.rs` | state, inner task, slave info | `start`, step | all of the above |
| `task/dc_initilize.rs` | state, port times | `start`, step | clocks of the slaves |
| `task/loop_task/*` | last answer, counters | step | |
| `master/mod.rs`, `master/mailbox.rs` | seven sockets with their tasks, cycle count | `process`, blocking calls, mailbox requests | sockets |
| `master/configure_for_op.rs`, `slave/*` | PDO mapping, FMMU configuration, logical addresses, mailbox count | `configure_slaves_for_operation`, `increment_mb_count` | SDO calls, registers |
| `frame/*`, `register/*` | none: accessors of bytes | | |

`block_on` and `EtherCatMaster::process` have the same shape: poll until
`poll_tx_rx` returns `Ok(true)`, then step tasks, each of which looks at the
answer in its socket and puts the next PDU there.

What has to be right:

* **Socket table**: no slot leaks or is handed out twice; handles stay valid.
* **Frames**: PDUs are sent once and counted once, however polls are cut short;
  every answer reaches the socket that asked; `Ok(true)` means all answered;
  every command is answered in the end.
* **Mailbox**: an outcome tells the caller what happened to its message; a
  message is written whole; a task ends.
* **SDO**: a call takes no other call's answer; the slave acts once.
* **AL state**: a transfer that completes has brought all its slaves there.
* **Initialisation**: the record of a slave is that of this slave and its own
  EEPROM; `Ok` means that all of them are ready, with mailboxes and process data
  apart from each other; a call fails only for a cause outside, and ends.
* **Clocks**: `Ok` means right delays and offsets and small deviations.
* **Configuration**: dictionaries, sync managers, FMMUs and the addresses the
  master uses for PDO entries agree, also after a call that failed half way.
* **Cycle**: calls in between do not disturb the tasks of the cycle, nor take
  what other calls left in the socket; outputs reach the slaves; mailboxes are
  served.

`PROJECT.json` lists the hazards, each at its line, with the properties that
would catch it.

## Modules

### The socket layer

* `HandleMap` - abstract: a table of at most N items behind handles.
* `IndexSet` - `util.rs`; the array is kept as items and links. Implements
  `HandleMap`.
* `PduExchange` - abstract: a socket carries one request at a time, requests
  leave in rounds, a round ends with all its requests answered.
* `SocketInterface` - `socket_if.rs` and `pdu_if.rs`, with `IndexSet`
  instantiated for the sockets. `poll_tx_rx` is a sequence of steps (one per
  socket of the enqueue loop, one transmission, one reception with the
  delivery) because frames are lost in between and every early return leaves
  buffer and counters for the next poll. Sizes are exact; where `usize` would
  wrap, the model panics, as a build with overflow checks does (`Cargo.toml`
  sets no profile). A build without them goes on with a huge capacity and fails
  later. Device and link are external: not ready, failing before or after the
  closure ran, losing frames. `asked` and `fault` are history variables.
  `RemoveSpec` adds `remove_socket`, which nothing under `src/src` calls.

### The tasks

In all of them a step is `process_one_step` of the task. Between two steps the
PDU in the socket is executed by the slaves or not, and counted or not.

* `MailboxSlave` - external: the two sync managers of a slave's mailbox, with
  the repeat request and its acknowledgement.
* `MailboxTask` - `mailbox.rs`, `mailbox_read.rs`, `mailbox_write.rs`. The
  socket's buffer is modelled as head and body of a message, since the status of
  the mailbox is read over the head of the message that waits to be written.
  Time is what has passed since `timer_start`.
* `SdoSession` - extends `MailboxTask` with `block_on`, `read_sdo`, `write_sdo`
  and the mailbox count. The clock of `block_on` is its step counter in
  nanoseconds, at most 100000, so that no timeout of a task can pass: `Tick` is
  left out and the limit of steps is what ends a call. The slave, external,
  acts on a request unless its count is that of the request before.
* `AlStateTransfer` - `al_state_transfer.rs` with the slaves it addresses. AL
  states are the bits of their code and a broadcast read is the union of the
  bits. The slaves, external, clear an error with the acknowledgement, react to
  a request some time later or refuse it, and go back to Init always.
* `SiiReader` - `sii_read.rs`: operators on the record of a reader. An EEPROM is
  a function from word addresses; a read fills the first two or all four words
  of the data register.
* `SlaveInit` - `slave_initialize.rs`: operators on the record of the task, one
  per state for what it sends and for how it takes the answer, with the `u16`
  arithmetic of mailboxes and process data area. A value outside of `u16`
  panics.
* `NetworkInit` - `network_initilize.rs`, `slave/network.rs` and `init` of the
  master: composes `SlaveInit`, `SiiReader` and an instance of
  `AlStateTransfer`. Variables: the task with its inner tasks, the socket, the
  registers of the slaves (`regs`), the EEPROMs with their PDI, and the table of
  slaves. `block_on` may give up at any step and leaves its PDU in the socket,
  which the next call finds.
* `DcInit` - `dc_initilize.rs`, `RecievedPorts` and `init_dc`: the walk through
  the ports, the means over eight rounds, the writes and the search for a small
  deviation. Receive times are taken modulo `TimeModulus`, as the code takes
  them modulo 2^32. Clocks and wires are external: a slave latches its clock
  when the frame passes, at times given by the network of the instance.

### The master

* `LogicalBits` - `LogicalBits` of `slave/slave.rs`. A bit is the set of the bits
  it is the disjunction of, so that one image shows what a copy does to all.
* `ConfigureForOp` - `configure_for_op.rs`: `configure_slaves_for_operation` as
  the list of its requests, one step each. Any request may fail before or after
  the slave has acted; the caller may change the configuration and call again.
  The reference for `LogicalBits` is what the slave does with its FMMUs.
* `MasterCycle` - `master/mod.rs`, `master/mailbox.rs`, `loop_task/*` and
  `register.rs`: `process`, which steps the tasks of the cycle after a round of
  PDUs, and the calls of an application between two cycles. Rounds are those of
  `PduExchange`, in three phases: idle, sent, arrived. The AL transfer of the
  cycle is an instance of `AlStateTransfer`, the mailbox task one of
  `MailboxTask`. `block_on` steps one task only; the answers of the other
  sockets wait for the next cycle. The constant `Programs` says what an
  application calls, whether `init_dc` has set `dc_task`, and whether the state
  of a mailbox is one of the process data. If it is, the cycle unwraps what it
  reads of it (`StatusUnread`), which it can do once the configuration has given
  the FMMU an address, with a buffer that is long enough.
* `MC*` give the constants their values; `*Proofs` hold the inductive invariants
  and the theorems of the module they are named after.

A definition whose comment begins with "Mutant" is a variant of the one that
follows, with a plausible bug; nothing uses it but the record of mutants in
`PROJECT.json`, which says for each property the variant that violates it.

## Runs

| Run | Shows | Bounds |
|---|---|---|
| `index_set` | free list complete, implements `HandleMap` | 4 slots, so that slots are freed in every order; 2 items |
| `socket_interface` | counters, routing, rounds, `Ok(true)`, progress | 3 sockets, a frame of 40 bytes, commands of 14, 26 and 30 bytes: two short ones fit and a third has to wait, a long one leaves no room, a middle one fills the frame with a short one |
| `socket_full` | **violated**: adding a PDU always succeeds | as above, no faults |
| `socket_lost` | **violated**: a lost frame is noticed | as above, without the command that fills the frame |
| `mailbox_task` | outcomes, whole messages, end of the task | 2 messages, timeouts of 1 and 2 ticks, every PDU may be missed or miscounted |
| `sdo_session` | own answers, acting once, end of the call | 3 calls, counts 1 and 2 so that they start again, 1 emergency, 6 steps so that a lost message can be repeated |
| `al_state` | all slaves reached, prepared, end | 2 slaves in any states, broadcast and one addressed alone, 1 fault |
| `network_init` | own records, ready after `Ok`, causes of failure, end | nine networks of up to 2 slaves: with and without mailbox, clock and room in the table, mailboxes at both ends of the memory, one larger than the code allows, EEPROMs of both widths, not loaded, faulty; 3 calls, 1 fault |
| `configure_op` | whole mappings, agreement after `Ok`, place of entries, causes, end | eight networks of up to 3 slaves, each with its configurations, 2 calls so that the second finds what the first left, 1 failing request, an image of 12 octets so that one configuration is too large |
| `dc_init` | right delays and offsets, causes, end | fourteen networks of up to 3 slaves: lines, a branch, clocks about to wrap, slaves without a clock; 8 rounds and a target of 50 as in the code, clocks modulo 128, 2 calls, 1 fault |
| `master_cycle` | calls, transfer of the cycle, outputs | 2 slaves, four applications of which each uses one group of calls, 2 calls, 1 fault |
| `mailbox_polled` | **violated**: a message that shows is fetched | as `master_cycle`, no faults |

`network_init` has about 180 000 states, `configure_op` 20 000, `dc_init`
98 000, `master_cycle` 550 000. One fault is enough for the cases in question: a
task that has met a wrong counter ends, and a second call meets what is left.
Three slaves in a line are the fewest with one that has neighbours on both
sides; for initialisation, which takes one slave after the other, two are.

Deadlock is not checked where the system may stop: after a panic, and when an
application has made its last call.

### Fairness

* `socket_interface`: the callers poll in a loop (weak fairness of the poll);
  a device that is asked again and again is ready at some time, and a frame
  that is not lost is received at some time (strong fairness, because
  `TxNotAvailable` and `RxNotAvailable` end the poll). Losing a frame is never
  forced.
* `mailbox_task`, `al_state`: the master steps its tasks in every cycle, frames
  come back, time goes on. Nothing is assumed of the slave: the tasks end by
  their own timers. The one exception is the loop of the AL transfer that
  acknowledges an error; it has no timer and ends because the slave clears the
  error, and a slave raises only a bounded number of errors by itself.
* `sdo_session`, `dc_init`: the caller runs and frames come back; the limit of
  steps does the rest.
* `network_init`: the same, and slaves react and EEPROMs load, so that the limit
  of steps is not what ends a call.
* `configure_op`: the caller runs, and a clock that was given a start time
  reaches it. No answer is assumed: a request without one fails.
* `master_cycle`, `mailbox_polled`: the application repeats `process`, and frames
  come back. It need not make any call; the slave need not put anything into its
  mailbox.

### What the violated runs show

1. **Nearly full frame** (`socket_full`). `remainig_pdu_data_capacity` subtracts
   the overhead of another PDU from what is left. If that is less than 12 bytes
   the subtraction underflows as soon as another socket is looked at, also one
   that has nothing to send. `.expect("always success")` behind it is right only
   for frames that are never that full.
2. **Lost frame** (`socket_lost`). `lost_frame_count` is never written. After a
   loss `tx_count` stays positive, polls return `RxNotAvailable` for ever, and
   `block_on` goes round without counting.
3. **No mailbox is polled** (`mailbox_polled`). The slave found to have a message
   is forgotten in the last line of the function that finds it. The
   counterexample goes round through send, arrival and `process`, with a full
   mailbox shown in every cycle. Without that line (`FindSlave` returning the
   slave) the same property holds on the same instance.

### Exceptions that the properties name

What the code does not guarantee is an exception in the property, stated in its
comment, so that the run still checks the rest. Such a property shows that there
is no other case; it does not flag the one it excepts, and `PROJECT.json` says so
at each hazard concerned. The exceptions are needed: with any of the following
left out, TLC finds the property violated on the same instance.

| Property | Exception | What it stands for |
|---|---|---|
| `CallOkIsDone` | `met`, `stale` | leftovers taken for an answer, `read_al_state` |
| `CycleTransferHolds` | `disturbed` | `change_al_state` in the middle of a transfer |
| `OutputReaches` | `raced` | output written while the process data travel |
| `InfoIsOwn` | `ignored` | EEPROM errors overwritten, EEPROM taken too late |
| `ReadyWhenComplete` | `miscounted` | a leftover taken for the count of the slaves |
| `InitEnds` | `FirstPduMissed` | inner task failed, outer one waits |
| `ConfiguredWhenOk` | `Stale`, `Lacks` | FMMU left on, FMMU that does not exist |
| `PdoWhereMapped` | `WholeOctets`, bit 7 | entries within an octet, shift when reading |
| `MeasuredRight` | `Line`, `Early` | branches, clocks that wrap |

None of them has a violated run beside the passing one: for most, nothing in the
repository claims otherwise (the comment on `process` asks for it to be repeated
until the cycle count rises, `src/README.md` lists the support of distributed
clocks as still to come), and the others are listed below.

* `WrittenWhole`: with `wait_empty` the head of a message is lost under the
  status read into the same buffer.
* `CompleteMeansReached`, `WritesPrepared`, `TransferEnds`, `CallOkIsDone`,
  `CycleTransferHolds`: slaves in Init and PreOperational read as Bootstrap in a
  broadcast; if one of them has an error, all are asked to go to Bootstrap again
  and again.
* `InfoIsOwn`, `FailsWithCause`: errors of the EEPROM that the SII reader finds in
  `Init` and `CheckOwnership` are overwritten by its next state.
* `ReadyWhenComplete`: nothing compares the mailboxes of the EEPROM with the
  memory of the slave; if one of them lies outside, so may the area for process
  data (`MailboxesInRam`). FMMUs from the fifth and sync managers from the sixth
  are not reset.
* `InitEnds`: a slave that misses the first PDU of its initialisation leaves the
  outer task waiting for an inner one that has failed.
* `ReadyWhenComplete`, `CallOkIsDone`: a new task compares the answer it finds
  with `Command::default`, a read of register 0 of slave 0, and takes the read of
  `DlInformation` that a call left behind for its own. `read_al_state` returns
  nothing but such leftovers, or panics, as its task is never busy.
* `ConfiguredWhenOk`: the FMMU of a direction that has no data any more stays
  on; an FMMU that the slave does not have is counted in `expected_wkc`.
* `PdoWhereMapped`: entries that share an octet; `read_to_buffer` shifts the
  bits of the next octet by one too few, and mixes bit 7 with bit 0 of the next.
* `EndsForCause`, `ConfigureEnds`: the default cycle time always panics; a slave
  with CoE and without a clock is waited for without an end.
* `MeasuredRight`: offsets are right only while no receive time has
  wrapped; delays only on a line. A network of slaves with and without clocks
  never completes.
* `CycleTransferHolds`: `change_al_state` works on the same slaves as a transfer
  of the cycle that is half way.
* `OutputReaches`: an output written while the process data are under way is
  overwritten by the answer.

Met while modelling, without a run of their own:

* A repeat request that the slave misses (`mailbox_read.rs:168`) is never sent
  again, as its working counter is not looked at: the message is lost and the
  timer ends the task, although `src/README.md` lists the Mailbox Resilient
  Layer. `ReadOutcome` and `TaskEnds` hold all the same.
* `read_al_state` never reads: `AlStateReadTask` is not busy at any time, so that
  `block_on` returns before the PDU is sent. With an empty socket the state that
  is unwrapped is not there.
* `process` panics when a buffer is registered and a mailbox status has no place
  in the image yet (`StatusUnread`), that is before
  `configure_slaves_for_operation`; `examples/pcap_test.rs` registers first.
* None of the five errors that `sii_read.rs` finds before it takes the EEPROM is
  reported, and a read that the PDI begins before that supplies the words.
* `read_to_buffer` shifts the next octet by `7 - start_bit`: bit 0 of it falls on
  bit 7 of this one, also for entries that begin with an octet. Entries that
  begin within an octet are placed one octet too far, the last one beyond its
  FMMU.
* The FMMU for the state of the mailbox is set up for slaves that have only two;
  they never count for it.
* After `remove_socket` PDUs are numbered by their position among the sockets
  that exist but delivered by slot; `AnswersMatch` does not hold of `RemoveSpec`.
  The proofs hold because nobody calls it.
* The AL transfer multiplies its timeout in milliseconds by 10^9 to get
  nanoseconds: 3 s take 50 minutes. `sii_read.rs` multiplies by 1000 only.
* When reader or writer end in `BufferSmall`, `MailboxTask` stays busy and sends
  nothing.
* `RxErrorTask` reads slave 0 only; `DcSyncTask` loses the sign that its comment
  promises; `init_dc` without a clock keeps the old `dc_task`; the three areas
  of a sync manager are not compared with the size of the memory; the master
  ignores errors while waiting for a mailbox; a process data buffer registered
  before the configuration is accepted whatever its length, and registering a
  second one panics.
* `read_register` for 0 bytes sends an empty PDU. The iterators over the PDUs of a
  frame stop at it: it and all behind it are never transmitted, and `pdu_count`
  stays above zero. `LengthAssumption` excludes it from `SocketInterface`, whose
  properties say nothing of such a call; nothing in the repository makes one.

## Proofs

For every value of the constants that satisfies the assumptions in the modules.
None of the properties is inductive as it stands. Each proof module defines the
invariant that is, as a conjunction of named parts, and proves that it holds at
first, that every action keeps it (one lemma per action) and that the property
follows.

**`IndexSetProofs`**: `TypeOK`, `FreeListComplete` and the refinement of
`HandleMap`. `FreeListComplete` is inductive together with `TypeOK`: its witness,
the sequence of free slots, loses its head with `add_item` and gets a new one
with `remove_item`.

**`SocketInterfaceProofs`**: `TypeOK` of the socket layer. `PollInv` is inductive together with `TypeOK`, and
`CountersAccount`, `AnswersMatch` and `TrueMeansAllReceived` follow. Its parts:
the sockets fill the slots from 0 on (`NoHoles`), so that position and slot are
the same; at most one frame is under way and it is the buffer (`OneFrame`); what
the enqueue loop has passed is taken (`LoopPassed`), and whatever is left behind
a frame under way is behind a socket that does not fit (`Blocked`), so that polls
made meanwhile add nothing to the buffer - the reason why the counters never
underflow; a PDU in the buffer belongs to the socket its index names
(`BufferOwned`), and every command asked for is in its socket or in the buffer
(`AskedTraceable`). The assumption `NumSockets <= 255` is what lets the index of
a PDU, one byte, name a socket.

The sockets implement `PduExchange`. The refinement
mapping looks for a request in the socket and then in the buffer; under `PollInv`
the history variable `asked` names the same request, and the proof compares every
step of a poll with a step of the abstract exchange or a stutter, socket by
socket.

**`AlStateTransferProofs`**: `TypeOK`, `CompleteMeansReached` and
`WritesPrepared`, from `TransferInv`. A busy task compares with the PDU that is
in its socket (`PduIsOwn`), an answer that counts in full is what all slaves were
in when it was read (`AnswerTold`), the way to the request was chosen by a read
without errors (`NoErrorSeen`). The rest is about bits: a broadcast that reads as
a state other than Bootstrap comes from slaves that are all in it.

**`MailboxTaskProofs`**: `TypeOK`, `ReadOutcome`, `WriteOutcome` and the action
property `WrittenWhole`, from `MailboxInv`. An access that was counted has been
executed (`CountedIsDone`) and before the state of the mailbox is known there was
none (`CheckedFirst`), which is what makes the errors trustworthy; the message is
in the buffer or its head is saved (`MessageKept`).

**`SdoSessionProofs`**: `ActedOnce` and `OkIsOwnAnswer` for any number of calls,
from `SessionInv`, which extends `MailboxInv`. The slave has acted on the calls
up to some `A`, once on each, and a request that it has not acted on waits in its
mailbox (`ActedInv`). Repeat request and acknowledgement are apart only while the
reader asks (`RepeatInv`), so that no message is repeated that a call has taken
already. The answers come in the order of the calls and only emergencies make the
calls lag behind (`AnswerInv`): the distance between a call and the answer it
takes is at most the number of emergencies, and the count of a mailbox header
tells answers apart that are less than `CountLimit` away from each other. Hence
the assumption of `OkIsOwnAnswer`, fewer emergencies than counts: with as many,
the answer of a call `CountLimit` before has the same count. `CountLimit` is 7 in
the code; the proof needs at least 2, since a slave that sees the same count twice
takes the second request for a repetition.

**`NetworkInitProofs`**: `TypeOK`, `InfoIsOwn`, `ReadyWhenComplete` and
`FailsWithCause` of `init`, for every network of slaves with any EEPROM, registers
and memory, any number of calls, of which each may give up anywhere, and of faults.
They follow from `NetworkInv`.

* `Rank` numbers the places of the slave's task in the order in which it passes
  them, `ResetAt` the places at which a register is reset. A register that is
  still dirty is one whose place is ahead (`SlaveDone`), so at the end only those
  that have no place are; the same numbers say what has been found out by then
  about the slave (`LinkKnown`, `EepromKnown`, `AreaKnown`). `WriteMoves` and
  `ResetHere` show that no place is left out.
* The PDU in the socket is that of the slave's task (`Own`), although a call that
  gave up may have left another one there: only the count can meet it, and then
  `Counting` says what it may be. A PDU that is back and counted was executed, and
  what it read is still so where the task relies on it (`Answered`): the answer of
  a slave in Init is the answer of one that stays there, while a busy EEPROM may
  have loaded meanwhile.
* A read of the EEPROM takes seven PDUs. `SiiPrepared` says what each state of the
  reader relies on: the interface is idle and belongs to the master, the address
  is the one asked for, the interface loads that address or has loaded it
  (`Loading`, `Loaded`). It is not so for a slave whose error was overwritten,
  hence the history variable `ignored`.
* `AreaIsRight`: the arithmetic of `set_process_data_sm_size_offset` for all sizes
  and offsets.
* One lemma per kind of answer says what becomes of the slave's task (`Outcome`:
  it goes on, or it fails or panics for a cause), one per action that the
  invariant is kept; the slaves that were pushed are out of reach of later PDUs,
  which are addressed to the next one.

`BusAssumption` says what a network is: at least one position, and slaves whose
EEPROM has words of 16 bits. `TimerAssumption` says that `block_on` gives up
before the timers of the reader and of the transfer run out, which is so in the
code: 100000 steps of a nanosecond are 100000, and the reader waits for more than
that. A proof without it is not to be had: a timeout would be a failure for no
cause outside of the master. The attempt to prove `ReadyWhenComplete` showed the
exception of `MailboxesInRam`, and the one to prove `InfoIsOwn` that the words of
the protocols had been spelt out for the EEPROMs of the run only.

**`DcInitProofs`**: `FailsForCause` of `init_dc`, for every network, whatever its
wires and clocks, every number of rounds, calls and faults. It follows from `DcInv`.

* A PDU in the socket is the one that the state of the task sends (`Own`, `Table`),
  or the task has sent nothing and meets what an earlier call left (`Fresh`). If
  every slave has a clock and none missed the PDU then its working counter is the
  expected one (`ActedCount`), hence the causes of `UnexpectedWkc` and
  `UnexpectedCommand`.
* The offsets, and then the delays, are written up to the slave that the task is
  at (`WrittenTo`), and that slave holds its value once a PDU with working counter
  1 is back (`Executed`). `NextDc` leaves none out (`NextDcBehind`).
* `InTime` bounds the steps of `block_on` at each state: `Len(bus) + 1` for a round,
  two for each slave to write. `StepAssumption`, the limit is at least that, holds
  in the code for networks of up to 9998 slaves. So a task at the limit is past its
  writes (`LimitWhenWritten`).

`FailsForCause` speaks of the clocks from `task.first` on. That no clock is before
it, and that panics have a cause, are in `PanicsForCause`, a part of
`MeasuredRight`: they depend on the whole walk through the ports, a fold, and on the
durations measured, and are model-checked.

**`MasterCycleProofs`**: `CallOkIsDone` and `CycleTransferHolds`.

* `CycleInv` is inductive. A call finds its own PDU in the general purpose
  socket or, before it has sent one, what an earlier call left there and it does
  not take for its own (`CallOwn`); the transfer of the cycle has its socket for
  itself (`TransferOwn`). An own PDU that counts in full has been executed by all
  slaves, and nothing that is sent before the call returns undoes it.
* For the transfer it is not enough to know what its last read saw: a slave may
  still have a request to act on, from the acknowledgement of an error, which
  carries a state, or from an earlier transfer. `TransferHolds` says for each state of the
  transfer what the slaves may have been asked for: as long as some slave is off
  the target no read finds the target (`Off`), and once the target is requested
  nothing else is (`Requested`). So a read that finds it finds it for good
  (`ReadTells`). Acknowledging an error of slaves in mixed states asks for Init;
  if that is the target it needs an argument of its own (`ToInit`), as a slave
  never refuses Init.

An attempt to prove `CycleTransferHolds` and `CallOkIsDone` for all target states
showed that both had to name the exception of Bootstrap: the run asks for
PreOperational and SafeOperational only.

Before a proof TLC checked the inductive invariant as an invariant of the run's
instance, and that of `MasterCycle` also with other targets, three calls and two
faults.

Only model-checked:

* liveness, everywhere: `TransferEnds`, `TaskEnds` and the like rest on fairness,
  which the prover does not treat;
* `ConfigureForOp` and `LogicalBits`: what they promise is about sums and
  concatenations over lists of entries, which takes induction over the data;
* `TypeOK` and `MeasuredRight` of `DcInit`: they are about sums
  and means of times along the path through a topology.

## Not modelled

* Byte formats of frames, registers and CoE: accessors without state. The models
  use fields where code branches on them.
* The adapters for smoltcp and pcap: I/O.
* The typed accessors of the master (`read_write_as.rs`): they convert arguments
  and results of calls that are modelled.
* `read_sii` as a call of its own: the reader is modelled inside the
  initialisation, which steps it the same way.
* The times that `DcSyncTask` keeps: nothing in the repository reads them.
* `task/sdo*.rs`, which no `mod` declares.

## Plan

What is left is to prove the parts of `EndsForCause` and `AssignmentWhole`
(`ConfigureForOp`) that do not depend on sums.

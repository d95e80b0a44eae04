------------------------------- MODULE DcInit -------------------------------
(***************************************************************************)
(* task/dc_initilize.rs with RecievedPorts of slave/network.rs: init_dc    *)
(* follows the ports through which a frame passes, measures the delays of  *)
(* the wires and the offsets of the clocks in Rounds rounds, writes them   *)
(* and distributes the time of the first clock until the deviations that   *)
(* the slaves report are small.                                            *)
(*                                                                         *)
(* The receive times are the low TimeModulus of the clocks.  A call runs   *)
(* in block_on, which gives up after StepLimit steps or with an error of   *)
(* the link and leaves its PDU in the socket.  The slaves are external: a  *)
(* slave latches its clock when a frame passes its ports, and reports a    *)
(* deviation that the distributed time may or may not make smaller.        *)
(***************************************************************************)
EXTENDS Integers, Sequences, SequencesExt, FiniteSetsExt

CONSTANTS
  Buses,         \* sequences of slaves: [dc, acks, clock, at]; acks: it acknowledges the
                 \* registers of the clock; at: when a frame passes each linked port
  MaxSlaves,
  Rounds,        \* COUNT_MAX
  DriftMin,      \* DRIFT_COUNT_MIN
  DriftBack,     \* 100
  Target,        \* TARGET_DELTA_NS
  TimeModulus,   \* 2^32
  Gap,           \* the time between two latches
  Deviations,    \* what slaves report at first, as sets of bits
  StepLimit,     \* 100000, of block_on
  MaxCalls, MaxFaults

Pos == 0 .. MaxSlaves - 1
Port == 0 .. 3
Time == 0 .. TimeModulus - 1

ASSUME DcAssumption ==
  /\ MaxSlaves \in Nat
  /\ \A b \in Buses : b \in Seq(Range(b)) /\ Len(b) <= MaxSlaves
  /\ \A b \in Buses : \A i \in DOMAIN b :
       DOMAIN b[i].at \in (SUBSET Port) \ {{}} /\ b[i].clock \in Nat /\ (b[i].dc => b[i].acks)
  /\ {Rounds, DriftMin, StepLimit, TimeModulus} \subseteq Nat \ {0}
  /\ DriftBack \in Nat /\ Target \in Nat /\ MaxFaults < DriftMin

\* block_on allows the steps it takes to measure and to write: 100000 are enough for
\* 8 rounds with 9998 slaves.
ASSUME StepAssumption ==
  \A b \in Buses : 2 + Rounds * (Len(b) + 1) + 2 * Len(b) <= StepLimit

VARIABLES
  bus,          \* the slaves of the network, in the order of their positions
  task,         \* DcInitTask, and the count of block_on
  dcs,          \* dc_context of the slaves
  socket,       \* the PDU and its answer
  dc_task,      \* EtherCatMaster::dc_task, set when init_dc ends
  latched,      \* slaves: DcRecieveTime
  hw,           \* slaves: the offset and the delay that were written
  delta,        \* slaves: DcSystemTimeDelta, as a set of bits
  now, faults, calls,
  missed, stale \* history: of this call, a PDU was missed; it met an old PDU

deviceVars == <<latched, hw, delta, now>>
vars == <<bus, task, dcs, socket, dc_task, deviceVars, faults, calls, missed, stale>>

Slaves == 0 .. Len(bus) - 1
Slave(p) == bus[p + 1]
Linked(p) == DOMAIN Slave(p).at
DcSlaves == {p \in Slaves : Slave(p).dc}

None == -1
NoPort == 4

\* DcContext::default
NewDc == [parent |-> <<None, None>>, time |-> [q \in Port |-> 0], latched |-> 0, delay |-> 0,
          offset |-> 0]

NoPdu == [command |-> <<"none", "none">>, pos |-> None, value |-> 0, recv_flag |-> FALSE, wkc |-> 0,
          answer |-> [q \in Port |-> 0], bits |-> {}]

\* Command::default: a read of register 0.
DefaultCommand == <<"APRD", "DlInformation">>

\* DcInitTask::new
NewDcInit == [state |-> "Idle", count |-> 0, pos |-> 0, first |-> None, error |-> "none",
              command |-> DefaultCommand, steps |-> 0]

Busy == task.state \notin {"Idle", "Error", "Complete", "panic"}

Init ==
  /\ bus \in Buses
  /\ task = NewDcInit
  /\ dcs = [p \in Pos |-> NewDc]
  /\ socket \in {NoPdu} \cup (IF bus = <<>> THEN {}
                  ELSE {[NoPdu EXCEPT !.command = DefaultCommand, !.pos = 0, !.recv_flag = TRUE,
                                      !.wkc = 1]})
  /\ dc_task = [first |-> None, count |-> 0]
  /\ latched = [p \in Pos |-> [q \in Port |-> 0]]
  /\ hw = [p \in Pos |-> [offset |-> 0, delay |-> 0]]
  /\ \E d \in Deviations : delta = [p \in Pos |-> d[p + 1]]
  /\ now = 0 /\ faults = 0 /\ calls = 0
  /\ missed = FALSE /\ stale = FALSE

----------------------------------------------------------------------------
(* RecievedPorts *)

\* The first linked port after q, or NoPort.
NextPort(p, q) ==
  LET after == {r \in Linked(p) : q < r} IN IF after = {} THEN NoPort ELSE Min(after)

FirstPort(p) == NextPort(p, None)

\* RecievedPorts::next: the place (position, current port of each slave), the ports passed
\* so far, and whether the walk has ended or has left the table.
NextRecieved(w) ==
  LET p == w.position
      q == w.current[p]
      r == NextPort(p, q)
      moved == [w EXCEPT !.current[p] = r,
                         !.position = IF r # NoPort THEN p + 1 ELSE IF 1 <= p THEN p - 1 ELSE p]
  IN CASE w.over -> w
       [] ~w.over /\ p \notin Slaves -> [w EXCEPT !.over = TRUE, !.panic = TRUE]
       [] ~w.over /\ p \in Slaves /\ q = NoPort -> [moved EXCEPT !.over = TRUE]
       [] ~w.over /\ p \in Slaves /\ q # NoPort -> [moved EXCEPT !.ports = Append(@, <<p, q>>)]

\* recieved_ports, to its end: a slave is passed at most once through each port.
RecievedPorts ==
  FoldLeft(LAMBDA w, k : NextRecieved(w),
           [position |-> 0, ports |-> <<>>, over |-> FALSE, panic |-> FALSE,
            current |-> [p \in 0 .. MaxSlaves |-> IF p \in Slaves THEN FirstPort(p) ELSE NoPort]],
           [k \in 1 .. 4 * MaxSlaves + 1 |-> k])

\* The port before the one through which slave p was first passed; the slave that is
\* passed first has one only if it is passed again.
ParentPort(ports, p) ==
  LET visits == {k \in 2 .. Len(ports) : ports[k][1] = p}
  IN IF visits = {} THEN <<None, None>> ELSE ports[Min(visits) - 1]

\* DcInitTask::start
Start ==
  LET walk == RecievedPorts
      dc == {k \in 1 .. Len(walk.ports) : walk.ports[k][1] \in DcSlaves}
  IN /\ ~Busy /\ task.state # "panic"
     /\ calls < MaxCalls
     /\ calls' = calls + 1
     /\ task' = [NewDcInit EXCEPT !.state = IF Slaves = {} \/ walk.panic THEN "panic"
                                            ELSE "ClearOffset",
                                  !.first = IF dc = {} THEN None ELSE walk.ports[Min(dc)][1]]
     /\ dcs' = [p \in Pos |-> [NewDc EXCEPT !.parent = ParentPort(walk.ports, p)]]
     /\ missed' = FALSE /\ stale' = (socket # NoPdu)
     /\ UNCHANGED <<bus, socket, dc_task, deviceVars, faults>>

----------------------------------------------------------------------------
(* recieve_and_process; results are pairs of the task and the contexts. *)

Result(t, d) == [task |-> t, dcs |-> d]

Fails(t, e) == Result([t EXCEPT !.state = "Error", !.error = e], dcs)

\* Mutant: a clock that passed its largest value is not thought of.
DurationUnwrapped(first, second) == IF first < second THEN second - first ELSE 0

\* The time from first to second in u32.
Duration(first, second) ==
  IF first < second THEN second - first ELSE (TimeModulus + second - first) % TimeModulus

\* Mutant: the measurements are added up.
AverageSummed(old, new) == old + new

\* The mean of the rounds: the first value is taken, later ones are averaged.
Average(old, new) == IF old = 0 THEN new ELSE old \div 2 + new \div 2

\* The durations around the slave and around its parent.
InnerLoop(p, time) ==
  LET last == Max(Linked(p))
  IN IF last = FirstPort(p) THEN 0 ELSE Duration(time[FirstPort(p)], time[last])

OuterLoop(parent) ==
  LET time == dcs[parent[1]].time
  IN Duration(time[parent[2]], time[NextPort(parent[1], parent[2])])

\* The slaves for which the walk found no parent, or for whose parent no later port,
\* and those whose loop is longer than the one of the parent: unwrap and the
\* subtraction of u32 panic.
DelayPanics(p, time) ==
  LET parent == dcs[p].parent IN
  \/ parent[1] = None
  \/ NextPort(parent[1], parent[2]) = NoPort
  \/ OuterLoop(parent) < InnerLoop(p, time)

\* The delay of the parent and the wire's.
DelayOf(p, time) ==
  dcs[dcs[p].parent[1]].delay + (OuterLoop(dcs[p].parent) - InnerLoop(p, time)) \div 2

\* The contexts after the last slave of a round.
WithOffsets(d) ==
  LET max == Max({d[p].latched : p \in Slaves})
  IN [p \in Pos |-> IF p \in Slaves
                    THEN [d[p] EXCEPT !.offset = Average(@, max - d[p].latched)] ELSE d[p]]

\* The state that follows the last slave of a round.
RoundDone(t) ==
  CASE t.count + 1 < Rounds -> [t EXCEPT !.state = "RequestToLatch", !.count = @ + 1]
    [] t.count + 1 >= Rounds /\ t.first # None ->
         [t EXCEPT !.state = "SetOffset", !.pos = t.first, !.count = 0]
    [] t.count + 1 >= Rounds /\ t.first = None -> [t EXCEPT !.state = "Complete"]

\* CalculateDelay
DelayCalculated(t) ==
  LET p == t.pos
      time == socket.answer
      measured == t.first # None /\ t.first < p
      delay == IF measured THEN Average(dcs[p].delay, DelayOf(p, time)) ELSE dcs[p].delay
      d == [dcs EXCEPT ![p].time = time, ![p].latched = time[FirstPort(p)], ![p].delay = delay]
  IN CASE measured /\ DelayPanics(p, time) -> Result([t EXCEPT !.state = "panic"], dcs)
       [] ~(measured /\ DelayPanics(p, time)) /\ p + 1 < Len(bus) ->
            Result([t EXCEPT !.pos = @ + 1], d)
       [] ~(measured /\ DelayPanics(p, time)) /\ p + 1 >= Len(bus) ->
            Result(RoundDone(t), WithOffsets(d))

\* Mutant: the last slave with a clock is left out.
NextDcShort(t) ==
  LET after == {p \in DcSlaves : t.pos < p} IN IF Cardinality(after) <= 1 THEN None ELSE Min(after)

\* The next slave with a clock, or None.
NextDc(t) == LET after == {p \in DcSlaves : t.pos < p} IN IF after = {} THEN None ELSE Min(after)

\* SetOffset and SetDelay
Written(t, state, pos) ==
  IF NextDc(t) # None THEN [t EXCEPT !.pos = NextDc(t)]
  ELSE [t EXCEPT !.state = state, !.pos = pos]

BitsValue(bits) == MapThenSumSet(LAMBDA b : 2 ^ b, bits)

\* Mutant: a deviation that is too large is distributed over again from the start.
DeltaCheckedForever(t) ==
  IF BitsValue(socket.bits) <= Target THEN [t EXCEPT !.state = "Complete"]
  ELSE [t EXCEPT !.state = "CompensateDrift", !.count = 0, !.steps = 0]

\* CheckDelta
DeltaChecked(t) ==
  IF BitsValue(socket.bits) <= Target THEN [t EXCEPT !.state = "Complete"]
  ELSE [t EXCEPT !.state = "CompensateDrift",
                 !.count = IF DriftBack < DriftMin THEN DriftMin - DriftBack ELSE 0]

\* The working counter that each state expects.
ExpectedWkc(t) ==
  CASE t.state \in {"ClearOffset", "ClearDelay", "RequestToLatch"} -> Len(bus)
    [] t.state \in {"CalculateDelay", "SetOffset", "SetDelay"} -> 1
    [] t.state \in {"CompensateDrift", "CheckDelta"} -> Cardinality(DcSlaves)

Recieved(t) ==
  IF socket.command # t.command THEN Fails(t, "UnexpectedCommand")
  ELSE IF socket.wkc # ExpectedWkc(t) THEN Fails(t, "UnexpectedWkc")
  ELSE CASE t.state = "ClearOffset" -> Result([t EXCEPT !.state = "ClearDelay"], dcs)
         [] t.state = "ClearDelay" ->
              Result([t EXCEPT !.state = "RequestToLatch", !.count = 0], dcs)
         [] t.state = "RequestToLatch" ->
              Result([t EXCEPT !.state = "CalculateDelay", !.pos = 0], dcs)
         [] t.state = "CalculateDelay" -> DelayCalculated(t)
         [] t.state = "SetOffset" -> Result(Written(t, "SetDelay", t.first), dcs)
         [] t.state = "SetDelay" -> Result(Written(t, "CompensateDrift", 0), dcs)
         [] t.state = "CompensateDrift" ->
              Result(IF t.count + 1 < DriftMin THEN [t EXCEPT !.count = @ + 1]
                     ELSE [t EXCEPT !.state = "CheckDelta"], dcs)
         [] t.state = "CheckDelta" -> Result(DeltaChecked(t), dcs)

----------------------------------------------------------------------------
(* next_pdu *)

Pdu(op, reg, pos, value) ==
  [NoPdu EXCEPT !.command = <<op, reg>>, !.pos = pos, !.value = value]

PduOf(t, d) ==
  CASE t.state = "ClearOffset" -> Pdu("BWR", "DcSystemTimeOffset", None, 0)
    [] t.state = "ClearDelay" -> Pdu("BWR", "DcSystemTimeTransmissionDelay", None, 0)
    [] t.state = "RequestToLatch" -> Pdu("BWR", "DcRecieveTime", None, 0)
    [] t.state = "CalculateDelay" -> Pdu("APRD", "DcRecieveTime", t.pos, 0)
    [] t.state = "SetOffset" -> Pdu("APWR", "DcSystemTimeOffset", t.pos, d[t.pos].offset)
    [] t.state = "SetDelay" -> Pdu("APWR", "DcSystemTimeTransmissionDelay", t.pos, d[t.pos].delay)
    [] t.state = "CompensateDrift" -> Pdu("ARMW", "DcSystemTime", t.first, 0)
    [] t.state = "CheckDelta" -> Pdu("BRD", "DcSystemTimeDelta", None, 0)
    [] OTHER -> NoPdu

\* The end of init_dc of the master: the task of the cycle, if there is a clock.
DcTaskAfter(t) ==
  IF t.state = "Complete" /\ DcSlaves # {}
  THEN [first |-> Min(DcSlaves), count |-> Cardinality(DcSlaves)] ELSE dc_task

\* process_one_step and the count of block_on, after a poll that returned Ok(true).
Step ==
  /\ Busy
  /\ socket.recv_flag \/ socket = NoPdu
  /\ LET r == IF socket.recv_flag THEN Recieved(task) ELSE Result(task, dcs)
         pdu == PduOf(r.task, r.dcs)
         busy == r.task.state \notin {"Error", "Complete", "panic"}
         u == [r.task EXCEPT !.steps = @ + 1, !.command = IF busy THEN pdu.command ELSE @]
     IN /\ task' = IF busy /\ StepLimit < u.steps
                   THEN [u EXCEPT !.state = "Error", !.error = "Timeout"] ELSE u
        /\ dcs' = r.dcs
        /\ socket' = pdu
        /\ dc_task' = DcTaskAfter(r.task)
  /\ UNCHANGED <<bus, deviceVars, faults, calls, missed, stale>>

\* block_on returns an error of the link.
GiveUp ==
  /\ Busy
  /\ faults < MaxFaults
  /\ faults' = faults + 1
  /\ task' = [task EXCEPT !.state = "Error", !.error = "GivenUp"]
  /\ UNCHANGED <<bus, dcs, socket, dc_task, deviceVars, calls, missed, stale>>

----------------------------------------------------------------------------
(* The slaves, external. *)

\* The clock of slave p when a frame that was sent at time t passes each port.
PortTimes(p, t) ==
  [q \in Port |-> IF Slave(p).dc /\ q \in Linked(p)
                  THEN (Slave(p).clock + t + Slave(p).at[q]) % TimeModulus ELSE 0]

\* The frame goes round; the slaves in lost do not answer.
Exchange ==
  /\ Busy /\ socket # NoPdu /\ ~socket.recv_flag
  /\ \E lost \in {{}} \cup {{p} : p \in Slaves} :
       LET reg == socket.command[2]
           acted == {p \in Slaves \ lost : /\ Slave(p).acks
                                           /\ (socket.pos = None \/ reg = "DcSystemTime"
                                                \/ socket.pos = p)}
           broadcast == socket.command = <<"BWR", "DcRecieveTime">>
       IN /\ faults + Cardinality(lost) <= MaxFaults
          /\ faults' = faults + Cardinality(lost)
          /\ missed' = (missed \/ lost # {})
          /\ socket' = [socket EXCEPT !.recv_flag = TRUE, !.wkc = Cardinality(acted),
                          !.answer = IF socket.pos \in acted THEN latched[socket.pos] ELSE @,
                          !.bits = IF reg = "DcSystemTimeDelta"
                                   THEN UNION {delta[p] : p \in acted} ELSE {}]
          /\ latched' = IF broadcast
                        THEN [p \in Pos |-> IF p \in acted THEN PortTimes(p, now) ELSE latched[p]]
                        ELSE latched
          /\ now' = IF broadcast THEN now + Gap ELSE now
          /\ hw' = [p \in Pos |->
                      CASE p \in acted /\ reg = "DcSystemTimeOffset" ->
                             [hw[p] EXCEPT !.offset = socket.value]
                        [] p \in acted /\ reg = "DcSystemTimeTransmissionDelay" ->
                             [hw[p] EXCEPT !.delay = socket.value]
                        [] OTHER -> hw[p]]
          /\ IF reg = "DcSystemTime"
             THEN \E kept \in SUBSET DcSlaves :
                    delta' = [p \in Pos |-> IF p \in kept \/ p \notin acted \/ delta[p] = {}
                                            THEN delta[p] ELSE delta[p] \ {Max(delta[p])}]
             ELSE delta' = delta
  /\ UNCHANGED <<bus, task, dcs, dc_task, calls, stale>>

Next == Start \/ Step \/ GiveUp \/ Exchange

Spec == Init /\ [][Next]_vars

\* block_on goes on without end, and so does the frame.
FairSpec == Spec /\ WF_vars(Step) /\ WF_vars(Exchange)

----------------------------------------------------------------------------
(* Properties *)

\* The delays and the offsets, sums and means of u32 and u64 that the code does not check,
\* stay within a clock's range, and the task stays within its states and the network.
TypeOK ==
  /\ task.state \in {"Idle", "Error", "ClearOffset", "ClearDelay", "RequestToLatch",
                     "CalculateDelay", "SetOffset", "SetDelay", "CompensateDrift", "CheckDelta",
                     "Complete", "panic"}
  /\ task.first \in Slaves \cup {None} /\ task.pos \in Pos
  /\ task.count \in 0 .. Rounds + DriftMin /\ task.steps \in 0 .. StepLimit + 1
  /\ \A p \in Pos : {dcs[p].delay, dcs[p].offset, hw[p].delay, hw[p].offset} \subseteq Time

\* Slaves one behind the other, each with its upstream wire in the lower port.
Line == \A p \in Slaves :
          /\ Cardinality(Linked(p)) = IF p + 1 = Len(bus) THEN 1 ELSE 2
          /\ \A q, r \in Linked(p) : q < r => Slave(p).at[q] < Slave(p).at[r]

Distance(p) == Min(Range(Slave(p).at)) - Min(Range(Slave(0).at))

\* No clock has passed the range of the receive times yet.
Early == \A p \in Slaves : Slave(p).clock + now + Distance(p) < TimeModulus

Near(a, b, bound) == a - b \in -bound .. bound

\* What Ok of init_dc is worth.  If the walk met a slave with a clock then all slaves have
\* one and report a small deviation.  On a line the delays written are those of the wires,
\* up to the halves lost in the means, and if no receive time has wrapped then all
\* clocks read the same when the same frame passes them.
SyncedWhenComplete ==
  (task.state = "Complete" /\ task.first # None) =>
    /\ DcSlaves = Slaves
    /\ \A p \in Slaves : BitsValue(delta[p]) <= Target
    /\ Line => \A p \in Slaves : Near(hw[p].delay, Distance(p), p)
    /\ (Line /\ Early) =>
         \A p, q \in Slaves : Near(Slave(p).clock + hw[p].offset + Distance(p),
                                   Slave(q).clock + hw[q].offset + Distance(q), 1)
    /\ dc_task = [first |-> task.first, count |-> Len(bus)]

\* init_dc panics only for a network without slaves, one that is not a line, or the zeros of
\* a slave without a clock.  Where its walk meets a clock at all, it meets the first one of
\* the network first, so that none is left out when offsets and delays are written.
PanicsForCause ==
  /\ task.state = "panic" => (bus = <<>> \/ ~Line \/ DcSlaves # Slaves)
  /\ task.first # None => \A p \in DcSlaves : task.first <= p

\* What the walk through the ports and the times that init_dc measures are worth: Ok means
\* that the clocks are in step, and only for a cause does the arithmetic or the walk panic or
\* miss a clock.
MeasuredRight == SyncedWhenComplete /\ PanicsForCause

\* init_dc fails only for a cause: a working counter is wrong only if a PDU was missed or
\* slaves with and without clocks are mixed; a command is wrong only if an earlier call
\* gave up; and the limit of block_on is reached only after all offsets and delays were
\* written, from the first clock on.
FailsForCause ==
  /\ task.error = "UnexpectedWkc" => (missed \/ stale \/ DcSlaves # Slaves)
  /\ task.error = "UnexpectedCommand" => stale
  /\ task.error = "Timeout" =>
       \A p \in DcSlaves : task.first <= p =>
         hw[p].delay = dcs[p].delay /\ hw[p].offset = dcs[p].offset

\* init_dc ends, whatever the slaves report: the search for a small deviation has no limit
\* of its own but counts as steps of block_on.
DcEnds == Busy ~> ~Busy

============================================================================

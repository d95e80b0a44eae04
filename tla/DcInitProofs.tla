---------------------------- MODULE DcInitProofs ----------------------------
(***************************************************************************)
(* For every network, with clocks and wires of any kind, every limit and   *)
(* any number of calls and faults: init_dc fails only for a cause.         *)
(***************************************************************************)
EXTENDS DcInit, FiniteSetTheorems, WellFoundedInduction, TLAPS

(***************************************************************************)
(* Facts about numbers and sets. *)

\* A set of numbers that is not empty has a least one, and Min is that one.
LEMMA LeastElement ==
  ASSUME NEW S, S \subseteq Nat, S # {}
  PROVE  Min(S) \in S /\ \A x \in S : Min(S) <= x
<1>1. \E x \in S : \A y \in S : ~(<<y, x>> \in OpToRel(<, Nat))
  BY NatLessThanWellFounded, WFMin
<1>2. PICK x \in S : \A y \in S : ~(<<y, x>> \in OpToRel(<, Nat))
  BY <1>1
<1>3. \A y \in S : ~(y < x)
  <2>1. TAKE y \in S
  <2>2. SUFFICES ASSUME y < x PROVE FALSE
    OBVIOUS
  <2>3. <<y, x>> \in OpToRel(<, Nat)
    BY <2>2, SMT DEF OpToRel
  <2>. QED  BY <1>2, <2>3
<1>4. \A y \in S : x <= y
  BY <1>3, SMT
<1>. QED  BY <1>4 DEF Min

\* The order of the numbers, for steps without arithmetic.
LEMMA Orders ==
  /\ \A m \in Nat : m \in Int /\ m <= m
  /\ \A m, n \in Nat : (m <= n => m < n \/ m = n) /\ ~(m <= n /\ n < m)
BY SMT

\* A round less is at least as many steps less as a round has.
LEMMA RoundLess ==
  ASSUME NEW m \in Nat, NEW n \in Nat, NEW r \in Nat, m < n
  PROVE  m * r \in Nat /\ n * r \in Nat /\ m * r + r <= n * r /\ (m + 1) * r = m * r + r
<1>1. PICK k \in Nat : n = m + 1 + k
  <2>1. n - m - 1 \in Nat /\ n = m + 1 + (n - m - 1)
    BY SMT
  <2>. QED  BY <2>1
<1>2. m * r \in Nat /\ k * r \in Nat
  BY SMT
<1>3. (m + 1) * r = m * r + r
  BY SMT
<1>4. (m + 1 + k) * r = m * r + r + k * r
  BY SMT
<1>. QED  BY <1>1, <1>2, <1>3, <1>4, SMT

TaskState == {"Idle", "Error", "ClearOffset", "ClearDelay", "RequestToLatch", "CalculateDelay",
              "SetOffset", "SetDelay", "CompensateDrift", "CheckDelta", "Complete", "panic"}

BusyState == TaskState \ {"Idle", "Error", "Complete", "panic"}

IsTask(t) ==
  /\ t = [state |-> t.state, count |-> t.count, pos |-> t.pos, first |-> t.first,
          error |-> t.error, command |-> t.command, steps |-> t.steps]
  /\ t.state \in TaskState /\ t.count \in Nat /\ t.steps \in Nat
  /\ t.first \in DcSlaves \cup {None}

IsPdu(q) ==
  /\ q = [command |-> q.command, pos |-> q.pos, value |-> q.value, recv_flag |-> q.recv_flag,
          wkc |-> q.wkc, answer |-> q.answer, bits |-> q.bits]
  /\ q.recv_flag \in BOOLEAN

IsHw(h) ==
  /\ h = [p \in Pos |-> h[p]]
  /\ \A p \in Pos : h[p] = [offset |-> h[p].offset, delay |-> h[p].delay]

\* The slave that the task is at.
AtSlave(t) ==
  /\ t.state = "CalculateDelay" => t.pos \in Slaves
  /\ t.state \in {"SetOffset", "SetDelay", "CompensateDrift", "CheckDelta"} => t.first \in DcSlaves
  /\ t.state \in {"SetOffset", "SetDelay"} => t.pos \in DcSlaves /\ t.first <= t.pos

\* The rounds and the steps that are left until all is written.
Round == Len(bus) + 1

InTime(t, n) ==
  /\ t.state = "ClearOffset" => n <= 1
  /\ t.state = "ClearDelay" => n <= 2
  /\ t.state \in {"RequestToLatch", "CalculateDelay"} => t.count < Rounds
  /\ t.state = "RequestToLatch" => n <= 3 + t.count * Round
  /\ t.state = "CalculateDelay" => n <= 4 + t.count * Round + t.pos
  /\ t.state = "SetOffset" => n <= 3 + Rounds * Round + t.pos
  /\ t.state = "SetDelay" => n <= 3 + Rounds * Round + Len(bus) + t.pos

\* The offsets and delays that have been written, and with the one whose PDU is back.
WrittenTo(t, d) ==
  /\ t.state = "SetOffset" =>
       \A p \in DcSlaves : t.first <= p /\ p < t.pos => hw[p].offset = d[p].offset
  /\ t.state \in {"SetDelay", "CompensateDrift", "CheckDelta"} =>
       \A p \in DcSlaves : t.first <= p => hw[p].offset = d[p].offset
  /\ t.state = "SetDelay" =>
       \A p \in DcSlaves : t.first <= p /\ p < t.pos => hw[p].delay = d[p].delay
  /\ t.state \in {"CompensateDrift", "CheckDelta"} =>
       \A p \in DcSlaves : t.first <= p => hw[p].delay = d[p].delay

Executed(t, d) ==
  /\ t.state = "SetOffset" /\ socket.wkc = 1 => hw[t.pos].offset = d[t.pos].offset
  /\ t.state = "SetDelay" /\ socket.wkc = 1 => hw[t.pos].delay = d[t.pos].delay
  /\ missed \/ DcSlaves # Slaves \/ socket.wkc = ExpectedWkc(t)

\* The PDU in the socket is the one of the task.
Own(t, d) ==
  /\ socket.command = t.command
  /\ \E q \in {PduOf(t, d)} :
       socket.command = q.command /\ socket.pos = q.pos /\ socket.value = q.value
  /\ socket.recv_flag => Executed(t, d)

\* A call that has sent nothing: the socket is empty, or holds what an earlier one left.
Fresh(t) ==
  /\ t.state = "ClearOffset" /\ t.steps = 0 /\ t.command = DefaultCommand
  /\ stale \/ socket = NoPdu

UnderWay(t, d) ==
  /\ t.error = "none" /\ Slaves # {}
  /\ AtSlave(t) /\ InTime(t, t.steps) /\ WrittenTo(t, d)
  /\ Fresh(t) \/ Own(t, d)

DcInv ==
  /\ bus \in Buses /\ IsTask(task) /\ IsPdu(socket) /\ IsHw(hw)
  /\ task.state \in BusyState => \E t \in {task}, d \in {dcs} : UnderWay(t, d)
  /\ FailsForCause


----------------------------------------------------------------------------
(* The network. *)

\* The positions are numbers below the length of the network; the slaves with a clock are
\* some of them, and acknowledge its registers.
LEMMA Network ==
  ASSUME bus \in Buses
  PROVE  /\ Len(bus) \in Nat /\ Len(bus) <= MaxSlaves
         /\ Slaves \subseteq Nat /\ Slaves \subseteq Pos /\ DcSlaves \subseteq Slaves
         /\ \A p \in Slaves : p < Len(bus)
         /\ \A p \in DcSlaves : Slave(p).acks
<1>1. bus \in Seq(Range(bus)) /\ Len(bus) <= MaxSlaves /\ MaxSlaves \in Nat
  BY DcAssumption
<1>2. Len(bus) \in Nat /\ DOMAIN bus = 1 .. Len(bus)
  BY <1>1, SMT
<1>3. Slaves \subseteq Nat /\ Slaves \subseteq Pos /\ \A p \in Slaves : p < Len(bus)
  BY <1>1, <1>2, SMT DEF Slaves, Pos
<1>4. DcSlaves \subseteq Slaves
  BY DEF DcSlaves
<1>5. ASSUME NEW p \in DcSlaves  PROVE Slave(p).acks
  <2>1. p \in Slaves /\ Slave(p).dc
    BY DEF DcSlaves
  <2>2. p + 1 \in DOMAIN bus
    BY <2>1, <1>2, SMT DEF Slaves
  <2>3. bus[p + 1].dc => bus[p + 1].acks
    BY <2>2, DcAssumption
  <2>. QED  BY <2>1, <2>3 DEF Slave
<1>. QED  BY <1>1, <1>2, <1>3, <1>4, <1>5

\* The next slave with a clock is one, and lies behind; where there is none, this is the last.
LEMMA NextDcBehind ==
  ASSUME bus \in Buses, NEW t, t.pos \in DcSlaves
  PROVE  /\ NextDc(t) # None =>
              /\ NextDc(t) \in DcSlaves /\ t.pos < NextDc(t)
              /\ \A p \in DcSlaves : p < NextDc(t) => p <= t.pos
         /\ NextDc(t) = None => \A p \in DcSlaves : p <= t.pos
<1>1. PICK after : after = {p \in DcSlaves : t.pos < p}
  OBVIOUS
<1>2. after \subseteq Nat /\ DcSlaves \subseteq Nat
  BY <1>1, Network
<1>3. t.pos \in Nat
  BY <1>2
<1>4. NextDc(t) = IF after = {} THEN None ELSE Min(after)
  BY <1>1 DEF NextDc
<1>5. CASE after = {}
  <2>1. \A p \in DcSlaves : ~(t.pos < p)
    BY <1>1, <1>5
  <2>2. \A p \in DcSlaves : p <= t.pos
    BY <2>1, <1>2, <1>3, SMT
  <2>. QED  BY <2>2, <1>4, <1>5
<1>6. CASE after # {}
  <2>1. Min(after) \in after /\ \A x \in after : Min(after) <= x
    BY <1>2, <1>6, LeastElement
  <2>2. NextDc(t) = Min(after)
    BY <1>4, <1>6
  <2>3. Min(after) # None
    BY <2>1, <1>2, SMT DEF None
  <2>4. Min(after) \in DcSlaves /\ t.pos < Min(after)
    BY <2>1, <1>1
  <2>5. \A p \in DcSlaves : p < Min(after) => p <= t.pos
    <3>1. \A p \in DcSlaves : t.pos < p => Min(after) <= p
      BY <2>1, <1>1
    <3>2. PICK m \in Nat, n \in Nat : m = Min(after) /\ n = t.pos
      BY <2>4, <1>2, <1>3
    <3>3. \A p \in Nat : (n < p => m <= p) => (p < m => p <= n)
      BY SMT
    <3>. QED  BY <3>1, <3>2, <3>3, <1>2
  <2>. QED  BY <2>2, <2>3, <2>4, <2>5
<1>. QED  BY <1>5, <1>6

----------------------------------------------------------------------------
(* recieve_and_process *)

\* A task that goes on: with the step that is being taken it is in time.
Ahead(t, d) ==
  t.error = "none" /\ AtSlave(t) /\ InTime(t, t.steps + 1) /\ WrittenTo(t, d)

\* A task that has ended with a cause.
Caused(t) ==
  /\ t.error = "UnexpectedWkc" => (missed \/ stale \/ DcSlaves # Slaves)
  /\ t.error = "UnexpectedCommand" => stale
  /\ t.error # "Timeout"

Outcome(t, r) ==
  /\ IsTask(r.task) /\ r.task.steps = t.steps /\ r.task.state # "Idle"
  /\ r.task.state \in BusyState => Ahead(r.task, r.dcs)
  /\ r.task.state \notin BusyState => Caused(r.task)

\* What a state makes of the task: a new state, count and position.
Moved(t, u) ==
  /\ u = [state |-> u.state, count |-> u.count, pos |-> u.pos, first |-> t.first,
          error |-> t.error, command |-> t.command, steps |-> t.steps]
  /\ u.state \in TaskState /\ u.count \in Nat

\* The single changes.
SetsState(t, s, u) == u = [t EXCEPT !.state = s]
SetsCount(t, c, u) == u = [t EXCEPT !.count = c]
SetsPos(t, q, u) == u = [t EXCEPT !.pos = q]

\* A task that was moved is a task, with the rest as it was.
LEMMA MovedTask ==
  ASSUME NEW t, NEW u, IsTask(t), Moved(t, u)
  PROVE  IsTask(u) /\ u.steps = t.steps /\ u.first = t.first /\ u.error = t.error
<1>1. /\ u.first = t.first /\ u.error = t.error /\ u.command = t.command /\ u.steps = t.steps
      /\ u.state \in TaskState /\ u.count \in Nat
  BY SMT DEF Moved
<1>2. u = [state |-> u.state, count |-> u.count, pos |-> u.pos, first |-> u.first,
           error |-> u.error, command |-> u.command, steps |-> u.steps]
  BY <1>1 DEF Moved
<1>. QED  BY <1>1, <1>2 DEF IsTask

\* A change of the state moves a task.
LEMMA MovesState ==
  ASSUME NEW t, NEW u, IsTask(t), NEW s \in TaskState,
         SetsState(t, s, u)
  PROVE  Moved(t, u) /\ u.state = s /\ u.count = t.count /\ u.pos = t.pos
<1>1. t = [state |-> t.state, count |-> t.count, pos |-> t.pos, first |-> t.first,
           error |-> t.error, command |-> t.command, steps |-> t.steps]
  BY DEF IsTask
<1>2. u = [state |-> s, count |-> t.count, pos |-> t.pos, first |-> t.first,
           error |-> t.error, command |-> t.command, steps |-> t.steps]
  BY <1>1, SMT DEF SetsState
<1>3. u.state = s /\ u.count = t.count /\ u.pos = t.pos
  BY <1>2, SMT
<1>4. t.count \in Nat
  BY DEF IsTask
<1>. QED  BY <1>2, <1>3, <1>4 DEF Moved

\* A change of the count moves a task.
LEMMA MovesCount ==
  ASSUME NEW t, NEW u, NEW c \in Nat, IsTask(t), SetsCount(t, c, u)
  PROVE  Moved(t, u) /\ u.state = t.state /\ u.count = c /\ u.pos = t.pos
<1>1. t = [state |-> t.state, count |-> t.count, pos |-> t.pos, first |-> t.first,
           error |-> t.error, command |-> t.command, steps |-> t.steps]
  BY DEF IsTask
<1>2. u = [state |-> t.state, count |-> c, pos |-> t.pos, first |-> t.first,
           error |-> t.error, command |-> t.command, steps |-> t.steps]
  BY <1>1, SMT DEF SetsCount
<1>3. u.count = c /\ u.pos = t.pos /\ u.state = t.state
  BY <1>2, SMT
<1>4. t.state \in TaskState
  BY DEF IsTask
<1>. QED  BY <1>2, <1>3, <1>4 DEF Moved

\* A change of the position moves a task.
LEMMA MovesPos ==
  ASSUME NEW t, NEW u, NEW p \in Int, IsTask(t), SetsPos(t, p, u)
  PROVE  Moved(t, u) /\ u.state = t.state /\ u.count = t.count /\ u.pos = p
<1>1. t = [state |-> t.state, count |-> t.count, pos |-> t.pos, first |-> t.first,
           error |-> t.error, command |-> t.command, steps |-> t.steps]
  BY DEF IsTask
<1>2. u = [state |-> t.state, count |-> t.count, pos |-> p, first |-> t.first,
           error |-> t.error, command |-> t.command, steps |-> t.steps]
  BY <1>1, SMT DEF SetsPos
<1>3. u.count = t.count /\ u.pos = p /\ u.state = t.state
  BY <1>2, SMT
<1>4. t.state \in TaskState /\ t.count \in Nat
  BY DEF IsTask
<1>. QED  BY <1>2, <1>3, <1>4 DEF Moved

\* A task may be moved twice.
LEMMA MovedTwice ==
  ASSUME NEW t, NEW v, NEW u, IsTask(t), Moved(t, v), Moved(v, u)
  PROVE  Moved(t, u)
<1>1. v.first = t.first /\ v.error = t.error /\ v.command = t.command /\ v.steps = t.steps
  BY SMT DEF Moved
<1>. QED  BY <1>1 DEF Moved

\* A change of the state and the count: the end of a round and the drift.
LEMMA MovesStateCount ==
  ASSUME NEW t, NEW v, NEW u, IsTask(t), NEW s \in TaskState, NEW c \in Nat,
         SetsState(t, s, v), SetsCount(v, c, u)
  PROVE  Moved(t, u) /\ u.state = s /\ u.count = c /\ u.pos = t.pos
<1>1. Moved(t, v) /\ v.state = s /\ v.pos = t.pos
  BY MovesState
<1>2. IsTask(v)
  BY <1>1, MovedTask
<1>3. Moved(v, u) /\ u.state = v.state /\ u.count = c /\ u.pos = v.pos
  BY <1>2, MovesCount
<1>4. Moved(t, u)
  BY <1>1, <1>3, MovedTwice
<1>. QED  BY <1>1, <1>3, <1>4

\* A change of the state and the position: the first slave to measure or to write.
LEMMA MovesStatePos ==
  ASSUME NEW t, NEW v, NEW u, IsTask(t), NEW s \in TaskState, NEW p \in Int,
         SetsState(t, s, v), SetsPos(v, p, u)
  PROVE  Moved(t, u) /\ u.state = s /\ u.count = t.count /\ u.pos = p
<1>1. Moved(t, v) /\ v.state = s /\ v.count = t.count
  BY MovesState
<1>2. IsTask(v)
  BY <1>1, MovedTask
<1>3. Moved(v, u) /\ u.state = v.state /\ u.count = v.count /\ u.pos = p
  BY <1>2, MovesPos
<1>4. Moved(t, u)
  BY <1>1, <1>3, MovedTwice
<1>. QED  BY <1>1, <1>3, <1>4

\* A change of all three: the offsets after the last round.
LEMMA MovesStatePosCount ==
  ASSUME NEW t, NEW w, NEW v, NEW u, IsTask(t), NEW s \in TaskState, NEW p \in Int, NEW c \in Nat,
         SetsState(t, s, w), SetsPos(w, p, v), SetsCount(v, c, u)
  PROVE  Moved(t, u) /\ u.state = s /\ u.count = c /\ u.pos = p
<1>1. Moved(t, v) /\ v.state = s /\ v.pos = p
  BY MovesStatePos
<1>2. IsTask(v)
  BY <1>1, MovedTask
<1>3. Moved(v, u) /\ u.state = v.state /\ u.count = c /\ u.pos = v.pos
  BY <1>2, MovesCount
<1>4. Moved(t, u)
  BY <1>1, <1>3, MovedTwice
<1>. QED  BY <1>1, <1>3, <1>4

\* The result of a state that lets the task go on.
LEMMA GoesOn ==
  ASSUME NEW t, NEW u, NEW d, IsTask(t), Moved(t, u), t.error = "none", u.state # "Idle",
         u.state \in BusyState => AtSlave(u) /\ InTime(u, t.steps + 1) /\ WrittenTo(u, d)
  PROVE  Outcome(t, Result(u, d))
<1>1. IsTask(u) /\ u.steps = t.steps /\ u.error = "none"
  BY MovedTask
<1>2. Result(u, d).task = u /\ Result(u, d).dcs = d
  BY DEF Result
<1>3. u.state \in BusyState => Ahead(u, d)
  BY <1>1 DEF Ahead
<1>4. Caused(u)
  BY <1>1 DEF Caused
<1>. QED  BY <1>1, <1>2, <1>3, <1>4 DEF Outcome

\* The result of an error with a cause.
LEMMA FailsOutcome ==
  ASSUME NEW t, NEW e, IsTask(t), e # "Timeout",
         e = "UnexpectedWkc" => (missed \/ stale \/ DcSlaves # Slaves),
         e = "UnexpectedCommand" => stale
  PROVE  Outcome(t, Fails(t, e))
<1>1. PICK u : u = [t EXCEPT !.state = "Error", !.error = e]
  OBVIOUS
<1>2. t = [state |-> t.state, count |-> t.count, pos |-> t.pos, first |-> t.first,
           error |-> t.error, command |-> t.command, steps |-> t.steps]
  BY DEF IsTask
<1>3. u = [state |-> "Error", count |-> t.count, pos |-> t.pos, first |-> t.first,
           error |-> e, command |-> t.command, steps |-> t.steps]
  <2>1. PICK v : v = [t EXCEPT !.state = "Error"]
    OBVIOUS
  <2>2. u = [v EXCEPT !.error = e]
    BY <1>1, <2>1
  <2>3. v = [state |-> "Error", count |-> t.count, pos |-> t.pos, first |-> t.first,
             error |-> t.error, command |-> t.command, steps |-> t.steps]
    BY <1>2, <2>1, SMT
  <2>. QED  BY <2>2, <2>3, SMT
<1>4. /\ u.state = "Error" /\ u.error = e /\ u.steps = t.steps /\ u.first = t.first
      /\ u.count = t.count /\ u.pos = t.pos /\ u.command = t.command
  BY <1>3, SMT
<1>5. IsTask(u)
  BY <1>3, <1>4 DEF IsTask, TaskState
<1>6. u.state \notin BusyState
  BY <1>4 DEF BusyState
<1>7. Caused(u)
  BY <1>4 DEF Caused
<1>8. Fails(t, e) = Result(u, dcs)
  BY <1>1 DEF Fails
<1>9. Result(u, dcs).task = u /\ Result(u, dcs).dcs = dcs
  BY DEF Result
<1>. QED  BY <1>4, <1>5, <1>6, <1>7, <1>8, <1>9 DEF Outcome

\* A task whose answer has come.
Going(t) ==
  /\ bus \in Buses /\ IsTask(t) /\ socket.recv_flag
  /\ t.state \in BusyState /\ UnderWay(t, dcs)

\* An answer that is not the task's, or whose working counter is wrong.
LEMMA FailsWithCause ==
  ASSUME NEW t, Going(t)
  PROVE  /\ socket.command # t.command => Outcome(t, Fails(t, "UnexpectedCommand"))
         /\ socket.wkc # ExpectedWkc(t) => Outcome(t, Fails(t, "UnexpectedWkc"))
<1>1. IsTask(t) /\ socket.recv_flag /\ (Fresh(t) \/ Own(t, dcs))
  BY DEF Going, UnderWay
<1>2. Fresh(t) => stale
  <2>1. socket # NoPdu
    BY <1>1, SMT DEF NoPdu
  <2>. QED  BY <2>1 DEF Fresh
<1>3. Own(t, dcs) => socket.command = t.command /\ (missed \/ DcSlaves # Slaves \/ socket.wkc = ExpectedWkc(t))
  BY <1>1 DEF Own, Executed
<1>4. ASSUME socket.command # t.command
      PROVE  Outcome(t, Fails(t, "UnexpectedCommand"))
  <2>1. stale
    BY <1>1, <1>2, <1>3, <1>4
  <2>. QED  BY <2>1, <1>1, FailsOutcome
<1>5. ASSUME socket.wkc # ExpectedWkc(t)
      PROVE  Outcome(t, Fails(t, "UnexpectedWkc"))
  <2>1. missed \/ stale \/ DcSlaves # Slaves
    BY <1>1, <1>2, <1>3, <1>5
  <2>. QED  BY <2>1, <1>1, FailsOutcome
<1>. QED  BY <1>4, <1>5

\* ClearOffset leads to ClearDelay.
LEMMA ClearOffsetStep ==
  ASSUME NEW t, Going(t), t.state = "ClearOffset"
  PROVE  Outcome(t, Result([t EXCEPT !.state = "ClearDelay"], dcs))
<1>1. IsTask(t) /\ t.error = "none" /\ InTime(t, t.steps) /\ t.steps \in Nat
  BY DEF Going, UnderWay, IsTask
<1>2. PICK u : u = [t EXCEPT !.state = "ClearDelay"]
  OBVIOUS
<1>3. "ClearDelay" \in TaskState
  BY DEF TaskState
<1>4. Moved(t, u) /\ u.state = "ClearDelay"
  BY <1>1, <1>2, <1>3, MovesState DEF SetsState
<1>5. t.steps + 1 <= 2
  BY <1>1, SMT DEF InTime
<1>6. AtSlave(u) /\ InTime(u, t.steps + 1) /\ WrittenTo(u, dcs)
  BY <1>4, <1>5 DEF AtSlave, InTime, WrittenTo
<1>7. Outcome(t, Result(u, dcs))
  BY <1>1, <1>4, <1>6, GoesOn
<1>. QED  BY <1>2, <1>7

\* ClearDelay leads to the first round.
LEMMA ClearDelayStep ==
  ASSUME NEW t, Going(t), t.state = "ClearDelay"
  PROVE  Outcome(t, Result([t EXCEPT !.state = "RequestToLatch", !.count = 0], dcs))
<1>1. IsTask(t) /\ t.error = "none" /\ InTime(t, t.steps) /\ t.steps \in Nat /\ bus \in Buses
  BY DEF Going, UnderWay, IsTask
<1>2. PICK u : u = [t EXCEPT !.state = "RequestToLatch", !.count = 0]
  OBVIOUS
<1>3. "RequestToLatch" \in TaskState /\ 0 \in Nat
  BY SMT DEF TaskState
<1>4. Moved(t, u) /\ u.state = "RequestToLatch" /\ u.count = 0
  <2>1. PICK s \in TaskState, c \in Nat : s = "RequestToLatch" /\ c = 0
    BY <1>3
  <2>2. PICK v : SetsState(t, s, v) /\ SetsCount(v, c, u)
    BY <1>2, <2>1 DEF SetsState, SetsCount
  <2>3. Moved(t, u) /\ u.state = s /\ u.count = c
    BY <1>1, <2>2, MovesStateCount
  <2>. QED  BY <2>1, <2>3
<1>5. t.steps + 1 <= 3 + 0 * Round /\ 0 < Rounds
  <2>1. Len(bus) \in Nat
    BY <1>1, Network
  <2>2. Rounds \in Nat \ {0}
    BY DcAssumption
  <2>3. t.steps <= 2
    BY <1>1 DEF InTime
  <2>4. 0 * Round = 0
    BY <2>1, SMT DEF Round
  <2>. QED  BY <1>1, <2>2, <2>3, <2>4, SMT
<1>6. AtSlave(u) /\ InTime(u, t.steps + 1) /\ WrittenTo(u, dcs)
  BY <1>4, <1>5 DEF AtSlave, InTime, WrittenTo
<1>7. Outcome(t, Result(u, dcs))
  BY <1>1, <1>4, <1>6, GoesOn
<1>. QED  BY <1>2, <1>7

\* RequestToLatch leads to the first slave of the round.
LEMMA RequestToLatchStep ==
  ASSUME NEW t, Going(t), t.state = "RequestToLatch"
  PROVE  Outcome(t, Result([t EXCEPT !.state = "CalculateDelay", !.pos = 0], dcs))
<1>1. /\ IsTask(t) /\ t.error = "none" /\ InTime(t, t.steps) /\ bus \in Buses
      /\ t.steps \in Nat /\ t.count \in Nat /\ Slaves # {}
  BY DEF Going, UnderWay, IsTask
<1>2. PICK u : u = [t EXCEPT !.state = "CalculateDelay", !.pos = 0]
  OBVIOUS
<1>3. "CalculateDelay" \in TaskState /\ 0 \in Int
  BY SMT DEF TaskState
<1>4. Moved(t, u) /\ u.state = "CalculateDelay" /\ u.count = t.count /\ u.pos = 0
  <2>1. PICK s \in TaskState, p \in Int : s = "CalculateDelay" /\ p = 0
    BY <1>3
  <2>2. PICK v : SetsState(t, s, v) /\ SetsPos(v, p, u)
    BY <1>2, <2>1 DEF SetsState, SetsPos
  <2>3. Moved(t, u) /\ u.state = s /\ u.count = t.count /\ u.pos = p
    BY <1>1, <2>2, MovesStatePos
  <2>. QED  BY <2>1, <2>3
<1>5. t.steps + 1 <= 4 + t.count * Round + 0 /\ t.count < Rounds
  <2>1. Len(bus) \in Nat
    BY <1>1, Network
  <2>2. t.steps <= 3 + t.count * Round /\ t.count < Rounds
    BY <1>1 DEF InTime
  <2>3. t.count * Round \in Nat
    BY <1>1, <2>1, SMT DEF Round
  <2>. QED  BY <1>1, <2>2, <2>3, SMT
<1>6. 0 \in Slaves
  BY <1>1, Network, SMT DEF Slaves
<1>7. AtSlave(u) /\ InTime(u, t.steps + 1) /\ WrittenTo(u, dcs)
  BY <1>4, <1>5, <1>6 DEF AtSlave, InTime, WrittenTo
<1>8. Outcome(t, Result(u, dcs))
  BY <1>1, <1>4, <1>7, GoesOn
<1>. QED  BY <1>2, <1>8

\* The end of a round: the next one, or the offsets from the first clock on, or the end.
LEMMA RoundStep ==
  ASSUME NEW t, NEW d, Going(t), t.state = "CalculateDelay", t.pos + 1 >= Len(bus)
  PROVE  Outcome(t, Result(RoundDone(t), d))
<1>1. /\ IsTask(t) /\ t.error = "none" /\ InTime(t, t.steps) /\ AtSlave(t) /\ bus \in Buses
      /\ t.steps \in Nat /\ t.count \in Nat /\ t.first \in DcSlaves \cup {None}
  BY DEF Going, UnderWay, IsTask
<1>2. Len(bus) \in Nat /\ t.pos \in Nat /\ t.pos < Len(bus) /\ DcSlaves \subseteq Nat
  BY <1>1, Network DEF AtSlave
<1>3. Rounds \in Nat /\ Round \in Nat
  BY <1>2, DcAssumption, SMT DEF Round
<1>4. t.steps <= 4 + t.count * Round + t.pos /\ t.count < Rounds
  BY <1>1 DEF InTime
<1>5. t.count * Round \in Nat /\ t.count * Round + Round <= Rounds * Round
      /\ (t.count + 1) * Round = t.count * Round + Round /\ Rounds * Round \in Nat
  BY <1>1, <1>3, <1>4, RoundLess
<1>6. t.steps + 1 <= 3 + (t.count + 1) * Round
  <2>1. t.pos + 1 <= Len(bus) /\ Round = Len(bus) + 1
    BY <1>2, SMT DEF Round
  <2>2. PICK a \in Nat : a = t.count * Round
    BY <1>5
  <2>3. t.steps + 1 <= 3 + (a + Round)
    <3>1. PICK n \in Nat, q \in Nat, l \in Nat, r \in Nat :
            n = t.steps /\ q = t.pos /\ l = Len(bus) /\ r = Round
      BY <1>1, <1>2, <1>3
    <3>2. n <= 4 + a + q /\ q + 1 <= l /\ r = l + 1
      BY <1>4, <2>1, <2>2, <3>1
    <3>3. n + 1 <= 3 + (a + r)
      BY <3>2, SMT
    <3>. QED  BY <3>1, <3>3
  <2>. QED  BY <1>5, <2>2, <2>3
<1>7. CASE t.count + 1 < Rounds
  <2>1. RoundDone(t) = [t EXCEPT !.state = "RequestToLatch", !.count = t.count + 1]
    BY <1>1, <1>3, <1>7, SMT DEF RoundDone
  <2>2. PICK u : u = [t EXCEPT !.state = "RequestToLatch", !.count = t.count + 1]
    OBVIOUS
  <2>3. "RequestToLatch" \in TaskState /\ t.count + 1 \in Nat
    BY <1>1, SMT DEF TaskState
  <2>4. Moved(t, u) /\ u.state = "RequestToLatch" /\ u.count = t.count + 1
    <3>1. PICK s \in TaskState, c \in Nat : s = "RequestToLatch" /\ c = t.count + 1
      BY <2>3
    <3>2. PICK v : SetsState(t, s, v) /\ SetsCount(v, c, u)
      BY <2>2, <3>1 DEF SetsState, SetsCount
    <3>3. Moved(t, u) /\ u.state = s /\ u.count = c
      BY <1>1, <3>2, MovesStateCount
    <3>. QED  BY <3>1, <3>3
  <2>5. AtSlave(u) /\ InTime(u, t.steps + 1) /\ WrittenTo(u, d)
    BY <2>4, <1>6, <1>7 DEF AtSlave, InTime, WrittenTo
  <2>6. Outcome(t, Result(u, d))
    BY <1>1, <2>4, <2>5, GoesOn
  <2>. QED  BY <2>1, <2>2, <2>6
<1>8. CASE t.count + 1 >= Rounds /\ t.first # None
  <2>1. RoundDone(t) = [t EXCEPT !.state = "SetOffset", !.pos = t.first, !.count = 0]
    <3>1. ~(t.count + 1 < Rounds)
      BY <1>1, <1>3, <1>8, SMT
    <3>. QED  BY <1>8, <3>1, Zenon DEF RoundDone
  <2>2. PICK u : u = [t EXCEPT !.state = "SetOffset", !.pos = t.first, !.count = 0]
    OBVIOUS
  <2>3. "SetOffset" \in TaskState /\ 0 \in Nat
    BY SMT DEF TaskState
  <2>4. t.first \in DcSlaves /\ t.first \in Nat
    BY <1>1, <1>2, <1>8
  <2>5. Moved(t, u) /\ u.state = "SetOffset" /\ u.pos = t.first
    <3>1. t.first \in Int
      BY <2>4, SMT
    <3>2. PICK s \in TaskState, p \in Int, c \in Nat : s = "SetOffset" /\ p = t.first /\ c = 0
      BY <2>3, <3>1
    <3>3. PICK w, v : /\ SetsState(t, s, w) /\ SetsPos(w, p, v)
                      /\ SetsCount(v, c, u)
      BY <2>2, <3>2 DEF SetsState, SetsPos, SetsCount
    <3>4. Moved(t, u) /\ u.state = s /\ u.pos = p
      BY <1>1, <3>3, MovesStatePosCount
    <3>. QED  BY <3>2, <3>4
  <2>6. u.first = t.first
    BY <1>1, <2>5, MovedTask
  <2>7. t.steps + 1 <= 3 + Rounds * Round + t.first
    <3>1. t.count + 1 = Rounds
      BY <1>1, <1>3, <1>4, <1>8, SMT
    <3>2. t.steps + 1 <= 3 + Rounds * Round
      BY <3>1, <1>6
    <3>. QED  BY <3>2, <1>1, <1>5, <2>4, SMT
  <2>8. t.first <= t.first /\ \A p \in DcSlaves : ~(t.first <= p /\ p < t.first)
    BY <2>4, <1>2, SMT
  <2>9. AtSlave(u)
    BY <2>4, <2>5, <2>6, <2>8 DEF AtSlave
  <2>10. InTime(u, t.steps + 1)
    BY <2>5, <2>7 DEF InTime
  <2>11. WrittenTo(u, d)
    BY <2>5, <2>6, <2>8 DEF WrittenTo
  <2>12. Outcome(t, Result(u, d))
    BY <1>1, <2>5, <2>9, <2>10, <2>11, GoesOn
  <2>. QED  BY <2>1, <2>2, <2>12
<1>9. CASE t.count + 1 >= Rounds /\ t.first = None
  <2>1. RoundDone(t) = [t EXCEPT !.state = "Complete"]
    <3>1. ~(t.count + 1 < Rounds)
      BY <1>1, <1>3, <1>9, SMT
    <3>. QED  BY <1>9, <3>1, Zenon DEF RoundDone
  <2>2. PICK u : u = [t EXCEPT !.state = "Complete"]
    OBVIOUS
  <2>3. "Complete" \in TaskState /\ "Complete" \notin BusyState
    BY DEF TaskState, BusyState
  <2>4. Moved(t, u) /\ u.state = "Complete"
    BY <1>1, <2>2, <2>3, MovesState DEF SetsState
  <2>5. Outcome(t, Result(u, d))
    BY <1>1, <2>3, <2>4, GoesOn
  <2>. QED  BY <2>1, <2>2, <2>5
<1>10. t.count + 1 < Rounds \/ t.count + 1 >= Rounds
  BY <1>1, <1>3, SMT
<1>. QED  BY <1>7, <1>8, <1>9, <1>10

\* A task that ends by itself.
LEMMA EndsOutcome ==
  ASSUME NEW t, NEW d, NEW s, Going(t), s \in {"Complete", "panic"}
  PROVE  Outcome(t, Result([t EXCEPT !.state = s], d))
<1>1. IsTask(t) /\ t.error = "none"
  BY DEF Going, UnderWay
<1>2. PICK u : SetsState(t, s, u)
  BY DEF SetsState
<1>3. s \in TaskState /\ s \notin BusyState
  BY DEF TaskState, BusyState
<1>4. Moved(t, u) /\ u.state = s
  BY <1>1, <1>2, <1>3, MovesState
<1>5. Outcome(t, Result(u, d))
  BY <1>1, <1>3, <1>4, GoesOn
<1>. QED  BY <1>2, <1>5 DEF SetsState

\* CalculateDelay: the next slave, or the end of the round.
LEMMA CalculateDelayStep ==
  ASSUME NEW t, Going(t), t.state = "CalculateDelay"
  PROVE  Outcome(t, DelayCalculated(t))
<1>1. /\ IsTask(t) /\ t.error = "none" /\ InTime(t, t.steps) /\ AtSlave(t) /\ bus \in Buses
      /\ t.steps \in Nat /\ t.count \in Nat
  BY SMTT(30) DEF Going, UnderWay, IsTask
<1>2. Len(bus) \in Nat /\ t.pos \in Nat /\ t.pos \in Slaves /\ t.pos < Len(bus)
  BY <1>1, Network DEF AtSlave
<1>3. PICK time, measured, d :
        /\ time = socket.answer
        /\ measured = (t.first # None /\ t.first < t.pos)
        /\ d = [dcs EXCEPT ![t.pos].time = time, ![t.pos].latched = time[FirstPort(t.pos)],
                           ![t.pos].delay = IF measured THEN Average(dcs[t.pos].delay, DelayOf(t.pos, time))
                                            ELSE dcs[t.pos].delay]
  OBVIOUS
<1>4. DelayCalculated(t) =
        CASE measured /\ DelayPanics(t.pos, time) -> Result([t EXCEPT !.state = "panic"], dcs)
          [] ~(measured /\ DelayPanics(t.pos, time)) /\ t.pos + 1 < Len(bus) ->
               Result([t EXCEPT !.pos = t.pos + 1], d)
          [] ~(measured /\ DelayPanics(t.pos, time)) /\ t.pos + 1 >= Len(bus) ->
               Result(RoundDone(t), WithOffsets(d))
  BY <1>3, Zenon DEF DelayCalculated
<1>5. t.pos + 1 < Len(bus) \/ t.pos + 1 >= Len(bus)
  BY <1>2, SMT
<1>6. ~(t.pos + 1 < Len(bus) /\ t.pos + 1 >= Len(bus))
  BY <1>2, SMT
<1>7. CASE measured /\ DelayPanics(t.pos, time)
  <2>1. DelayCalculated(t) = Result([t EXCEPT !.state = "panic"], dcs)
    BY <1>4, <1>7, Zenon
  <2>. QED  BY <2>1, EndsOutcome
<1>8. CASE ~(measured /\ DelayPanics(t.pos, time)) /\ t.pos + 1 < Len(bus)
  <2>1. DelayCalculated(t) = Result([t EXCEPT !.pos = t.pos + 1], d)
    BY <1>4, <1>6, <1>8, Zenon
  <2>2. PICK u : SetsPos(t, t.pos + 1, u)
    BY DEF SetsPos
  <2>3. Moved(t, u) /\ u.state = "CalculateDelay" /\ u.count = t.count /\ u.pos = t.pos + 1
    <3>1. t.pos + 1 \in Int
      BY <1>2, SMT
    <3>. QED  BY <3>1, <1>1, <2>2, MovesPos
  <2>4. t.pos + 1 \in Slaves
    BY <1>2, <1>8, SMT DEF Slaves
  <2>5. t.count < Rounds /\ t.steps + 1 <= 4 + t.count * Round + (t.pos + 1)
    <3>1. t.count < Rounds /\ t.steps <= 4 + t.count * Round + t.pos
      BY <1>1 DEF InTime
    <3>2. t.count * Round \in Nat
      BY <1>1, <1>2, SMT DEF Round
    <3>. QED  BY <3>1, <3>2, <1>1, <1>2, SMT
  <2>6. AtSlave(u) /\ InTime(u, t.steps + 1) /\ WrittenTo(u, d)
    BY <2>3, <2>4, <2>5 DEF AtSlave, InTime, WrittenTo
  <2>7. Outcome(t, Result(u, d))
    BY <1>1, <2>3, <2>6, GoesOn
  <2>. QED  BY <2>1, <2>2, <2>7 DEF SetsPos
<1>9. CASE ~(measured /\ DelayPanics(t.pos, time)) /\ t.pos + 1 >= Len(bus)
  <2>1. DelayCalculated(t) = Result(RoundDone(t), WithOffsets(d))
    BY <1>4, <1>6, <1>9, Zenon
  <2>. QED  BY <2>1, <1>9, RoundStep
<1>. QED  BY <1>5, <1>7, <1>8, <1>9

\* CompensateDrift and CheckDelta: what was written stays written.
LEMMA DriftStep ==
  ASSUME NEW t, NEW u, Going(t), Moved(t, u),
         t.state \in {"CompensateDrift", "CheckDelta"},
         u.state \in {"CompensateDrift", "CheckDelta"}
  PROVE  Outcome(t, Result(u, dcs))
<1>1. IsTask(t) /\ t.error = "none" /\ AtSlave(t) /\ WrittenTo(t, dcs)
  BY DEF Going, UnderWay
<1>2. u.first = t.first
  BY <1>1, MovedTask
<1>3. AtSlave(u) /\ InTime(u, t.steps + 1)
  BY <1>1, <1>2 DEF AtSlave, InTime
<1>4. WrittenTo(u, dcs)
  BY <1>1, <1>2 DEF WrittenTo
<1>. QED  BY <1>1, <1>3, <1>4, GoesOn

\* CompensateDrift: the time is distributed once more, or the deviations are checked.
LEMMA CompensateDriftStep ==
  ASSUME NEW t, Going(t), t.state = "CompensateDrift"
  PROVE  Outcome(t, Result(IF t.count + 1 < DriftMin THEN [t EXCEPT !.count = t.count + 1]
                           ELSE [t EXCEPT !.state = "CheckDelta"], dcs))
<1>1. IsTask(t) /\ t.count \in Nat
  BY DEF Going, IsTask
<1>2. CASE t.count + 1 < DriftMin
  <2>1. PICK u : SetsCount(t, t.count + 1, u)
    BY DEF SetsCount
  <2>2. t.count + 1 \in Nat
    BY <1>1, SMT
  <2>3. Moved(t, u) /\ u.state = "CompensateDrift"
    BY <1>1, <2>1, <2>2, MovesCount
  <2>4. Outcome(t, Result(u, dcs))
    BY <2>3, DriftStep
  <2>. QED  BY <1>2, <2>1, <2>4 DEF SetsCount
<1>3. CASE ~(t.count + 1 < DriftMin)
  <2>1. PICK u : SetsState(t, "CheckDelta", u)
    BY DEF SetsState
  <2>2. "CheckDelta" \in TaskState
    BY DEF TaskState
  <2>3. Moved(t, u) /\ u.state = "CheckDelta"
    BY <1>1, <2>1, <2>2, MovesState
  <2>4. Outcome(t, Result(u, dcs))
    BY <2>3, DriftStep
  <2>. QED  BY <1>3, <2>1, <2>4 DEF SetsState
<1>. QED  BY <1>2, <1>3

\* CheckDelta: the end, or some more of the distribution.
LEMMA CheckDeltaStep ==
  ASSUME NEW t, Going(t), t.state = "CheckDelta"
  PROVE  Outcome(t, Result(DeltaChecked(t), dcs))
<1>1. IsTask(t)
  BY DEF Going
<1>2. CASE BitsValue(socket.bits) <= Target
  <2>1. DeltaChecked(t) = [t EXCEPT !.state = "Complete"]
    BY <1>2 DEF DeltaChecked
  <2>. QED  BY <2>1, EndsOutcome
<1>3. CASE ~(BitsValue(socket.bits) <= Target)
  <2>1. PICK c : c = IF DriftBack < DriftMin THEN DriftMin - DriftBack ELSE 0
    OBVIOUS
  <2>2. c \in Nat
    <3>1. DriftMin \in Nat /\ DriftBack \in Nat
      BY DcAssumption
    <3>. QED  BY <2>1, <3>1, SMT
  <2>3. PICK v, u : SetsState(t, "CompensateDrift", v) /\ SetsCount(v, c, u)
    BY DEF SetsState, SetsCount
  <2>4. "CompensateDrift" \in TaskState
    BY DEF TaskState
  <2>5. Moved(t, u) /\ u.state = "CompensateDrift"
    BY <1>1, <2>2, <2>3, <2>4, MovesStateCount
  <2>6. Outcome(t, Result(u, dcs))
    BY <2>5, DriftStep
  <2>7. DeltaChecked(t) = u
    BY <1>3, <2>1, <2>3 DEF DeltaChecked, SetsState, SetsCount
  <2>. QED  BY <2>6, <2>7
<1>. QED  BY <1>2, <1>3

\* SetOffset: the next slave with a clock, or the delays from the first one on.
LEMMA SetOffsetStep ==
  ASSUME NEW t, Going(t), t.state = "SetOffset", socket.wkc = 1
  PROVE  Outcome(t, Result(Written(t, "SetDelay", t.first), dcs))
<1>1. /\ IsTask(t) /\ t.error = "none" /\ InTime(t, t.steps) /\ AtSlave(t) /\ WrittenTo(t, dcs)
      /\ bus \in Buses /\ t.steps \in Nat /\ Own(t, dcs) /\ socket.recv_flag
  BY DEF Going, UnderWay, IsTask, Fresh
<1>2. /\ t.first \in DcSlaves /\ t.pos \in DcSlaves /\ t.first <= t.pos
      /\ t.steps <= 3 + Rounds * Round + t.pos
  BY <1>1 DEF AtSlave, InTime
<1>3. Len(bus) \in Nat /\ DcSlaves \subseteq Nat /\ \A p \in DcSlaves : p < Len(bus)
  BY <1>1, Network
<1>4. Rounds * Round \in Nat
  <2>1. Rounds \in Nat
    BY DcAssumption
  <2>. QED  BY <1>3, <2>1, SMT DEF Round
<1>5. \A p \in DcSlaves : t.first <= p /\ p <= t.pos => hw[p].offset = dcs[p].offset
  <2>1. \A p \in DcSlaves : t.first <= p /\ p < t.pos => hw[p].offset = dcs[p].offset
    BY <1>1 DEF WrittenTo
  <2>2. hw[t.pos].offset = dcs[t.pos].offset
    BY <1>1 DEF Own, Executed
  <2>3. \A p \in DcSlaves : p <= t.pos => p < t.pos \/ p = t.pos
    BY <1>2, <1>3, Orders
  <2>. QED  BY <2>1, <2>2, <2>3
<1>6. CASE NextDc(t) # None
  <2>1. /\ NextDc(t) \in DcSlaves /\ t.pos < NextDc(t)
        /\ \A p \in DcSlaves : p < NextDc(t) => p <= t.pos
    BY <1>1, <1>2, <1>6, NextDcBehind
  <2>2. PICK u : SetsPos(t, NextDc(t), u)
    BY DEF SetsPos
  <2>3. Moved(t, u) /\ u.state = "SetOffset" /\ u.pos = NextDc(t)
    <3>1. NextDc(t) \in Int
      BY <2>1, <1>3, Orders
    <3>. QED  BY <3>1, <1>1, <2>2, MovesPos
  <2>4. u.first = t.first
    BY <1>1, <2>3, MovedTask
  <2>5. t.first <= NextDc(t) /\ t.steps + 1 <= 3 + Rounds * Round + NextDc(t)
    <3>1. PICK f \in Nat, q \in Nat, m \in Nat, n \in Nat, a \in Nat :
            f = t.first /\ q = t.pos /\ m = NextDc(t) /\ n = t.steps /\ a = Rounds * Round
      BY <1>1, <1>2, <1>3, <1>4, <2>1
    <3>2. f <= q /\ q < m /\ n <= 3 + a + q
      BY <1>2, <2>1, <3>1
    <3>3. f <= m /\ n + 1 <= 3 + a + m
      BY <3>2, SMT
    <3>. QED  BY <3>1, <3>3
  <2>6. AtSlave(u)
    BY <1>2, <2>1, <2>3, <2>4, <2>5 DEF AtSlave
  <2>7. InTime(u, t.steps + 1)
    BY <2>3, <2>5 DEF InTime
  <2>8. WrittenTo(u, dcs)
    BY <1>5, <2>1, <2>3, <2>4 DEF WrittenTo
  <2>9. Outcome(t, Result(u, dcs))
    BY <1>1, <2>3, <2>6, <2>7, <2>8, GoesOn
  <2>10. Written(t, "SetDelay", t.first) = u
    BY <1>6, <2>2 DEF Written, SetsPos
  <2>. QED  BY <2>9, <2>10
<1>7. CASE NextDc(t) = None
  <2>1. \A p \in DcSlaves : p <= t.pos
    BY <1>1, <1>2, <1>7, NextDcBehind
  <2>2. PICK v, u : SetsState(t, "SetDelay", v) /\ SetsPos(v, t.first, u)
    BY DEF SetsState, SetsPos
  <2>3. Moved(t, u) /\ u.state = "SetDelay" /\ u.pos = t.first
    <3>1. t.first \in Int /\ "SetDelay" \in TaskState
      BY <1>2, <1>3, Orders DEF TaskState
    <3>. QED  BY <3>1, <1>1, <2>2, MovesStatePos
  <2>4. u.first = t.first
    BY <1>1, <2>3, MovedTask
  <2>5. t.first <= t.first /\ t.steps + 1 <= 3 + Rounds * Round + Len(bus) + t.first
    <3>1. PICK f \in Nat, q \in Nat, l \in Nat, n \in Nat, a \in Nat :
            f = t.first /\ q = t.pos /\ l = Len(bus) /\ n = t.steps /\ a = Rounds * Round
      BY <1>1, <1>2, <1>3, <1>4
    <3>2. q < l /\ n <= 3 + a + q
      BY <1>2, <1>3, <3>1
    <3>3. f <= f /\ n + 1 <= 3 + a + l + f
      BY <3>2, SMT
    <3>. QED  BY <3>1, <3>3
  <2>6. AtSlave(u)
    BY <1>2, <2>3, <2>4, <2>5 DEF AtSlave
  <2>7. InTime(u, t.steps + 1)
    BY <2>3, <2>5 DEF InTime
  <2>8. \A p \in DcSlaves : ~(t.first <= p /\ p < t.first)
    BY <1>2, <1>3, Orders
  <2>9. WrittenTo(u, dcs)
    BY <1>5, <2>1, <2>3, <2>4, <2>8 DEF WrittenTo
  <2>10. Outcome(t, Result(u, dcs))
    BY <1>1, <2>3, <2>6, <2>7, <2>9, GoesOn
  <2>11. Written(t, "SetDelay", t.first) = u
    BY <1>7, <2>2 DEF Written, SetsState, SetsPos
  <2>. QED  BY <2>10, <2>11
<1>. QED  BY <1>6, <1>7

\* SetDelay: the next slave with a clock, or the drift.
LEMMA SetDelayStep ==
  ASSUME NEW t, Going(t), t.state = "SetDelay", socket.wkc = 1
  PROVE  Outcome(t, Result(Written(t, "CompensateDrift", 0), dcs))
<1>1. /\ IsTask(t) /\ t.error = "none" /\ InTime(t, t.steps) /\ AtSlave(t) /\ WrittenTo(t, dcs)
      /\ bus \in Buses /\ t.steps \in Nat /\ Own(t, dcs) /\ socket.recv_flag
  BY DEF Going, UnderWay, IsTask, Fresh
<1>2. /\ t.first \in DcSlaves /\ t.pos \in DcSlaves /\ t.first <= t.pos
      /\ t.steps <= 3 + Rounds * Round + Len(bus) + t.pos
      /\ \A p \in DcSlaves : t.first <= p => hw[p].offset = dcs[p].offset
  BY <1>1 DEF AtSlave, InTime, WrittenTo
<1>3. Len(bus) \in Nat /\ DcSlaves \subseteq Nat
  BY <1>1, Network
<1>4. Rounds * Round \in Nat
  <2>1. Rounds \in Nat
    BY DcAssumption
  <2>. QED  BY <1>3, <2>1, SMT DEF Round
<1>5. \A p \in DcSlaves : t.first <= p /\ p <= t.pos => hw[p].delay = dcs[p].delay
  <2>1. \A p \in DcSlaves : t.first <= p /\ p < t.pos => hw[p].delay = dcs[p].delay
    BY <1>1 DEF WrittenTo
  <2>2. hw[t.pos].delay = dcs[t.pos].delay
    BY <1>1 DEF Own, Executed
  <2>3. \A p \in DcSlaves : p <= t.pos => p < t.pos \/ p = t.pos
    BY <1>2, <1>3, Orders
  <2>. QED  BY <2>1, <2>2, <2>3
<1>6. CASE NextDc(t) # None
  <2>1. /\ NextDc(t) \in DcSlaves /\ t.pos < NextDc(t)
        /\ \A p \in DcSlaves : p < NextDc(t) => p <= t.pos
    BY <1>1, <1>2, <1>6, NextDcBehind
  <2>2. PICK u : SetsPos(t, NextDc(t), u)
    BY DEF SetsPos
  <2>3. Moved(t, u) /\ u.state = "SetDelay" /\ u.pos = NextDc(t)
    <3>1. NextDc(t) \in Int
      BY <2>1, <1>3, Orders
    <3>. QED  BY <3>1, <1>1, <2>2, MovesPos
  <2>4. u.first = t.first
    BY <1>1, <2>3, MovedTask
  <2>5. t.first <= NextDc(t) /\ t.steps + 1 <= 3 + Rounds * Round + Len(bus) + NextDc(t)
    <3>1. PICK f \in Nat, q \in Nat, m \in Nat, n \in Nat, a \in Nat, l \in Nat :
            /\ f = t.first /\ q = t.pos /\ m = NextDc(t) /\ n = t.steps /\ a = Rounds * Round
            /\ l = Len(bus)
      BY <1>1, <1>2, <1>3, <1>4, <2>1
    <3>2. f <= q /\ q < m /\ n <= 3 + a + l + q
      BY <1>2, <2>1, <3>1
    <3>3. f <= m /\ n + 1 <= 3 + a + l + m
      BY <3>2, SMT
    <3>. QED  BY <3>1, <3>3
  <2>6. AtSlave(u)
    BY <1>2, <2>1, <2>3, <2>4, <2>5 DEF AtSlave
  <2>7. InTime(u, t.steps + 1)
    BY <2>3, <2>5 DEF InTime
  <2>8. WrittenTo(u, dcs)
    BY <1>2, <1>5, <2>1, <2>3, <2>4 DEF WrittenTo
  <2>9. Outcome(t, Result(u, dcs))
    BY <1>1, <2>3, <2>6, <2>7, <2>8, GoesOn
  <2>10. Written(t, "CompensateDrift", 0) = u
    BY <1>6, <2>2 DEF Written, SetsPos
  <2>. QED  BY <2>9, <2>10
<1>7. CASE NextDc(t) = None
  <2>1. \A p \in DcSlaves : p <= t.pos
    BY <1>1, <1>2, <1>7, NextDcBehind
  <2>2. PICK v, u : SetsState(t, "CompensateDrift", v) /\ SetsPos(v, 0, u)
    BY DEF SetsState, SetsPos
  <2>3. Moved(t, u) /\ u.state = "CompensateDrift"
    <3>1. 0 \in Int /\ "CompensateDrift" \in TaskState
      BY SMT DEF TaskState
    <3>. QED  BY <3>1, <1>1, <2>2, MovesStatePos
  <2>4. u.first = t.first
    BY <1>1, <2>3, MovedTask
  <2>5. AtSlave(u) /\ InTime(u, t.steps + 1)
    BY <1>2, <2>3, <2>4 DEF AtSlave, InTime
  <2>6. WrittenTo(u, dcs)
    BY <1>2, <1>5, <2>1, <2>3, <2>4 DEF WrittenTo
  <2>7. Outcome(t, Result(u, dcs))
    BY <1>1, <2>3, <2>5, <2>6, GoesOn
  <2>8. Written(t, "CompensateDrift", 0) = u
    BY <1>7, <2>2 DEF Written, SetsState, SetsPos
  <2>. QED  BY <2>7, <2>8
<1>. QED  BY <1>6, <1>7

\* What each state makes of an answer that is its own and whose working counter is right.
Processed(t) ==
  CASE t.state = "ClearOffset" -> Result([t EXCEPT !.state = "ClearDelay"], dcs)
    [] t.state = "ClearDelay" ->
         Result([t EXCEPT !.state = "RequestToLatch", !.count = 0], dcs)
    [] t.state = "RequestToLatch" ->
         Result([t EXCEPT !.state = "CalculateDelay", !.pos = 0], dcs)
    [] t.state = "CalculateDelay" -> DelayCalculated(t)
    [] t.state = "SetOffset" -> Result(Written(t, "SetDelay", t.first), dcs)
    [] t.state = "SetDelay" -> Result(Written(t, "CompensateDrift", 0), dcs)
    [] t.state = "CompensateDrift" ->
         Result(IF t.count + 1 < DriftMin THEN [t EXCEPT !.count = t.count + 1]
                ELSE [t EXCEPT !.state = "CheckDelta"], dcs)
    [] t.state = "CheckDelta" -> Result(DeltaChecked(t), dcs)

\* Whatever the state, the task goes on in time or ends.
LEMMA ProcessedOutcome ==
  ASSUME NEW t, Going(t), socket.wkc = ExpectedWkc(t)
  PROVE  Outcome(t, Processed(t))
<1>1. t.state \in {"ClearOffset", "ClearDelay", "RequestToLatch", "CalculateDelay", "SetOffset",
                   "SetDelay", "CompensateDrift", "CheckDelta"}
  BY DEF Going, BusyState, TaskState
<1>2. CASE t.state = "ClearOffset"
  <2>1. Processed(t) = Result([t EXCEPT !.state = "ClearDelay"], dcs)
    BY <1>2, Zenon DEF Processed
  <2>. QED  BY <1>2, <2>1, ClearOffsetStep
<1>3. CASE t.state = "ClearDelay"
  <2>1. Processed(t) = Result([t EXCEPT !.state = "RequestToLatch", !.count = 0], dcs)
    BY <1>3, Zenon DEF Processed
  <2>2. Outcome(t, Result([t EXCEPT !.state = "RequestToLatch", !.count = 0], dcs))
    BY <1>3, ClearDelayStep
  <2>. QED  BY <2>1, <2>2
<1>4. CASE t.state = "RequestToLatch"
  <2>1. Processed(t) = Result([t EXCEPT !.state = "CalculateDelay", !.pos = 0], dcs)
    BY <1>4, Zenon DEF Processed
  <2>2. Outcome(t, Result([t EXCEPT !.state = "CalculateDelay", !.pos = 0], dcs))
    BY <1>4, RequestToLatchStep
  <2>. QED  BY <2>1, <2>2
<1>5. CASE t.state = "CalculateDelay"
  <2>1. Processed(t) = DelayCalculated(t)
    BY <1>5, Zenon DEF Processed
  <2>. QED  BY <1>5, <2>1, CalculateDelayStep
<1>6. CASE t.state = "SetOffset"
  <2>1. Processed(t) = Result(Written(t, "SetDelay", t.first), dcs)
    BY <1>6, Zenon DEF Processed
  <2>2. socket.wkc = 1
    BY <1>6, Zenon DEF ExpectedWkc
  <2>. QED  BY <1>6, <2>1, <2>2, SetOffsetStep
<1>7. CASE t.state = "SetDelay"
  <2>1. Processed(t) = Result(Written(t, "CompensateDrift", 0), dcs)
    BY <1>7, Zenon DEF Processed
  <2>2. socket.wkc = 1
    BY <1>7, Zenon DEF ExpectedWkc
  <2>. QED  BY <1>7, <2>1, <2>2, SetDelayStep
<1>8. CASE t.state = "CompensateDrift"
  <2>1. Processed(t) = Result(IF t.count + 1 < DriftMin THEN [t EXCEPT !.count = t.count + 1]
                              ELSE [t EXCEPT !.state = "CheckDelta"], dcs)
    BY <1>8, Zenon DEF Processed
  <2>2. Outcome(t, Result(IF t.count + 1 < DriftMin THEN [t EXCEPT !.count = t.count + 1]
                          ELSE [t EXCEPT !.state = "CheckDelta"], dcs))
    BY <1>8, CompensateDriftStep
  <2>. QED  BY <2>1, <2>2
<1>9. CASE t.state = "CheckDelta"
  <2>1. Processed(t) = Result(DeltaChecked(t), dcs)
    BY <1>9, Zenon DEF Processed
  <2>. QED  BY <1>9, <2>1, CheckDeltaStep
<1>. QED  BY <1>1, <1>2, <1>3, <1>4, <1>5, <1>6, <1>7, <1>8, <1>9

\* recieve_and_process: the task goes on, or has ended with a cause.
LEMMA RecievedOutcome ==
  ASSUME NEW t, Going(t)
  PROVE  Outcome(t, Recieved(t))
<1>1. CASE socket.command # t.command
  <2>1. Recieved(t) = Fails(t, "UnexpectedCommand")
    BY <1>1 DEF Recieved
  <2>. QED  BY <1>1, <2>1, FailsWithCause
<1>2. CASE socket.command = t.command /\ socket.wkc # ExpectedWkc(t)
  <2>1. Recieved(t) = Fails(t, "UnexpectedWkc")
    BY <1>2 DEF Recieved
  <2>. QED  BY <1>2, <2>1, FailsWithCause
<1>3. CASE socket.command = t.command /\ socket.wkc = ExpectedWkc(t)
  <2>1. Recieved(t) = Processed(t)
    BY <1>3, Zenon DEF Recieved, Processed
  <2>. QED  BY <1>3, <2>1, ProcessedOutcome
<1>. QED  BY <1>1, <1>2, <1>3

----------------------------------------------------------------------------
(* next_pdu *)

\* The PDU of each state: its register, its slave and its value.
Table(t, d, q) ==
  /\ t.state \in {"ClearOffset", "ClearDelay", "RequestToLatch", "CheckDelta"} => q.pos = None
  /\ t.state = "CalculateDelay" => q.pos = t.pos /\ q.command[2] = "DcRecieveTime"
  /\ t.state = "SetOffset" =>
       q.pos = t.pos /\ q.command[2] = "DcSystemTimeOffset" /\ q.value = d[t.pos].offset
  /\ t.state = "SetDelay" =>
       q.pos = t.pos /\ q.command[2] = "DcSystemTimeTransmissionDelay" /\ q.value = d[t.pos].delay
  /\ t.state = "CompensateDrift" => q.command[2] = "DcSystemTime"
  /\ t.state = "CheckDelta" => q.command[2] = "DcSystemTimeDelta"

\* A PDU holds what it is made of, and has not come back.
PduWith(q, command, pos, value) ==
  IsPdu(q) /\ q.recv_flag = FALSE /\ q.command = command /\ q.pos = pos /\ q.value = value

\* Pdu makes such a PDU.
LEMMA PduFields ==
  ASSUME NEW op, NEW reg, NEW pos, NEW value
  PROVE  PduWith(Pdu(op, reg, pos, value), <<op, reg>>, pos, value)
<1>1. PICK q, c, n, v, w : /\ q = Pdu(op, reg, pos, value) /\ c = <<op, reg>>
                           /\ n = NoPdu /\ v = [n EXCEPT !.command = c]
                           /\ w = [v EXCEPT !.pos = pos]
  OBVIOUS
<1>2. q = [w EXCEPT !.value = value]
  BY <1>1 DEF Pdu
<1>3. PICK a, b, e, x, z : /\ a = [r \in Port |-> 0] /\ b = {} /\ e = <<"none", "none">>
                           /\ x = None /\ z = FALSE
  OBVIOUS
<1>4. n = [command |-> e, pos |-> x, value |-> 0, recv_flag |-> z, wkc |-> 0, answer |-> a,
           bits |-> b]
  BY <1>1, <1>3 DEF NoPdu
<1>5. v = [n EXCEPT !.command = c]
  BY <1>1
<1>6. w = [v EXCEPT !.pos = pos]
  BY <1>1
<1>7. v = [command |-> c, pos |-> x, value |-> 0, recv_flag |-> z, wkc |-> 0, answer |-> a,
           bits |-> b]
  BY <1>4, <1>5, SMT
<1>8. w = [command |-> c, pos |-> pos, value |-> 0, recv_flag |-> z, wkc |-> 0, answer |-> a,
           bits |-> b]
  BY <1>6, <1>7, SMT
<1>9. q = [command |-> c, pos |-> pos, value |-> value, recv_flag |-> z, wkc |-> 0, answer |-> a,
           bits |-> b]
  BY <1>2, <1>8, SMT
<1>10. /\ q.recv_flag = z /\ q.command = c /\ q.pos = pos /\ q.value = value
      /\ q.wkc = 0 /\ q.answer = a /\ q.bits = b
  BY <1>9, SMT
<1>11. IsPdu(q)
  BY <1>3, <1>9, <1>10 DEF IsPdu
<1>12. PduWith(q, c, pos, value)
  BY <1>3, <1>10, <1>11 DEF PduWith
<1>. QED  BY <1>1, <1>12

\* A task that is not at its end sends the PDU of its state.
LEMMA PduOfBusy ==
  ASSUME NEW t, NEW d, NEW q, t.state \in BusyState, q = PduOf(t, d)
  PROVE  IsPdu(q) /\ q.recv_flag = FALSE /\ q.command # <<"none", "none">> /\ Table(t, d, q)
<1>1. t.state \in {"ClearOffset", "ClearDelay", "RequestToLatch", "CalculateDelay", "SetOffset",
                   "SetDelay", "CompensateDrift", "CheckDelta"}
  BY DEF BusyState, TaskState
<1>2. CASE t.state = "ClearOffset"
  <2>1. q = Pdu("BWR", "DcSystemTimeOffset", None, 0)
    BY <1>2, Zenon DEF PduOf
  <2>2. PduWith(q, <<"BWR", "DcSystemTimeOffset">>, None, 0)
    BY <2>1, PduFields
  <2>. QED  BY <1>2, <2>2 DEF Table, PduWith
<1>3. CASE t.state = "ClearDelay"
  <2>1. q = Pdu("BWR", "DcSystemTimeTransmissionDelay", None, 0)
    BY <1>3, Zenon DEF PduOf
  <2>2. PduWith(q, <<"BWR", "DcSystemTimeTransmissionDelay">>, None, 0)
    BY <2>1, PduFields
  <2>. QED  BY <1>3, <2>2 DEF Table, PduWith
<1>4. CASE t.state = "RequestToLatch"
  <2>1. q = Pdu("BWR", "DcRecieveTime", None, 0)
    BY <1>4, Zenon DEF PduOf
  <2>2. PduWith(q, <<"BWR", "DcRecieveTime">>, None, 0)
    BY <2>1, PduFields
  <2>. QED  BY <1>4, <2>2 DEF Table, PduWith
<1>5. CASE t.state = "CalculateDelay"
  <2>1. q = Pdu("APRD", "DcRecieveTime", t.pos, 0)
    BY <1>5, Zenon DEF PduOf
  <2>2. PduWith(q, <<"APRD", "DcRecieveTime">>, t.pos, 0)
    BY <2>1, PduFields
  <2>. QED  BY <1>5, <2>2 DEF Table, PduWith
<1>6. CASE t.state = "SetOffset"
  <2>1. q = Pdu("APWR", "DcSystemTimeOffset", t.pos, d[t.pos].offset)
    BY <1>6, Zenon DEF PduOf
  <2>2. PduWith(q, <<"APWR", "DcSystemTimeOffset">>, t.pos, d[t.pos].offset)
    BY <2>1, PduFields
  <2>. QED  BY <1>6, <2>2 DEF Table, PduWith
<1>7. CASE t.state = "SetDelay"
  <2>1. q = Pdu("APWR", "DcSystemTimeTransmissionDelay", t.pos, d[t.pos].delay)
    BY <1>7, Zenon DEF PduOf
  <2>2. PduWith(q, <<"APWR", "DcSystemTimeTransmissionDelay">>, t.pos, d[t.pos].delay)
    BY <2>1, PduFields
  <2>. QED  BY <1>7, <2>2 DEF Table, PduWith
<1>8. CASE t.state = "CompensateDrift"
  <2>1. q = Pdu("ARMW", "DcSystemTime", t.first, 0)
    BY <1>8, Zenon DEF PduOf
  <2>2. PduWith(q, <<"ARMW", "DcSystemTime">>, t.first, 0)
    BY <2>1, PduFields
  <2>. QED  BY <1>8, <2>2 DEF Table, PduWith
<1>9. CASE t.state = "CheckDelta"
  <2>1. q = Pdu("BRD", "DcSystemTimeDelta", None, 0)
    BY <1>9, Zenon DEF PduOf
  <2>2. PduWith(q, <<"BRD", "DcSystemTimeDelta">>, None, 0)
    BY <2>1, PduFields
  <2>. QED  BY <1>9, <2>2 DEF Table, PduWith
<1>. QED  BY <1>1, <1>2, <1>3, <1>4, <1>5, <1>6, <1>7, <1>8, <1>9

\* The PDU depends on the state, the position, the first clock and the contexts.
LEMMA PduOfSame ==
  ASSUME NEW t, NEW u, NEW d, u.state = t.state, u.pos = t.pos, u.first = t.first
  PROVE  PduOf(u, d) = PduOf(t, d)
BY Zenon DEF PduOf

----------------------------------------------------------------------------
(* The actions. *)

\* The network stays what it is.
LEMMA SameNetwork ==
  ASSUME bus' = bus
  PROVE  Slaves' = Slaves /\ DcSlaves' = DcSlaves /\ Round' = Round
BY DEF Slaves, DcSlaves, Slave, Round

\* A task that is not at its end is under way.
LEMMA BusyTask ==
  ASSUME DcInv, Busy
  PROVE  task.state \in BusyState /\ UnderWay(task, dcs)
<1>1. task.state \in TaskState
  BY DEF DcInv, IsTask
<1>2. task.state \in BusyState
  BY <1>1 DEF Busy, BusyState
<1>3. \E t \in {task}, d \in {dcs} : UnderWay(t, d)
  BY <1>2 DEF DcInv
<1>. QED  BY <1>2, <1>3

\* The start of init_dc sends nothing yet.
LEMMA StartKeeps ==
  ASSUME DcInv, Start
  PROVE  DcInv'
<1>1. bus' = bus /\ socket' = socket /\ hw' = hw
  BY DEF Start, deviceVars
<1>2. PICK walk : walk = RecievedPorts
  OBVIOUS
<1>3. PICK dc : dc = {k \in 1 .. Len(walk.ports) : walk.ports[k][1] \in DcSlaves}
  OBVIOUS
<1>4. PICK s, f : /\ s = (IF Slaves = {} \/ walk.panic THEN "panic" ELSE "ClearOffset")
                  /\ f = (IF dc = {} THEN None ELSE walk.ports[Min(dc)][1])
  OBVIOUS
<1>5. task' = [NewDcInit EXCEPT !.state = s, !.first = f]
  BY <1>2, <1>3, <1>4 DEF Start
<1>6. task' = [state |-> s, count |-> 0, pos |-> 0, first |-> f, error |-> "none",
               command |-> DefaultCommand, steps |-> 0]
  <2>1. PICK n, v, c : /\ n = NewDcInit /\ v = [n EXCEPT !.state = s]
                       /\ c = DefaultCommand
    OBVIOUS
  <2>2. task' = [v EXCEPT !.first = f]
    BY <1>5, <2>1
  <2>3. n = [state |-> "Idle", count |-> 0, pos |-> 0, first |-> None, error |-> "none",
             command |-> c, steps |-> 0]
    BY <2>1 DEF NewDcInit
  <2>4. v = [n EXCEPT !.state = s]
    BY <2>1
  <2>5. v = [state |-> s, count |-> 0, pos |-> 0, first |-> None, error |-> "none",
             command |-> c, steps |-> 0]
    BY <2>3, <2>4, SMT
  <2>6. task' = [state |-> s, count |-> 0, pos |-> 0, first |-> f, error |-> "none",
                 command |-> c, steps |-> 0]
    BY <2>2, <2>5, SMT
  <2>. QED  BY <2>1, <2>6
<1>7. f \in DcSlaves \cup {None}
  <2>1. CASE dc = {}
    BY <2>1, <1>4
  <2>2. CASE dc # {}
    <3>1. dc \subseteq Nat
      BY <1>3, SMT
    <3>2. Min(dc) \in dc
      BY <2>2, <3>1, LeastElement
    <3>3. walk.ports[Min(dc)][1] \in DcSlaves
      BY <1>3, <3>2
    <3>. QED  BY <2>2, <3>3, <1>4
  <2>. QED  BY <2>1, <2>2
<1>8. s \in {"panic", "ClearOffset"} /\ (s = "ClearOffset" => Slaves # {})
  BY <1>4
<1>9. PICK t, d : t = task' /\ d = dcs'
  OBVIOUS
<1>10. t = [state |-> s, count |-> 0, pos |-> 0, first |-> f, error |-> "none",
            command |-> DefaultCommand, steps |-> 0]
  BY <1>6, <1>9
<1>11. /\ t.state = s /\ t.count = 0 /\ t.pos = 0 /\ t.first = f /\ t.error = "none"
       /\ t.command = DefaultCommand /\ t.steps = 0
  BY <1>10
<1>12. Slaves' = Slaves /\ DcSlaves' = DcSlaves
  BY <1>1, SameNetwork
<1>13. IsTask(task)'
  <2>1. t = [state |-> t.state, count |-> t.count, pos |-> t.pos, first |-> t.first,
             error |-> t.error, command |-> t.command, steps |-> t.steps]
    BY <1>10, <1>11
  <2>2. t.state \in TaskState
    BY <1>8, <1>11 DEF TaskState
  <2>3. t.count \in Nat /\ t.steps \in Nat
    BY <1>11, SMT
  <2>4. t.first \in DcSlaves' \cup {None}
    BY <1>7, <1>11, <1>12
  <2>. QED  BY <1>9, <2>1, <2>2, <2>3, <2>4 DEF IsTask
<1>14. ASSUME t.state \in BusyState  PROVE UnderWay(t, d)'
  <2>1. t.state = "ClearOffset" /\ Slaves # {}
    BY <1>8, <1>11, <1>14 DEF BusyState
  <2>2. AtSlave(t)' /\ WrittenTo(t, d)'
    BY <2>1 DEF AtSlave, WrittenTo
  <2>3. InTime(t, t.steps)'
    <3>1. t.steps <= 1
      BY <1>11, SMT
    <3>. QED  BY <2>1, <3>1 DEF InTime
  <2>4. stale' = (socket # NoPdu)
    BY DEF Start
  <2>5. Fresh(t)'
    BY <1>1, <1>11, <2>1, <2>4 DEF Fresh
  <2>. QED  BY <1>11, <1>12, <2>1, <2>2, <2>3, <2>5 DEF UnderWay
<1>15. FailsForCause'
  BY <1>9, <1>11 DEF FailsForCause
<1>16. bus' \in Buses /\ IsPdu(socket)' /\ IsHw(hw)'
  BY <1>1 DEF DcInv, IsPdu, IsHw
<1>. QED  BY <1>9, <1>13, <1>14, <1>15, <1>16 DEF DcInv

\* block_on returns an error of the link.
LEMMA GiveUpKeeps ==
  ASSUME DcInv, GiveUp
  PROVE  DcInv'
<1>1. bus' = bus /\ socket' = socket /\ hw' = hw
  BY DEF GiveUp, deviceVars
<1>2. task' = [task EXCEPT !.state = "Error", !.error = "GivenUp"]
  BY DEF GiveUp
<1>3. task = [state |-> task.state, count |-> task.count, pos |-> task.pos, first |-> task.first,
              error |-> task.error, command |-> task.command, steps |-> task.steps]
  BY DEF DcInv, IsTask
<1>4. PICK t : t = task'
  OBVIOUS
<1>5. t = [state |-> "Error", count |-> task.count, pos |-> task.pos, first |-> task.first,
           error |-> "GivenUp", command |-> task.command, steps |-> task.steps]
  <2>1. PICK v : v = [task EXCEPT !.state = "Error"]
    OBVIOUS
  <2>2. t = [v EXCEPT !.error = "GivenUp"]
    BY <1>2, <1>4, <2>1
  <2>3. v = [state |-> "Error", count |-> task.count, pos |-> task.pos, first |-> task.first,
             error |-> task.error, command |-> task.command, steps |-> task.steps]
    BY <1>3, <2>1, SMT
  <2>. QED  BY <2>2, <2>3, SMT
<1>6. /\ t.state = "Error" /\ t.error = "GivenUp" /\ t.first = task.first
      /\ t.count = task.count /\ t.steps = task.steps /\ t.pos = task.pos
      /\ t.command = task.command
  BY <1>5
<1>7. Slaves' = Slaves /\ DcSlaves' = DcSlaves
  BY <1>1, SameNetwork
<1>8. IsTask(task)'
  <2>1. task.count \in Nat /\ task.steps \in Nat /\ task.first \in DcSlaves \cup {None}
    BY DEF DcInv, IsTask
  <2>2. t = [state |-> t.state, count |-> t.count, pos |-> t.pos, first |-> t.first,
             error |-> t.error, command |-> t.command, steps |-> t.steps]
    BY <1>5, <1>6
  <2>3. t.state \in TaskState
    BY <1>6 DEF TaskState
  <2>. QED  BY <1>4, <1>6, <1>7, <2>1, <2>2, <2>3 DEF IsTask
<1>9. task'.state \notin BusyState /\ FailsForCause'
  BY <1>4, <1>6 DEF FailsForCause, BusyState
<1>10. bus' \in Buses /\ IsPdu(socket)' /\ IsHw(hw)'
  BY <1>1 DEF DcInv, IsPdu, IsHw
<1>. QED  BY <1>8, <1>9, <1>10 DEF DcInv

\* process_one_step: what recieve_and_process makes of the answer, if there is one.
LEMMA StepOutcome ==
  ASSUME DcInv, Busy, socket.recv_flag \/ socket = NoPdu, NEW r,
         r = IF socket.recv_flag THEN Recieved(task) ELSE Result(task, dcs)
  PROVE  Outcome(task, r)
<1>1. task.state \in BusyState /\ UnderWay(task, dcs) /\ IsTask(task) /\ bus \in Buses
  BY BusyTask DEF DcInv
<1>2. CASE socket.recv_flag
  <2>1. Going(task)
    BY <1>1, <1>2 DEF Going
  <2>2. PICK t : t = task
    OBVIOUS
  <2>3. Outcome(t, Recieved(t))
    BY <2>1, <2>2, RecievedOutcome
  <2>. QED  BY <1>2, <2>2, <2>3
<1>3. CASE ~socket.recv_flag
  <2>1. socket = NoPdu /\ r = Result(task, dcs)
    BY <1>3
  <2>2. PICK t : t = task
    OBVIOUS
  <2>3. socket.command = <<"none", "none">>
    BY <2>1 DEF NoPdu
  <2>4. ~Own(t, dcs)
    <3>1. PICK q : q = PduOf(t, dcs)
      OBVIOUS
    <3>2. q.command # <<"none", "none">>
      BY <1>1, <2>2, <3>1, PduOfBusy
    <3>. QED  BY <2>3, <3>1, <3>2 DEF Own
  <2>5. Fresh(t) /\ t.error = "none" /\ AtSlave(t) /\ WrittenTo(t, dcs)
    BY <1>1, <2>2, <2>4 DEF UnderWay
  <2>6. t.state = "ClearOffset" /\ t.steps + 1 <= 1
    <3>1. t.state = "ClearOffset" /\ t.steps = 0
      BY <2>5 DEF Fresh
    <3>. QED  BY <3>1, SMT
  <2>7. InTime(t, t.steps + 1)
    BY <2>6 DEF InTime
  <2>8. Result(t, dcs).task = t /\ Result(t, dcs).dcs = dcs
    BY DEF Result
  <2>9. Outcome(t, Result(t, dcs))
    BY <1>1, <2>2, <2>5, <2>6, <2>7, <2>8 DEF Outcome, Ahead
  <2>. QED  BY <2>1, <2>2, <2>9
<1>. QED  BY <1>2, <1>3

\* A task that is ahead and beyond the limit of block_on has written all.
LEMMA LimitWhenWritten ==
  ASSUME NEW t, NEW d, bus \in Buses, IsTask(t), t.state \in BusyState, Ahead(t, d),
         StepLimit < t.steps + 1
  PROVE  \A p \in DcSlaves : t.first <= p =>
           hw[p].delay = d[p].delay /\ hw[p].offset = d[p].offset
<1>1. t.steps \in Nat /\ t.count \in Nat /\ InTime(t, t.steps + 1) /\ AtSlave(t) /\ WrittenTo(t, d)
  BY DEF IsTask, Ahead
<1>2. Len(bus) \in Nat /\ Slaves \subseteq Nat /\ DcSlaves \subseteq Slaves
      /\ \A p \in Slaves : p < Len(bus)
  BY Network
<1>3. Rounds \in Nat /\ StepLimit \in Nat
  BY DcAssumption
<1>4. PICK n \in Nat, l \in Nat, a \in Nat :
        n = t.steps + 1 /\ l = Len(bus) /\ a = Rounds * Round
  <2>1. t.steps + 1 \in Nat
    BY <1>1, SMT
  <2>2. Rounds * Round \in Nat
    BY <1>2, <1>3, SMT DEF Round
  <2>. QED  BY <1>2, <2>1, <2>2
<1>5. 2 + a + 2 * l <= StepLimit
  <2>1. 2 + Rounds * (Len(bus) + 1) + 2 * Len(bus) <= StepLimit
    BY StepAssumption
  <2>. QED  BY <2>1, <1>4 DEF Round
<1>6. 2 + a + 2 * l < n
  BY <1>3, <1>4, <1>5, SMT
<1>7. t.count < Rounds => t.count * Round \in Nat /\ t.count * Round + Round <= a
  <2>1. Round \in Nat
    BY <1>2, SMT DEF Round
  <2>. QED  BY <1>1, <1>3, <1>4, <2>1, RoundLess
<1>8. Round = l + 1
  BY <1>4 DEF Round
<1>9. t.state # "ClearOffset" /\ t.state # "ClearDelay"
  <2>1. t.state \in {"ClearOffset", "ClearDelay"} => n <= 2
    <3>1. t.state = "ClearOffset" => n <= 1
      BY <1>1, <1>4 DEF InTime
    <3>2. t.state = "ClearDelay" => n <= 2
      BY <1>1, <1>4 DEF InTime
    <3>. QED  BY <3>1, <3>2, SMT
  <2>. QED  BY <1>6, <2>1, SMT
<1>10. t.state # "RequestToLatch"
  <2>1. SUFFICES ASSUME t.state = "RequestToLatch"  PROVE FALSE
    OBVIOUS
  <2>2. t.count < Rounds /\ n <= 3 + t.count * Round
    BY <1>1, <1>4, <2>1 DEF InTime
  <2>3. PICK b \in Nat : b = t.count * Round
    BY <1>7, <2>2
  <2>4. n <= 3 + b /\ b + (l + 1) <= a
    BY <1>7, <1>8, <2>2, <2>3
  <2>. QED  BY <1>6, <2>4, SMT
<1>11. t.state # "CalculateDelay"
  <2>1. SUFFICES ASSUME t.state = "CalculateDelay"  PROVE FALSE
    OBVIOUS
  <2>2. t.count < Rounds /\ n <= 4 + t.count * Round + t.pos
    BY <1>1, <1>4, <2>1 DEF InTime
  <2>3. PICK b \in Nat, q \in Nat : b = t.count * Round /\ q = t.pos /\ q < l
    BY <1>1, <1>2, <1>4, <1>7, <2>1, <2>2 DEF AtSlave
  <2>4. n <= 4 + b + q /\ b + (l + 1) <= a
    BY <1>7, <1>8, <2>2, <2>3
  <2>. QED  BY <1>6, <2>3, <2>4, SMT
<1>12. t.state # "SetOffset" /\ t.state # "SetDelay"
  <2>1. SUFFICES ASSUME t.state \in {"SetOffset", "SetDelay"}  PROVE FALSE
    OBVIOUS
  <2>2. PICK q \in Nat : q = t.pos /\ q < l
    BY <1>1, <1>2, <1>4, <2>1 DEF AtSlave
  <2>3. n <= 3 + a + q \/ n <= 3 + a + l + q
    BY <1>1, <1>4, <2>1, <2>2 DEF InTime
  <2>. QED  BY <1>6, <2>2, <2>3, SMT
<1>13. t.state \in {"CompensateDrift", "CheckDelta"}
  BY <1>9, <1>10, <1>11, <1>12 DEF BusyState, TaskState
<1>. QED  BY <1>1, <1>13 DEF WrittenTo

\* process_one_step in block_on.
LEMMA StepKeeps ==
  ASSUME DcInv, Step
  PROVE  DcInv'
<1>1. bus' = bus /\ hw' = hw /\ missed' = missed /\ stale' = stale
  BY DEF Step, deviceVars
<1>2. PICK r : r = IF socket.recv_flag THEN Recieved(task) ELSE Result(task, dcs)
  OBVIOUS
<1>3. PICK pdu, busy : /\ pdu = PduOf(r.task, r.dcs)
                       /\ busy = (r.task.state \notin {"Error", "Complete", "panic"})
  OBVIOUS
<1>4. PICK u : u = [r.task EXCEPT !.steps = @ + 1, !.command = IF busy THEN pdu.command ELSE @]
  OBVIOUS
<1>5. /\ task' = IF busy /\ StepLimit < u.steps
                 THEN [u EXCEPT !.state = "Error", !.error = "Timeout"] ELSE u
      /\ dcs' = r.dcs /\ socket' = pdu
  BY <1>2, <1>3, <1>4 DEF Step
<1>6. Outcome(task, r)
  BY <1>2, StepOutcome DEF Step
<1>7. PICK x : x = r.task
  OBVIOUS
<1>8. /\ IsTask(x) /\ x.state # "Idle"
      /\ (x.state \in BusyState => Ahead(x, r.dcs))
      /\ (x.state \notin BusyState => Caused(x))
  BY <1>6, <1>7 DEF Outcome
<1>9. busy = (x.state \in BusyState)
  BY <1>3, <1>7, <1>8 DEF IsTask, BusyState
<1>10. PICK c : c = IF busy THEN pdu.command ELSE x.command
  OBVIOUS
<1>11. u = [state |-> x.state, count |-> x.count, pos |-> x.pos, first |-> x.first,
            error |-> x.error, command |-> c, steps |-> x.steps + 1]
  <2>1. PICK n, v : n = x.steps + 1 /\ v = [x EXCEPT !.steps = n]
    OBVIOUS
  <2>2. x = [state |-> x.state, count |-> x.count, pos |-> x.pos, first |-> x.first,
             error |-> x.error, command |-> x.command, steps |-> x.steps]
    BY <1>8 DEF IsTask
  <2>3. v = [x EXCEPT !.steps = n]
    BY <2>1
  <2>4. v = [state |-> x.state, count |-> x.count, pos |-> x.pos, first |-> x.first,
             error |-> x.error, command |-> x.command, steps |-> n]
    BY <2>2, <2>3, SMT
  <2>5. v.command = x.command
    BY <2>4
  <2>6. u = [v EXCEPT !.command = IF busy THEN pdu.command ELSE v.command]
    BY <1>4, <1>7, <2>1
  <2>7. u = [v EXCEPT !.command = c]
    BY <1>10, <2>5, <2>6
  <2>8. u = [state |-> x.state, count |-> x.count, pos |-> x.pos, first |-> x.first,
             error |-> x.error, command |-> c, steps |-> n]
    BY <2>4, <2>7, SMT
  <2>. QED  BY <2>1, <2>8
<1>12. /\ u.state = x.state /\ u.count = x.count /\ u.pos = x.pos /\ u.first = x.first
       /\ u.error = x.error /\ u.command = c /\ u.steps = x.steps + 1
  BY <1>11
<1>13. IsTask(u)
  <2>1. x.steps \in Nat
    BY <1>8 DEF IsTask
  <2>2. x.steps + 1 \in Nat
    BY <2>1, SMT
  <2>. QED  BY <1>8, <1>11, <1>12, <2>2 DEF IsTask
<1>14. Slaves' = Slaves /\ DcSlaves' = DcSlaves /\ Round' = Round
  BY <1>1, SameNetwork
<1>15. bus' \in Buses /\ IsHw(hw)' /\ bus \in Buses
  BY <1>1 DEF DcInv, IsHw
<1>16. IsPdu(socket)'
  <2>1. x.state \in BusyState => IsPdu(pdu)
    BY <1>3, <1>7, PduOfBusy
  <2>2. x.state \notin BusyState => IsPdu(pdu)
    <3>1. SUFFICES ASSUME x.state \notin BusyState  PROVE IsPdu(pdu)
      OBVIOUS
    <3>2. x.state \in {"Error", "Complete", "panic"}
      BY <1>8, <3>1 DEF IsTask, BusyState
    <3>3. pdu = NoPdu
      BY <1>3, <1>7, <3>2, Zenon DEF PduOf
    <3>4. IsPdu(NoPdu)
      BY DEF IsPdu, NoPdu
    <3>. QED  BY <3>3, <3>4
  <2>. QED  BY <1>5, <2>1, <2>2 DEF IsPdu
<1>17. CASE ~busy
  <2>1. task' = u
    BY <1>5, <1>17
  <2>2. u.state \notin BusyState /\ Caused(x)
    BY <1>8, <1>9, <1>12, <1>17
  <2>3. FailsForCause'
    BY <1>1, <1>12, <1>14, <2>1, <2>2 DEF Caused, FailsForCause
  <2>4. IsTask(task)'
    BY <1>13, <1>14, <2>1 DEF IsTask
  <2>. QED  BY <1>15, <1>16, <2>1, <2>2, <2>3, <2>4 DEF DcInv
<1>18. CASE busy /\ StepLimit < u.steps
  <2>1. PICK w : w = [u EXCEPT !.state = "Error", !.error = "Timeout"]
    OBVIOUS
  <2>2. task' = w
    BY <1>5, <1>18, <2>1
  <2>3. w = [state |-> "Error", count |-> u.count, pos |-> u.pos, first |-> u.first,
             error |-> "Timeout", command |-> u.command, steps |-> u.steps]
    <3>1. PICK v : v = [u EXCEPT !.state = "Error"]
      OBVIOUS
    <3>2. w = [v EXCEPT !.error = "Timeout"]
      BY <2>1, <3>1
    <3>3. u = [state |-> u.state, count |-> u.count, pos |-> u.pos, first |-> u.first,
               error |-> u.error, command |-> u.command, steps |-> u.steps]
      BY <1>13 DEF IsTask
    <3>4. v = [state |-> "Error", count |-> u.count, pos |-> u.pos, first |-> u.first,
               error |-> u.error, command |-> u.command, steps |-> u.steps]
      BY <3>1, <3>3, SMT
    <3>. QED  BY <3>2, <3>4, SMT
  <2>4. /\ w.state = "Error" /\ w.error = "Timeout" /\ w.first = u.first /\ w.count = u.count
        /\ w.steps = u.steps /\ w.pos = u.pos /\ w.command = u.command
    BY <2>3
  <2>5. IsTask(task)'
    <3>1. w = [state |-> w.state, count |-> w.count, pos |-> w.pos, first |-> w.first,
               error |-> w.error, command |-> w.command, steps |-> w.steps]
      BY <2>3, <2>4
    <3>2. w.state \in TaskState
      BY <2>4 DEF TaskState
    <3>3. u.count \in Nat /\ u.steps \in Nat /\ u.first \in DcSlaves \cup {None}
      BY <1>13 DEF IsTask
    <3>. QED  BY <1>14, <2>2, <2>4, <3>1, <3>2, <3>3 DEF IsTask
  <2>6. \A p \in DcSlaves : x.first <= p =>
          hw[p].delay = r.dcs[p].delay /\ hw[p].offset = r.dcs[p].offset
    <3>1. PICK d : d = r.dcs
      OBVIOUS
    <3>2. x.state \in BusyState /\ Ahead(x, d) /\ StepLimit < x.steps + 1
      BY <1>8, <1>9, <1>12, <1>18, <3>1
    <3>3. \A p \in DcSlaves : x.first <= p =>
            hw[p].delay = d[p].delay /\ hw[p].offset = d[p].offset
      BY <1>8, <1>15, <3>2, LimitWhenWritten
    <3>. QED  BY <3>1, <3>3
  <2>7. FailsForCause'
    <3>1. task'.error = "Timeout" /\ task'.first = x.first
      BY <1>12, <2>2, <2>4
    <3>2. \A p \in DcSlaves' : task'.first <= p =>
            hw'[p].delay = dcs'[p].delay /\ hw'[p].offset = dcs'[p].offset
      BY <1>1, <1>5, <1>14, <2>6, <3>1
    <3>. QED  BY <3>1, <3>2 DEF FailsForCause
  <2>8. task'.state \notin BusyState
    BY <2>2, <2>4 DEF BusyState
  <2>. QED  BY <1>15, <1>16, <2>5, <2>7, <2>8 DEF DcInv
<1>19. CASE busy /\ ~(StepLimit < u.steps)
  <2>1. task' = u
    BY <1>5, <1>19
  <2>2. x.state \in BusyState /\ Ahead(x, r.dcs)
    BY <1>8, <1>9, <1>19
  <2>3. PICK d : d = dcs'
    OBVIOUS
  <2>4. /\ u.error = "none" /\ AtSlave(x) /\ InTime(x, x.steps + 1) /\ WrittenTo(x, d)
    BY <1>5, <1>12, <2>2, <2>3 DEF Ahead
  <2>5. AtSlave(u)'
    BY <1>12, <1>14, <2>4 DEF AtSlave
  <2>6. InTime(u, u.steps)'
    BY <1>1, <1>12, <1>14, <2>4 DEF InTime
  <2>7. WrittenTo(u, d)'
    BY <1>1, <1>12, <1>14, <2>4 DEF WrittenTo
  <2>8. Own(u, d)'
    <3>1. pdu = PduOf(x, d)
      BY <1>3, <1>5, <1>7, <2>3
    <3>2. PduOf(u, d) = pdu
      BY <1>12, <3>1, PduOfSame
    <3>3. pdu.recv_flag = FALSE
      BY <2>2, <3>1, PduOfBusy
    <3>4. u.command = pdu.command
      BY <1>10, <1>12, <1>19
    <3>5. PduOf(u, d)' = pdu
      BY <3>2 DEF PduOf
    <3>. QED  BY <1>5, <3>3, <3>4, <3>5 DEF Own
  <2>9. Slaves' # {}
    <3>1. UnderWay(task, dcs)
      BY BusyTask DEF Step
    <3>. QED  BY <1>14, <3>1 DEF UnderWay
  <2>10. UnderWay(u, d)'
    BY <2>4, <2>5, <2>6, <2>7, <2>8, <2>9 DEF UnderWay
  <2>11. IsTask(task)'
    BY <1>13, <1>14, <2>1 DEF IsTask
  <2>12. FailsForCause'
    BY <2>1, <2>4 DEF FailsForCause
  <2>. QED  BY <1>15, <1>16, <2>1, <2>3, <2>10, <2>11, <2>12 DEF DcInv
<1>. QED  BY <1>17, <1>18, <1>19

\* The slaves that act on a PDU for slave pos and register reg, and those that are lost.
Acted(lost, pos, reg) ==
  {p \in Slaves \ lost : Slave(p).acks /\ (pos = None \/ reg = "DcSystemTime" \/ pos = p)}

\* What the slaves in acted hold once value was written to register reg.
HwAfter(h, acted, reg, value) ==
  [p \in Pos |->
     CASE p \in acted /\ reg = "DcSystemTimeOffset" -> [h[p] EXCEPT !.offset = value]
       [] p \in acted /\ reg = "DcSystemTimeTransmissionDelay" -> [h[p] EXCEPT !.delay = value]
       [] OTHER -> h[p]]

\* A write to an offset changes the offsets of those who act, and so do delays.
HwWritten(g, h, acted, reg, value) ==
  \A p \in Pos :
    /\ p \notin acted => g[p] = h[p]
    /\ reg # "DcSystemTimeOffset" => g[p].offset = h[p].offset
    /\ reg # "DcSystemTimeTransmissionDelay" => g[p].delay = h[p].delay
    /\ p \in acted /\ reg = "DcSystemTimeOffset" => g[p].offset = value
    /\ p \in acted /\ reg = "DcSystemTimeTransmissionDelay" => g[p].delay = value

\* The slaves hold what was written, and nothing else changed.
LEMMA HwWrites ==
  ASSUME NEW g, NEW h, NEW acted, NEW reg, NEW value, IsHw(h),
         g = HwAfter(h, acted, reg, value)
  PROVE  IsHw(g) /\ HwWritten(g, h, acted, reg, value)
<1>1. ASSUME NEW p \in Pos
      PROVE  /\ g[p] = [offset |-> g[p].offset, delay |-> g[p].delay]
             /\ p \notin acted => g[p] = h[p]
             /\ reg # "DcSystemTimeOffset" => g[p].offset = h[p].offset
             /\ reg # "DcSystemTimeTransmissionDelay" => g[p].delay = h[p].delay
             /\ p \in acted /\ reg = "DcSystemTimeOffset" => g[p].offset = value
             /\ p \in acted /\ reg = "DcSystemTimeTransmissionDelay" => g[p].delay = value
  <2>1. PICK x, y : x = h[p] /\ y = g[p]
    OBVIOUS
  <2>2. x = [offset |-> x.offset, delay |-> x.delay]
    BY <2>1 DEF IsHw
  <2>3. y = CASE p \in acted /\ reg = "DcSystemTimeOffset" -> [x EXCEPT !.offset = value]
              [] p \in acted /\ reg = "DcSystemTimeTransmissionDelay" -> [x EXCEPT !.delay = value]
              [] OTHER -> x
    BY <2>1, Zenon DEF HwAfter
  <2>4. CASE p \in acted /\ reg = "DcSystemTimeOffset"
    <3>1. y = [x EXCEPT !.offset = value]
      BY <2>3, <2>4, Zenon
    <3>2. y = [offset |-> value, delay |-> x.delay]
      BY <2>2, <3>1, SMT
    <3>3. y.offset = value /\ y.delay = x.delay
      BY <3>2
    <3>. QED  BY <2>1, <2>4, <3>2, <3>3
  <2>5. CASE p \in acted /\ reg = "DcSystemTimeTransmissionDelay"
    <3>1. y = [x EXCEPT !.delay = value]
      BY <2>3, <2>5, Zenon
    <3>2. y = [offset |-> x.offset, delay |-> value]
      BY <2>2, <3>1, SMT
    <3>3. y.offset = x.offset /\ y.delay = value
      BY <3>2
    <3>. QED  BY <2>1, <2>5, <3>2, <3>3
  <2>6. CASE ~(p \in acted /\ reg = "DcSystemTimeOffset")
             /\ ~(p \in acted /\ reg = "DcSystemTimeTransmissionDelay")
    <3>1. y = x
      BY <2>3, <2>6, Zenon
    <3>. QED  BY <2>1, <2>2, <2>6, <3>1
  <2>. QED  BY <2>4, <2>5, <2>6
<1>2. g = [p \in Pos |-> g[p]]
  BY DEF HwAfter
<1>. QED  BY <1>1, <1>2 DEF IsHw, HwWritten

\* Of the slaves at one position at most that one acts; if none was lost and all have
\* a clock then the working counter is the expected one.
LEMMA ActedCount ==
  ASSUME NEW t, NEW d, NEW q, NEW lost, NEW acted, NEW reg, bus \in Buses, AtSlave(t),
         t.state \in BusyState, Table(t, d, q), reg = q.command[2],
         acted = Acted(lost, q.pos, reg)
  PROVE  /\ acted \subseteq Slaves
         /\ t.state \in {"SetOffset", "SetDelay"} =>
              acted \subseteq {t.pos} /\ (Cardinality(acted) = 1 => t.pos \in acted)
         /\ lost = {} /\ DcSlaves = Slaves => Cardinality(acted) = ExpectedWkc(t)
<1>1. /\ Len(bus) \in Nat /\ Slaves \subseteq Nat /\ DcSlaves \subseteq Slaves
      /\ \A p \in DcSlaves : Slave(p).acks
  BY Network
<1>2. acted \subseteq Slaves
  BY DEF Acted
<1>3. \A p \in Slaves : p # None
  BY <1>1, SMT DEF None
<1>4. ASSUME t.state \in {"CalculateDelay", "SetOffset", "SetDelay"}
      PROVE  /\ t.pos \in Slaves /\ q.pos = t.pos /\ reg # "DcSystemTime"
             /\ acted \subseteq {t.pos}
  <2>1. t.pos \in Slaves
    BY <1>1, <1>4 DEF AtSlave
  <2>2. q.pos = t.pos /\ reg # "DcSystemTime"
    BY <1>4 DEF Table
  <2>. QED  BY <1>3, <2>1, <2>2 DEF Acted
<1>5. ASSUME t.state \in {"SetOffset", "SetDelay"}, Cardinality(acted) = 1
      PROVE  t.pos \in acted
  <2>1. acted # {}
    BY <1>5, FS_EmptySet, SMT
  <2>. QED  BY <1>4, <1>5, <2>1
<1>6. ASSUME lost = {}, DcSlaves = Slaves
      PROVE  Cardinality(acted) = ExpectedWkc(t)
  <2>1. acted = {p \in Slaves : q.pos = None \/ reg = "DcSystemTime" \/ q.pos = p}
    BY <1>1, <1>6 DEF Acted
  <2>2. CASE t.state \in {"ClearOffset", "ClearDelay", "RequestToLatch"}
    <3>1. acted = Slaves
      BY <2>1, <2>2 DEF Table
    <3>2. Cardinality(Slaves) = Len(bus)
      <4>1. PICK n \in Int : n = Len(bus) - 1
        BY <1>1, SMT
      <4>2. Cardinality(0 .. n) = IF 0 > n THEN 0 ELSE n - 0 + 1
        BY FS_Interval
      <4>3. (IF 0 > n THEN 0 ELSE n - 0 + 1) = Len(bus)
        BY <1>1, <4>1, SMT
      <4>. QED  BY <4>1, <4>2, <4>3 DEF Slaves
    <3>3. ExpectedWkc(t) = Len(bus)
      BY <2>2, Zenon DEF ExpectedWkc
    <3>. QED  BY <3>1, <3>2, <3>3
  <2>3. CASE t.state \in {"CalculateDelay", "SetOffset", "SetDelay"}
    <3>1. acted = {t.pos}
      BY <1>4, <2>1, <2>3
    <3>2. Cardinality(acted) = 1
      BY <3>1, FS_Singleton
    <3>3. ExpectedWkc(t) = 1
      BY <2>3, Zenon DEF ExpectedWkc
    <3>. QED  BY <3>2, <3>3
  <2>4. CASE t.state \in {"CompensateDrift", "CheckDelta"}
    <3>1. acted = Slaves
      BY <2>1, <2>4 DEF Table
    <3>2. ExpectedWkc(t) = Cardinality(DcSlaves)
      BY <2>4, Zenon DEF ExpectedWkc
    <3>. QED  BY <1>6, <3>1, <3>2
  <2>. QED  BY <2>2, <2>3, <2>4 DEF BusyState, TaskState
<1>. QED  BY <1>2, <1>4, <1>5, <1>6

\* A PDU that has come back with its working counter.
Answered(q, wkc, answer, bits, r) ==
  r = [q EXCEPT !.recv_flag = TRUE, !.wkc = wkc, !.answer = answer, !.bits = bits]

Back(q, wkc, r) ==
  /\ IsPdu(r) /\ r.recv_flag = TRUE /\ r.wkc = wkc
  /\ r.command = q.command /\ r.pos = q.pos /\ r.value = q.value

\* A PDU that is answered keeps its command, its slave and its value.
LEMMA AnsweredPdu ==
  ASSUME NEW q, NEW wkc, NEW answer, NEW bits, NEW r, IsPdu(q), Answered(q, wkc, answer, bits, r)
  PROVE  Back(q, wkc, r)
<1>1. PICK z, u, v, w : /\ z = TRUE /\ u = [q EXCEPT !.recv_flag = z] /\ v = [u EXCEPT !.wkc = wkc]
                        /\ w = [v EXCEPT !.answer = answer]
  OBVIOUS
<1>2. r = [w EXCEPT !.bits = bits]
  BY <1>1 DEF Answered
<1>3. u = [q EXCEPT !.recv_flag = z]
  BY <1>1
<1>4. v = [u EXCEPT !.wkc = wkc]
  BY <1>1
<1>5. w = [v EXCEPT !.answer = answer]
  BY <1>1
<1>6. q = [command |-> q.command, pos |-> q.pos, value |-> q.value, recv_flag |-> q.recv_flag,
           wkc |-> q.wkc, answer |-> q.answer, bits |-> q.bits]
  BY DEF IsPdu
<1>7. u = [command |-> q.command, pos |-> q.pos, value |-> q.value, recv_flag |-> z,
           wkc |-> q.wkc, answer |-> q.answer, bits |-> q.bits]
  BY <1>3, <1>6, SMT
<1>8. v = [command |-> q.command, pos |-> q.pos, value |-> q.value, recv_flag |-> z,
           wkc |-> wkc, answer |-> q.answer, bits |-> q.bits]
  BY <1>4, <1>7, SMT
<1>9. w = [command |-> q.command, pos |-> q.pos, value |-> q.value, recv_flag |-> z,
           wkc |-> wkc, answer |-> answer, bits |-> q.bits]
  BY <1>5, <1>8, SMT
<1>10. r = [command |-> q.command, pos |-> q.pos, value |-> q.value, recv_flag |-> z,
            wkc |-> wkc, answer |-> answer, bits |-> bits]
  BY <1>2, <1>9, SMT
<1>11. /\ r.command = q.command /\ r.pos = q.pos /\ r.value = q.value /\ r.recv_flag = z
       /\ r.wkc = wkc /\ r.answer = answer /\ r.bits = bits
  BY <1>10
<1>12. IsPdu(r)
  BY <1>1, <1>10, <1>11 DEF IsPdu
<1>. QED  BY <1>1, <1>11, <1>12 DEF Back

\* A frame of the task: what was written stays written, and the slave it is at takes its value.
LEMMA OwnExchange ==
  ASSUME NEW t, NEW d, NEW lost, NEW acted, NEW g, NEW r,
         bus \in Buses, bus' = bus, t.state \in BusyState, UnderWay(t, d), Own(t, d), IsHw(hw),
         acted = Acted(lost, socket.pos, socket.command[2]),
         missed' = (missed \/ lost # {}),
         IsHw(g), HwWritten(g, hw, acted, socket.command[2], socket.value), hw' = g,
         socket' = r, r.recv_flag = TRUE, r.wkc = Cardinality(acted),
         r.command = socket.command, r.pos = socket.pos, r.value = socket.value
  PROVE  WrittenTo(t, d)' /\ Own(t, d)'
<1>1. AtSlave(t) /\ WrittenTo(t, d)
  BY DEF UnderWay
<1>2. PICK q : q = PduOf(t, d)
  OBVIOUS
<1>3. socket.command = q.command /\ socket.pos = q.pos /\ socket.value = q.value
      /\ socket.command = t.command
  BY <1>2 DEF Own
<1>4. Table(t, d, q)
  BY <1>2, PduOfBusy
<1>5. PICK reg, value : reg = q.command[2] /\ value = q.value
  OBVIOUS
<1>6. acted = Acted(lost, q.pos, reg) /\ HwWritten(g, hw, acted, reg, value)
  BY <1>3, <1>5
<1>7. /\ acted \subseteq Slaves
      /\ t.state \in {"SetOffset", "SetDelay"} =>
           acted \subseteq {t.pos} /\ (Cardinality(acted) = 1 => t.pos \in acted)
      /\ lost = {} /\ DcSlaves = Slaves => Cardinality(acted) = ExpectedWkc(t)
  BY <1>1, <1>4, <1>5, <1>6, ActedCount, ZenonT(60)
<1>8. DcSlaves \subseteq Pos /\ DcSlaves \subseteq Nat /\ Slaves \subseteq Pos
  BY Network
<1>9. Slaves' = Slaves /\ DcSlaves' = DcSlaves
  BY SameNetwork
<1>10. \A p \in DcSlaves : t.state \in {"SetOffset", "SetDelay"} /\ p < t.pos => g[p] = hw[p]
  <2>1. TAKE p \in DcSlaves
  <2>2. HAVE t.state \in {"SetOffset", "SetDelay"} /\ p < t.pos
  <2>3. t.pos \in Nat /\ p \in Nat
    BY <1>1, <1>8, <2>2 DEF AtSlave
  <2>4. p # t.pos
    BY <2>2, <2>3, SMT
  <2>. QED  BY <1>6, <1>7, <1>8, <2>2, <2>4 DEF HwWritten
<1>11. /\ t.state \in {"SetDelay", "CompensateDrift", "CheckDelta"} =>
            \A p \in DcSlaves : g[p].offset = hw[p].offset
       /\ t.state \in {"CompensateDrift", "CheckDelta"} =>
            \A p \in DcSlaves : g[p].delay = hw[p].delay
  <2>1. /\ t.state \in {"SetDelay", "CompensateDrift", "CheckDelta"} => reg # "DcSystemTimeOffset"
        /\ t.state \in {"CompensateDrift", "CheckDelta"} => reg # "DcSystemTimeTransmissionDelay"
    BY <1>4, <1>5 DEF Table
  <2>. QED  BY <1>6, <1>8, <2>1 DEF HwWritten
<1>12. WrittenTo(t, d)'
  <2>1. t.state = "SetOffset" =>
          \A p \in DcSlaves : t.first <= p /\ p < t.pos => g[p].offset = d[p].offset
    BY <1>1, <1>10 DEF WrittenTo
  <2>2. t.state \in {"SetDelay", "CompensateDrift", "CheckDelta"} =>
          \A p \in DcSlaves : t.first <= p => g[p].offset = d[p].offset
    BY <1>1, <1>11 DEF WrittenTo
  <2>3. t.state = "SetDelay" =>
          \A p \in DcSlaves : t.first <= p /\ p < t.pos => g[p].delay = d[p].delay
    BY <1>1, <1>10 DEF WrittenTo
  <2>4. t.state \in {"CompensateDrift", "CheckDelta"} =>
          \A p \in DcSlaves : t.first <= p => g[p].delay = d[p].delay
    BY <1>1, <1>11 DEF WrittenTo
  <2>. QED  BY <1>9, <2>1, <2>2, <2>3, <2>4 DEF WrittenTo
<1>13. Executed(t, d)'
  <2>1. ASSUME t.state = "SetOffset", r.wkc = 1
        PROVE  g[t.pos].offset = d[t.pos].offset
    <3>1. t.pos \in acted /\ t.pos \in Pos
      BY <1>7, <1>8, <2>1
    <3>2. reg = "DcSystemTimeOffset" /\ value = d[t.pos].offset
      BY <1>4, <1>5, <2>1 DEF Table
    <3>. QED  BY <1>6, <3>1, <3>2 DEF HwWritten
  <2>2. ASSUME t.state = "SetDelay", r.wkc = 1
        PROVE  g[t.pos].delay = d[t.pos].delay
    <3>1. t.pos \in acted /\ t.pos \in Pos
      BY <1>7, <1>8, <2>2
    <3>2. reg = "DcSystemTimeTransmissionDelay" /\ value = d[t.pos].delay
      BY <1>4, <1>5, <2>2 DEF Table
    <3>. QED  BY <1>6, <3>1, <3>2 DEF HwWritten
  <2>3. ExpectedWkc(t)' = ExpectedWkc(t)
    BY <1>9, Zenon DEF ExpectedWkc
  <2>4. missed' \/ DcSlaves' # Slaves' \/ r.wkc = ExpectedWkc(t)'
    BY <1>7, <1>9, <2>3
  <2>. QED  BY <2>1, <2>2, <2>4 DEF Executed
<1>14. PduOf(t, d)' = q
  BY <1>2 DEF PduOf
<1>15. Own(t, d)'
  BY <1>3, <1>13, <1>14 DEF Own
<1>. QED  BY <1>12, <1>15

\* The frame goes round.
LEMMA ExchangeKeeps ==
  ASSUME DcInv, Exchange
  PROVE  DcInv'
<1>1. bus' = bus /\ task' = task /\ dcs' = dcs /\ stale' = stale /\ socket # NoPdu
  BY DEF Exchange
<1>2. task.state \in BusyState /\ UnderWay(task, dcs)
  BY BusyTask, SMTT(30) DEF Exchange
<1>3. PICK lost :
        /\ missed' = (missed \/ lost # {})
        /\ \E a, b : Answered(socket, Cardinality(Acted(lost, socket.pos, socket.command[2])),
                              a, b, socket')
        /\ hw' = HwAfter(hw, Acted(lost, socket.pos, socket.command[2]), socket.command[2],
                         socket.value)
  <2>1. PICK lost \in {{}} \cup {{p} : p \in Slaves} :
          LET reg == socket.command[2]
              acted == {p \in Slaves \ lost : /\ Slave(p).acks
                                              /\ (socket.pos = None \/ reg = "DcSystemTime"
                                                   \/ socket.pos = p)}
          IN /\ missed' = (missed \/ lost # {})
             /\ socket' = [socket EXCEPT !.recv_flag = TRUE, !.wkc = Cardinality(acted),
                             !.answer = IF socket.pos \in acted THEN latched[socket.pos] ELSE @,
                             !.bits = IF reg = "DcSystemTimeDelta"
                                      THEN UNION {delta[p] : p \in acted} ELSE {}]
             /\ hw' = [p \in Pos |->
                         CASE p \in acted /\ reg = "DcSystemTimeOffset" ->
                                [hw[p] EXCEPT !.offset = socket.value]
                           [] p \in acted /\ reg = "DcSystemTimeTransmissionDelay" ->
                                [hw[p] EXCEPT !.delay = socket.value]
                           [] OTHER -> hw[p]]
    BY Zenon DEF Exchange
  <2>2. hw' = HwAfter(hw, Acted(lost, socket.pos, socket.command[2]), socket.command[2],
                      socket.value)
    BY <2>1, Zenon DEF Acted, HwAfter
  <2>3. PICK acted : acted = Acted(lost, socket.pos, socket.command[2])
    OBVIOUS
  <2>4. \E a, b : Answered(socket, Cardinality(acted), a, b, socket')
    BY <2>1, <2>3, Zenon DEF Acted, Answered
  <2>. QED  BY <2>1, <2>2, <2>3, <2>4
<1>4. PICK acted, a, b :
        /\ acted = Acted(lost, socket.pos, socket.command[2])
        /\ Answered(socket, Cardinality(acted), a, b, socket')
  BY <1>3
<1>5. PICK t, d, g, r : t = task /\ d = dcs /\ g = hw' /\ r = socket'
  OBVIOUS
<1>6. bus \in Buses /\ IsPdu(socket) /\ IsHw(hw) /\ IsTask(task)
  BY DEF DcInv
<1>7. /\ IsPdu(r) /\ r.recv_flag = TRUE /\ r.wkc = Cardinality(acted)
      /\ r.command = socket.command /\ r.pos = socket.pos /\ r.value = socket.value
  <2>1. PICK q, n : q = socket /\ n = Cardinality(acted)
    OBVIOUS
  <2>2. IsPdu(q) /\ Answered(q, n, a, b, r)
    BY <1>4, <1>5, <1>6, <2>1
  <2>3. Back(q, n, r)
    BY <2>2, AnsweredPdu
  <2>. QED  BY <2>1, <2>3 DEF Back
<1>8. IsHw(g) /\ HwWritten(g, hw, acted, socket.command[2], socket.value)
  BY <1>3, <1>4, <1>5, <1>6, HwWrites
<1>9. Slaves' = Slaves /\ DcSlaves' = DcSlaves /\ Round' = Round
  BY <1>1, SameNetwork
<1>10. /\ t.error = "none" /\ Slaves # {} /\ AtSlave(t) /\ InTime(t, t.steps)
       /\ Fresh(t) \/ Own(t, d)
  BY <1>2, <1>5 DEF UnderWay
<1>11. AtSlave(t)' /\ InTime(t, t.steps)'
  BY <1>1, <1>9, <1>10 DEF AtSlave, InTime
<1>12. ASSUME Fresh(t)  PROVE UnderWay(t, d)'
  <2>1. t.state = "ClearOffset" /\ stale
    BY <1>1, <1>12 DEF Fresh
  <2>2. WrittenTo(t, d)'
    BY <2>1 DEF WrittenTo
  <2>3. Fresh(t)'
    BY <1>1, <1>12, <2>1 DEF Fresh
  <2>. QED  BY <1>9, <1>10, <1>11, <2>2, <2>3 DEF UnderWay
<1>13. ASSUME Own(t, d)  PROVE UnderWay(t, d)'
  <2>1. WrittenTo(t, d)' /\ Own(t, d)'
    BY <1>1, <1>2, <1>3, <1>4, <1>5, <1>6, <1>7, <1>8, <1>13, OwnExchange
  <2>. QED  BY <1>9, <1>10, <1>11, <2>1 DEF UnderWay
<1>14. UnderWay(t, d)'
  BY <1>10, <1>12, <1>13
<1>15. IsTask(task)' /\ IsPdu(socket)' /\ IsHw(hw)' /\ bus' \in Buses
  BY <1>1, <1>5, <1>6, <1>7, <1>8, <1>9 DEF IsTask, IsPdu, IsHw
<1>16. FailsForCause'
  BY <1>1, <1>5, <1>10 DEF FailsForCause
<1>. QED  BY <1>1, <1>5, <1>14, <1>15, <1>16 DEF DcInv

----------------------------------------------------------------------------
(* The theorem. *)

\* Before the first call nothing is under way.
LEMMA InitHolds == Init => DcInv
<1>1. SUFFICES ASSUME Init  PROVE DcInv
  OBVIOUS
<1>2. bus \in Buses /\ task = NewDcInit /\ hw = [p \in Pos |-> [offset |-> 0, delay |-> 0]]
  BY <1>1 DEF Init
<1>3. IsTask(task)
  BY <1>2, SMT DEF IsTask, NewDcInit, TaskState
<1>4. IsPdu(socket)
  <2>1. PICK a, c : a = [r \in Port |-> 0] /\ c = DefaultCommand
    OBVIOUS
  <2>2. NoPdu = [command |-> <<"none", "none">>, pos |-> None, value |-> 0, recv_flag |-> FALSE,
                 wkc |-> 0, answer |-> a, bits |-> {}]
    BY <2>1 DEF NoPdu
  <2>3. CASE socket = NoPdu
    BY <2>3, <2>2 DEF IsPdu
  <2>4. CASE socket # NoPdu
    <3>1. socket = [NoPdu EXCEPT !.command = c, !.pos = 0, !.recv_flag = TRUE, !.wkc = 1]
      BY <1>1, <2>1, <2>4 DEF Init
    <3>2. PICK n, u, v, w, x, z, b, f :
            /\ n = NoPdu /\ u = [n EXCEPT !.command = c] /\ v = [u EXCEPT !.pos = 0] /\ z = TRUE
            /\ w = [v EXCEPT !.recv_flag = z] /\ x = [w EXCEPT !.wkc = 1] /\ b = {} /\ f = FALSE
      OBVIOUS
    <3>3. socket = x
      BY <3>1, <3>2
    <3>4. PICK e, y : e = <<"none", "none">> /\ y = None
      OBVIOUS
    <3>5. n = [command |-> e, pos |-> y, value |-> 0, recv_flag |-> f, wkc |-> 0, answer |-> a,
               bits |-> b]
      BY <2>2, <3>2, <3>4
    <3>6. u = [command |-> c, pos |-> y, value |-> 0, recv_flag |-> f, wkc |-> 0, answer |-> a,
               bits |-> b]
      <4>1. u = [n EXCEPT !.command = c]
        BY <3>2
      <4>. QED  BY <3>5, <4>1, SMT
    <3>7. v = [command |-> c, pos |-> 0, value |-> 0, recv_flag |-> f, wkc |-> 0, answer |-> a,
               bits |-> b]
      <4>1. v = [u EXCEPT !.pos = 0]
        BY <3>2
      <4>. QED  BY <3>6, <4>1, SMT
    <3>8. w = [command |-> c, pos |-> 0, value |-> 0, recv_flag |-> z, wkc |-> 0, answer |-> a,
               bits |-> b]
      <4>1. w = [v EXCEPT !.recv_flag = z]
        BY <3>2
      <4>. QED  BY <3>7, <4>1, SMT
    <3>9. x = [command |-> c, pos |-> 0, value |-> 0, recv_flag |-> z, wkc |-> 1, answer |-> a,
               bits |-> b]
      <4>1. x = [w EXCEPT !.wkc = 1]
        BY <3>2
      <4>. QED  BY <3>8, <4>1, SMT
    <3>10. /\ x.command = c /\ x.pos = 0 /\ x.value = 0 /\ x.recv_flag = z /\ x.wkc = 1
           /\ x.answer = a /\ x.bits = b
      BY <3>9
    <3>11. z \in BOOLEAN
      BY <3>2
    <3>. QED  BY <3>3, <3>9, <3>10, <3>11 DEF IsPdu
  <2>. QED  BY <2>3, <2>4
<1>5. IsHw(hw)
  BY <1>2 DEF IsHw
<1>6. task.state \notin BusyState /\ FailsForCause
  BY <1>2 DEF NewDcInit, BusyState, FailsForCause
<1>. QED  BY <1>2, <1>3, <1>4, <1>5, <1>6 DEF DcInv

\* Every step keeps the invariant.
LEMMA NextKeeps == DcInv /\ [Next]_vars => DcInv'
<1>1. SUFFICES ASSUME DcInv, [Next]_vars  PROVE DcInv'
  OBVIOUS
<1>2. CASE Start
  BY <1>1, <1>2, StartKeeps
<1>3. CASE Step
  BY <1>1, <1>3, StepKeeps
<1>4. CASE GiveUp
  BY <1>1, <1>4, GiveUpKeeps
<1>5. CASE Exchange
  BY <1>1, <1>5, ExchangeKeeps
<1>6. CASE UNCHANGED vars
  <2>1. /\ bus' = bus /\ task' = task /\ dcs' = dcs /\ socket' = socket /\ hw' = hw
        /\ missed' = missed /\ stale' = stale
    BY <1>6 DEF vars, deviceVars
  <2>2. Slaves' = Slaves /\ DcSlaves' = DcSlaves /\ Round' = Round
    BY <2>1, SameNetwork
  <2>3. IsTask(task)' /\ IsPdu(socket)' /\ IsHw(hw)' /\ bus' \in Buses /\ FailsForCause'
    BY <1>1, <2>1, <2>2 DEF DcInv, IsTask, IsPdu, IsHw, FailsForCause
  <2>4. ASSUME task'.state \in BusyState
        PROVE  \E t \in {task'}, d \in {dcs'} : UnderWay(t, d)'
    <3>1. PICK t, d : t = task /\ d = dcs /\ UnderWay(t, d)
      BY <1>1, <2>1, <2>4 DEF DcInv
    <3>2. AtSlave(t)' /\ InTime(t, t.steps)' /\ WrittenTo(t, d)' /\ (Fresh(t) => Fresh(t)')
      BY <2>1, <2>2, <3>1 DEF UnderWay, AtSlave, InTime, WrittenTo, Fresh
    <3>3. ExpectedWkc(t)' = ExpectedWkc(t)
      BY <2>1, <2>2, Zenon DEF ExpectedWkc
    <3>4. Executed(t, d) => Executed(t, d)'
      BY <2>1, <2>2, <3>3 DEF Executed
    <3>5. PduOf(t, d)' = PduOf(t, d)
      BY DEF PduOf
    <3>6. Own(t, d) => Own(t, d)'
      BY <2>1, <3>4, <3>5 DEF Own
    <3>. QED  BY <2>1, <2>2, <3>1, <3>2, <3>6 DEF UnderWay
  <2>. QED  BY <2>3, <2>4 DEF DcInv
<1>. QED  BY <1>1, <1>2, <1>3, <1>4, <1>5, <1>6 DEF Next

\* init_dc fails only for a cause, whatever the network, the wires and the clocks, however many
\* calls and faults there are: a wrong working counter needs a PDU that a slave missed, one
\* that an earlier call left, or slaves without clocks among those with one; a wrong command
\* needs a PDU that an earlier call left; and when block_on gives up at its limit every slave
\* with a clock, from the first one on, holds the offset and the delay that were measured.
THEOREM FailsAlwaysForCause == Spec => []FailsForCause
<1>1. DcInv => FailsForCause
  BY DEF DcInv
<1>. QED  BY InitHolds, NextKeeps, <1>1, PTL DEF Spec

============================================================================

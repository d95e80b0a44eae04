-------------------------- MODULE MasterCycleProofs --------------------------
(***************************************************************************)
(* For every number of slaves, all states that are asked for, any number   *)
(* of calls and faults and every program of the application: what a call   *)
(* that returns Ok, and a transfer that completes in the cycle, tell of    *)
(* the slaves.                                                             *)
(***************************************************************************)
EXTENDS MasterCycle, FiniteSetTheorems, TLAPS

Register == {"AlStatus", "AlControl", "SiiAccess", "DlInformation", "Reg", "RxErrorCounter",
             "DcSystemTime"}

Command == [op : {"read", "write", "readwrite"}, all : BOOLEAN, reg : Register]

\* A socket holds whatever was read, so that its values have no type.
IsSocket(q) ==
  /\ q = [stage |-> q.stage, command |-> q.command, slaves |-> q.slaves, value |-> q.value,
          ack |-> q.ack, wkc |-> q.wkc, bits |-> q.bits, change_err |-> q.change_err]
  /\ q.stage \in {"idle", "queued", "sent", "answered"}
  /\ q.command \in Command
  /\ q.slaves \in SUBSET Slave
  /\ q.ack \in BOOLEAN
  /\ q.change_err \in BOOLEAN

TransferTask ==
  [state : Transfer!TransferState, to : TargetSlave, target : Transfer!AlState,
   reset : Transfer!AlState, current : Transfer!AlState \cup {"InvalidOrMixed"},
   timeout : {0, Timeout}, command : Command \cup {Transfer!Nop}]

IsCall(c) ==
  /\ c = [kind |-> c.kind, to |-> c.to, reg |-> c.reg, value |-> c.value, state |-> c.state,
          command |-> c.command, al |-> c.al, met |-> c.met, stale |-> c.stale, done |-> c.done]
  /\ c.to \in TargetSlave
  /\ c.al \in TransferTask
  /\ c.met \in BOOLEAN /\ c.done \in BOOLEAN
  /\ c.kind \in {"read_register", "write_register"} => c.reg \in {"Reg", "DlInformation"}

\* A slave is not asked for the state it is in.
IsDevice(d) ==
  /\ d = [al |-> d.al, err |-> d.err, request |-> d.request, reg |-> d.reg, out |-> d.out]
  /\ d.al \in Transfer!AlState
  /\ d.err \in BOOLEAN
  /\ d.request \in (Transfer!AlState \cup {"none"}) \ {d.al}

SocketsOk ==
  /\ sockets = [h \in Handle |-> sockets[h]]
  /\ IsSocket(sockets["gp"]) /\ IsSocket(sockets["tf"])

DevicesOk == dev = [s \in Slave |-> dev[s]] /\ \A s \in Slave : IsDevice(dev[s])

\* The stage of a socket follows that of the round.
InStep(q) ==
  /\ phase = "idle" => q.stage # "sent"
  /\ phase = "sent" => q.stage # "queued"
  /\ phase = "arrived" => q.stage \notin {"queued", "sent"}

CycleTypes ==
  /\ phase \in {"idle", "sent", "arrived"}
  /\ SocketsOk
  /\ InStep(sockets["gp"]) /\ InStep(sockets["tf"])
  /\ tf \in TransferTask
  /\ IsCall(call)
  /\ DevicesOk
  /\ disturbed \in BOOLEAN

\* The PDU of transfer t is in its socket q, and its answer is compared with it.
Carries(q, t) ==
  /\ t.command = Transfer!CommandOf(t)
  /\ q.command = t.command
  /\ q.slaves = t.to.slaves
  /\ q.stage \in {"queued", "sent"} =>
       /\ q.value = IF t.state = "Request" THEN t.target ELSE t.reset
       /\ q.ack = (t.state = "ResetError")
  /\ q.stage # "idle"

\* The transfer of the cycle has its socket for itself.
TransferOwn ==
  /\ tf.to = All
  /\ ~Transferring(tf) => sockets["tf"] = EmptySocket
  /\ Transferring(tf) =>
       \/ tf.state = "Read" /\ tf.command = DefaultCommand /\ sockets["tf"] = EmptySocket
       \/ Carries(sockets["tf"], tf)

\* The answer has come, from every slave.
Counted(q) == q.stage = "answered" /\ q.wkc = Cardinality(q.slaves)

\* A task that has sent nothing finds nothing that it takes for its answer.
Leftover(q, command) ==
  command = DefaultCommand /\ (q.stage = "idle" \/ q.command # DefaultCommand)

RegisterCommand ==
  Cmd(IF call.kind = "read_register" THEN "read" ELSE "write", call.to.all, call.reg)

\* What the call is to write, or has read, is in the registers.
InRegister(q) ==
  LET v == IF call.kind = "read_register" THEN q.value ELSE call.value
  IN \A s \in call.to.slaves : v \in {dev[s].reg, "mixed"}

OwnRegister(q) ==
  /\ call.command = RegisterCommand
  /\ q.command = RegisterCommand
  /\ q.slaves = call.to.slaves
  /\ q.stage # "idle"
  /\ q.stage = "answered" => phase = "arrived"
  /\ q.stage \in {"queued", "sent"} => q.value = call.value
  /\ Counted(q) => call.done /\ (call.reg = "Reg" => InRegister(q))

OwnTransfer(q) ==
  /\ Carries(q, call.al)
  /\ q.stage = "answered" => phase = "arrived"
  /\ /\ Counted(q) /\ call.al.state \in {"Read", "Poll"}
     /\ Transfer!AlStateFrom(q.bits) = call.al.target
     => call.done \/ TakenForBootstrap(call.al)

\* What a call finds in its socket is its own PDU or, before it has sent one, a PDU that it
\* does not take for its own.  A call of a register that has returned leaves none.
CallOwn ==
  /\ call.state = "Ok" /\ call.kind \in {"read_register", "write_register"} =>
       sockets["gp"].stage = "idle"
  /\ Calling =>
    /\ call.kind = "read_al_state" => call.stale \/ sockets["gp"].stage = "idle"
    /\ call.kind \in {"read_register", "write_register"} =>
         \/ call.met
         \/ Leftover(sockets["gp"], call.command)
         \/ OwnRegister(sockets["gp"])
    /\ call.kind = "change_al_state" =>
         /\ call.al.to = call.to /\ Transferring(call.al)
         /\ \/ call.met
            \/ Leftover(sockets["gp"], call.al.command)
            \/ OwnTransfer(sockets["gp"])

\* Nothing but the transfer of the cycle is about to write AlControl.
Alone ==
  /\ sockets["gp"].stage \in {"queued", "sent"} => sockets["gp"].command.reg # "AlControl"
  /\ Calling => call.kind # "change_al_state"

----------------------------------------------------------------------------
(* The slaves, while the transfer of the cycle is alone. *)

Settled == \A s \in Slave : dev[s].request = "none"

\* All slaves are to go to Init, which none refuses, and it is the target.
ToInit ==
  tf.target = "Init" /\ \A s \in Slave : dev[s].request \in {"none", "Init"} /\ ~dev[s].err

\* Some slave will not be in the target state before the request for it.
Off == \E s \in Slave : dev[s].al # tf.target /\ dev[s].request # tf.target

\* After the acknowledgement of an error.
Reset == IF tf.reset = tf.target THEN ToInit ELSE Off

Requested == \A s \in Slave : dev[s].request \in {"none", tf.target}

Reached == \A s \in Slave : dev[s].al = tf.target /\ dev[s].request = "none"

\* A read that finds the target state finds it for good; one that finds an error will lead
\* to no other state than the target.
ReadTells(q) ==
  IF Transfer!AlStateFrom(q.bits) = tf.target THEN Reached \/ TakenForBootstrap(tf)
  ELSE tf.state = "Read" /\ q.change_err => Off

OnTheWay(q) ==
  /\ \A s \in Slave : dev[s].err => dev[s].request = "none"
  /\ tf.state = "Read" => Settled \/ ToInit \/ Off
  /\ tf.state = "ResetError" =>
       IF q.stage = "answered" THEN Reset ELSE Off /\ (tf.reset = tf.target => tf.target = "Init")
  /\ tf.state = "OffAck" => Reset
  /\ tf.state = "Request" /\ q.stage = "answered" => Requested
  /\ tf.state = "Poll" => Requested
  /\ tf.state \in {"Read", "Poll"} /\ q.stage = "answered" => ReadTells(q)

\* The answer of the transfer, if there is one, is not an error.
Good(q) == q.stage = "answered" => Counted(q)

TransferHolds ==
  ~disturbed =>
    /\ Alone
    /\ Transferring(tf) /\ Good(sockets["tf"]) => OnTheWay(sockets["tf"])
    /\ tf.state = "Complete" => Reached \/ TakenForBootstrap(tf)

CycleInv ==
  /\ CycleTypes
  /\ TransferOwn
  /\ CallOwn
  /\ TransferHolds
  /\ CallOkIsDone

----------------------------------------------------------------------------
(* States of slaves and what a read tells of them *)

\* The bits of a state tell it from the others, and only Bootstrap has more than one.
LEMMA BitsOfStates ==
  ASSUME NEW a \in Transfer!AlState, NEW b \in Transfer!AlState
  PROVE  /\ Transfer!Bits(a) # {}
         /\ Transfer!Bits(a) = Transfer!Bits(b) => a = b
         /\ Transfer!Bits(b) \subseteq Transfer!Bits(a) => a = b \/ a = "Bootstrap"
  BY DEF Transfer!Bits, Transfer!AlState

LEMMA StateFromBits ==
  ASSUME NEW bits
  PROVE  /\ Transfer!AlStateFrom(bits) \in Transfer!AlState \cup {"InvalidOrMixed"}
         /\ Transfer!AlStateFrom(bits) \in Transfer!AlState =>
              Transfer!Bits(Transfer!AlStateFrom(bits)) = bits
<1>1. CASE \E a \in Transfer!AlState : Transfer!Bits(a) = bits
  <2>1. Transfer!AlStateFrom(bits) = CHOOSE a \in Transfer!AlState : Transfer!Bits(a) = bits
    BY <1>1, Zenon DEF Transfer!AlStateFrom
  <2>2. QED
    BY <1>1, <2>1, Zenon
<1>2. CASE ~ \E a \in Transfer!AlState : Transfer!Bits(a) = bits
  BY <1>2 DEF Transfer!AlStateFrom, Transfer!AlState
<1>3. QED
  BY <1>1, <1>2

LEMMA TargetSlaves ==
  ASSUME NEW to \in TargetSlave
  PROVE  /\ to.slaves \in SUBSET Slave /\ to.all \in BOOLEAN
         /\ IsFiniteSet(to.slaves)
         /\ ~to.all => \E s \in Single : to.slaves = {s}
<1>1. CASE to = All
  BY <1>1, SlaveAssumption DEF All
<1>2. CASE \E s \in Single : to = One(s)
  <2>1. PICK s \in Single : to.all = FALSE /\ to.slaves = {s}
    BY <1>2 DEF One
  <2>2. IsFiniteSet({s}) /\ s \in Slave
    BY SlaveAssumption, FS_Singleton
  <2>3. QED
    BY <2>1, <2>2
<1>3. QED
  BY <1>1, <1>2 DEF TargetSlave

\* A read that returns state a: the slaves are in it.
LEMMA ReadFinds ==
  ASSUME NEW to \in TargetSlave, NEW al, \A s \in to.slaves : al[s] \in Transfer!AlState,
         NEW a \in Transfer!AlState,
         Transfer!AlStateFrom(UNION {Transfer!Bits(al[s]) : s \in to.slaves}) = a
  PROVE  (\A s \in to.slaves : al[s] = a) \/ (to.all /\ a = "Bootstrap")
<1>1. Transfer!Bits(a) = UNION {Transfer!Bits(al[s]) : s \in to.slaves}
  BY StateFromBits
<1>2. CASE to.all
  BY <1>1, <1>2, BitsOfStates
<1>3. CASE ~to.all
  <2>1. PICK s \in Single : to.slaves = {s}
    BY <1>3, TargetSlaves
  <2>2. Transfer!Bits(a) = Transfer!Bits(al[s])
    BY <1>1, <2>1
  <2>3. QED
    BY <2>1, <2>2, BitsOfStates
<1>4. QED
  BY <1>2, <1>3

\* A read that does not return state a: a slave is not in it.
LEMMA ReadMisses ==
  ASSUME NEW to \in TargetSlave, to.slaves # {}, NEW al, NEW a \in Transfer!AlState,
         Transfer!AlStateFrom(UNION {Transfer!Bits(al[s]) : s \in to.slaves}) # a
  PROVE  \E s \in to.slaves : al[s] # a
<1>1. SUFFICES ASSUME \A s \in to.slaves : al[s] = a PROVE FALSE
  OBVIOUS
<1> DEFINE U == UNION {Transfer!Bits(al[s]) : s \in to.slaves}
<1>2. U = Transfer!Bits(a)
  BY <1>1
<1>3. Transfer!AlStateFrom(U) \in Transfer!AlState
  <2>1. \E b \in Transfer!AlState : Transfer!Bits(b) = U
    BY <1>2
  <2>2. Transfer!AlStateFrom(U) = CHOOSE b \in Transfer!AlState : Transfer!Bits(b) = U
    BY <2>1, Zenon DEF Transfer!AlStateFrom
  <2>3. QED
    BY <2>1, <2>2, Zenon
<1>4. Transfer!Bits(Transfer!AlStateFrom(U)) = Transfer!Bits(a)
  BY <1>2, <1>3, StateFromBits
<1>5. QED
  BY <1>3, <1>4, BitsOfStates

----------------------------------------------------------------------------
(* Transfers *)

LEMMA TaskFields ==
  ASSUME NEW t \in TransferTask
  PROVE  /\ t.state \in Transfer!TransferState /\ t.to \in TargetSlave
         /\ t.target \in Transfer!AlState /\ t.reset \in Transfer!AlState
         /\ Transferring(t) => t.state \in {"Read", "ResetError", "OffAck", "ResetSiiOwnership",
                                            "Request", "Poll"}
  BY DEF TransferTask, Transferring, Transfer!TransferState

LEMMA NewTransferType ==
  ASSUME NEW to \in TargetSlave, NEW a \in Transfer!AlState
  PROVE  LET t == NewTransfer(to, a) IN
         /\ Transfer!NewTask(to) \in TransferTask
         /\ t \in TransferTask /\ t.state = "Read" /\ t.to = to /\ t.target = a
         /\ t.command = DefaultCommand /\ DefaultCommand \in Command
  BY DEF NewTransfer, Transfer!NewTask, TransferTask, Transfer!TransferState, Transfer!AlState,
     DefaultCommand, Cmd, Command, Register

\* The ways in which answer q changes transfer t into u.
Outcome(q, t, u) ==
  LET a == Transfer!AlStateFrom(q.bits) IN
  \/ u.state \in {"Error", "panic"}
  \/ /\ q.command = t.command /\ q.wkc_ok
     /\ \/ u.state = "Complete" /\ t.state \in {"Read", "Poll"} /\ a = t.target
        \/ /\ u.state = "ResetError" /\ t.state = "Read" /\ a # t.target /\ q.change_err
           /\ u.reset = IF a = "InvalidOrMixed" THEN "Init" ELSE a
        \/ u.state = "ResetSiiOwnership" /\ t.state = "Read"
        \/ u.state = "Poll" /\ t.state = "Poll"
        \/ u.state = "OffAck" /\ t.state = "ResetError" /\ u.reset = t.reset
        \/ u.state = "Read" /\ t.state = "OffAck"
        \/ u.state = "Request" /\ t.state = "ResetSiiOwnership"
        \/ u.state = "Poll" /\ t.state = "Request"

LEMMA RecievedOutcome ==
  ASSUME NEW q, NEW e, NEW t \in TransferTask, Transferring(t), NEW u \in AL(q, e)!Recieved(t)
  PROVE  u \in TransferTask /\ u.to = t.to /\ u.target = t.target /\ Outcome(q, t, u)
<1> DEFINE a == Transfer!AlStateFrom(q.bits)
           v == [t EXCEPT !.current = a]
<1>1. a \in Transfer!AlState \cup {"InvalidOrMixed"} /\ "Init" \in Transfer!AlState
  BY StateFromBits DEF Transfer!AlState
<1>2. AL(q, e)!AlStateFrom(q.bits) = a
  BY DEF AL!AlStateFrom, Transfer!AlStateFrom, AL!AlState, Transfer!AlState, AL!Bits,
     Transfer!Bits
<1> HIDE DEF a
<1>3. /\ v \in TransferTask /\ v.to = t.to /\ v.target = t.target /\ v.state = t.state
      /\ v.reset = t.reset
  BY <1>1 DEF TransferTask
<1> HIDE DEF v
<1>4. ASSUME NEW w \in TransferTask, w.to = t.to, w.target = t.target,
             NEW st \in Transfer!TransferState, u = [w EXCEPT !.state = st]
      PROVE  u \in TransferTask /\ u.to = t.to /\ u.target = t.target /\ u.state = st
  BY <1>4 DEF TransferTask
<1>5. CASE ~(q.command = t.command /\ q.wkc_ok)
  <2>1. u = [t EXCEPT !.state = "Error"]
    BY <1>5 DEF AL!Recieved, AL!ExpectedPdu, AL!Fail
  <2>2. QED
    BY <1>4, <2>1 DEF Outcome, Transfer!TransferState
<1>6. CASE q.command = t.command /\ q.wkc_ok /\ t.state = "Read"
  <2>1. \/ a = t.target /\ u = [v EXCEPT !.state = "Complete"]
        \/ /\ a # t.target /\ q.change_err
           /\ u = [v EXCEPT !.state = "ResetError",
                            !.reset = IF a = "InvalidOrMixed" THEN "Init" ELSE a]
        \/ u = [v EXCEPT !.state = "ResetSiiOwnership"]
    BY <1>2, <1>6 DEF AL!Recieved, AL!ExpectedPdu, AL!ReadDone, v
  <2>2. CASE a = t.target /\ u = [v EXCEPT !.state = "Complete"]
    BY <1>3, <1>4, <1>6, <2>2 DEF Outcome, Transfer!TransferState, a
  <2>3. CASE /\ a # t.target /\ q.change_err
             /\ u = [v EXCEPT !.state = "ResetError",
                              !.reset = IF a = "InvalidOrMixed" THEN "Init" ELSE a]
    <3>1. /\ u \in TransferTask /\ u.to = t.to /\ u.target = t.target
          /\ u.state = "ResetError" /\ u.reset = IF a = "InvalidOrMixed" THEN "Init" ELSE a
      BY <1>1, <1>3, <2>3 DEF TransferTask, Transfer!TransferState
    <3>2. QED
      BY <1>6, <2>3, <3>1 DEF Outcome, a
  <2>4. CASE u = [v EXCEPT !.state = "ResetSiiOwnership"]
    BY <1>3, <1>4, <1>6, <2>4 DEF Outcome, Transfer!TransferState
  <2>5. QED
    BY <2>1, <2>2, <2>3, <2>4
<1>7. CASE q.command = t.command /\ q.wkc_ok /\ t.state = "Poll"
  <2>1. \/ a = t.target /\ u = [v EXCEPT !.state = "Complete"]
        \/ u \in {[v EXCEPT !.state = "Error"], [v EXCEPT !.state = "panic"], v}
    BY <1>2, <1>7 DEF AL!Recieved, AL!ExpectedPdu, AL!PollDone, AL!Fail, v
  <2>2. CASE a = t.target /\ u = [v EXCEPT !.state = "Complete"]
    BY <1>3, <1>4, <1>7, <2>2 DEF Outcome, Transfer!TransferState, a
  <2>3. CASE u = [v EXCEPT !.state = "Error"] \/ u = [v EXCEPT !.state = "panic"]
    <3>1. PICK st \in {"Error", "panic"} : u = [v EXCEPT !.state = st]
      BY <2>3
    <3>2. st \in Transfer!TransferState
      BY DEF Transfer!TransferState
    <3>3. QED
      BY <1>3, <1>4, <3>1, <3>2 DEF Outcome
  <2>4. CASE u = v
    BY <1>3, <1>7, <2>4 DEF Outcome
  <2>5. QED
    BY <2>1, <2>2, <2>3, <2>4
<1>8. CASE q.command = t.command /\ q.wkc_ok /\ t.state \notin {"Read", "Poll"}
  <2> DEFINE r == IF t.state = "ResetError" THEN t.reset ELSE "Init"
  <2>1. t.state \in {"ResetError", "OffAck", "ResetSiiOwnership", "Request"}
    BY <1>8, TaskFields
  <2>2. u = [t EXCEPT !.state = AL(q, e)!Following(t.state), !.reset = r]
    BY <1>8 DEF AL!Recieved, AL!ExpectedPdu
  <2>3. AL(q, e)!Following(t.state) \in Transfer!TransferState /\ r \in Transfer!AlState
    BY <1>1, <2>1, TaskFields DEF AL!Following, Transfer!TransferState
  <2>4. /\ u \in TransferTask /\ u.to = t.to /\ u.target = t.target
        /\ u.state = AL(q, e)!Following(t.state) /\ u.reset = r
    BY <2>2, <2>3 DEF TransferTask
  <2>5. QED
    BY <1>8, <2>1, <2>4 DEF Outcome, AL!Following
<1>9. QED
  BY <1>5, <1>6, <1>7, <1>8

\* A PDU that is put into a socket.
LEMMA AskType ==
  ASSUME NEW c \in Command, NEW S \in SUBSET Slave, NEW v, NEW ack \in BOOLEAN
  PROVE  LET q == Ask(c, S, v, ack) IN
         /\ IsSocket(q) /\ q.stage = "queued" /\ q.command = c /\ q.slaves = S /\ q.value = v
         /\ q.ack = ack
  BY DEF Ask, IsSocket

LEMMA EmptyType ==
  IsSocket(EmptySocket) /\ EmptySocket.stage = "idle" /\ EmptySocket.command = DefaultCommand
<1>1. DefaultCommand \in Command
  BY DEF DefaultCommand, Cmd, Command, Register
<1>2. {} \in SUBSET Slave /\ FALSE \in BOOLEAN
  OBVIOUS
<1> DEFINE q == Ask(DefaultCommand, {}, "none", FALSE)
<1>3. IsSocket(q) /\ q.command = DefaultCommand
  BY <1>1, <1>2 DEF Ask, IsSocket
<1> HIDE DEF q
<1>4. EmptySocket = [q EXCEPT !.stage = "idle"]
  BY DEF EmptySocket, q
<1>5. QED
  BY <1>3, <1>4 DEF IsSocket

\* What next_pdu makes of a transfer.
LEMMA SendingTask ==
  ASSUME NEW t \in TransferTask
  PROVE  LET w == TransferSending(t)
             q == TransferSocket(t)
         IN /\ w \in TransferTask /\ w.state = t.state /\ w.to = t.to /\ w.target = t.target
            /\ w.reset = t.reset
            /\ IsSocket(q) /\ q.stage \in {"idle", "queued"}
            /\ Transferring(t) => /\ Transferring(w) /\ Carries(q, w) /\ q.stage = "queued"
                                  /\ w.command = Transfer!CommandOf(t)
                                  /\ w.command # DefaultCommand
            /\ ~Transferring(t) => ~Transferring(w) /\ q = EmptySocket /\ w = t
<1>1. CASE ~Transferring(t)
  BY <1>1, EmptyType DEF TransferSending, TransferSocket
<1>2. CASE Transferring(t)
  <2> DEFINE w == Transfer!Sending(t)
             c == Transfer!CommandOf(t)
             p == Transfer!PduOf(t)
             q == Ask(p.command, p.slaves, p.value, p.ack)
  <2>1. TransferSending(t) = w /\ TransferSocket(t) = q
    BY <1>2 DEF TransferSending, TransferSocket
  <2>2. /\ t.state \in {"Read", "ResetError", "OffAck", "ResetSiiOwnership", "Request", "Poll"}
        /\ t.to \in TargetSlave /\ t.target \in Transfer!AlState
        /\ t.to.slaves \in SUBSET Slave /\ t.to.all \in BOOLEAN
    BY <1>2, TaskFields, TargetSlaves
  <2>3. c \in Command /\ c # DefaultCommand
    BY <2>2 DEF Transfer!CommandOf, Command, Register, DefaultCommand, Cmd
  <2>4. Transfer!TimeoutOf(t.current, t.target) \in {0, Timeout}
    BY <2>2 DEF Transfer!TimeoutOf, Transfer!AlState, Timeout
  <2>5. /\ w \in TransferTask /\ w.state = t.state /\ w.to = t.to /\ w.target = t.target
        /\ w.reset = t.reset /\ w.command = c
    BY <2>3, <2>4 DEF Transfer!Sending, TransferTask
  <2>6. /\ p.command = c /\ p.slaves = t.to.slaves /\ p.ack = (t.state = "ResetError")
        /\ p.value = IF t.state = "Request" THEN t.target ELSE t.reset
    BY DEF Transfer!PduOf, Transfer!NoPdu
  <2>7. Transfer!CommandOf(w) = c
    BY <2>5 DEF Transfer!CommandOf
  <2> HIDE DEF w, c, p
  <2> HIDE DEF q
  <2>8. /\ IsSocket(q) /\ q.stage = "queued" /\ q.command = c /\ q.slaves = t.to.slaves
        /\ q.value = p.value /\ q.ack = p.ack
    <3>1. p.command \in Command /\ p.slaves \in SUBSET Slave /\ p.ack \in BOOLEAN
      BY <2>2, <2>3, <2>6
    <3>2. /\ IsSocket(q) /\ q.stage = "queued" /\ q.command = p.command
          /\ q.slaves = p.slaves /\ q.value = p.value /\ q.ack = p.ack
      BY <3>1, AskType DEF q
    <3>3. QED
      BY <2>6, <3>2
  <2>9. Transferring(w) /\ Carries(q, w)
    BY <1>2, <2>5, <2>6, <2>7, <2>8 DEF Transferring, Carries
  <2>10. QED
    BY <1>2, <2>1, <2>3, <2>5, <2>8, <2>9 DEF c
<1>3. QED
  BY <1>1, <1>2

\* A step of a transfer on socket h.
LEMMA TransferredTask ==
  ASSUME NEW t \in TransferTask, NEW h, NEW e, NEW u \in Transferred(t, h, e)
  PROVE  /\ u \in TransferTask /\ u.to = t.to /\ u.target = t.target
         /\ IF Transferring(t) /\ sockets[h].stage = "answered"
            THEN Outcome(Answer(h, t.to), t, u) ELSE u = t
<1>1. CASE Transferring(t) /\ sockets[h].stage = "answered"
  <2>1. u \in AL(Answer(h, t.to), e)!Recieved(t)
    BY <1>1 DEF Transferred
  <2>2. QED
    BY <1>1, <2>1, RecievedOutcome
<1>2. CASE ~(Transferring(t) /\ sockets[h].stage = "answered")
  BY <1>2 DEF Transferred
<1>3. QED
  BY <1>1, <1>2

----------------------------------------------------------------------------
(* PDUs and slaves *)

\* A write to a slave.
LEMMA WroteDevice ==
  ASSUME NEW d, IsDevice(d), NEW q, IsSocket(q)
  PROVE  LET w == Wrote(d, q) IN
         /\ IsDevice(w)
         /\ w.al = d.al
         /\ q.command.reg = "Reg" => w.reg = q.value
         /\ q.command.reg # "Reg" => w.reg = d.reg
         /\ q.command.reg # "AlControl" => w.err = d.err /\ w.request = d.request
         /\ q.command.reg = "AlControl" /\ q.value \in Transfer!AlState =>
              /\ w.err = (d.err /\ ~q.ack)
              /\ w.request = IF d.err /\ ~q.ack THEN d.request
                             ELSE IF q.value = d.al THEN "none" ELSE q.value
<1>1. CASE q.command.reg = "Reg"
  BY <1>1 DEF Wrote, IsDevice
<1>2. CASE q.command.reg = "AlControl" /\ q.value \notin Transfer!AlState
  <2>1. Wrote(d, q) = [d EXCEPT !.err = TRUE]
    BY <1>2 DEF Wrote
  <2>2. QED
    BY <1>2, <2>1 DEF IsDevice
<1>3. CASE q.command.reg = "AlControl" /\ q.value \in Transfer!AlState
  <2> DEFINE e == d.err /\ ~q.ack
             r == IF e THEN d.request ELSE IF q.value = d.al THEN "none" ELSE q.value
  <2>1. Wrote(d, q) = [d EXCEPT !.err = e, !.request = r]
    BY <1>3 DEF Wrote, IsDevice
  <2>2. e \in BOOLEAN /\ r \in (Transfer!AlState \cup {"none"}) \ {d.al}
    BY <1>3 DEF IsDevice, Transfer!AlState
  <2> HIDE DEF e, r
  <2>3. /\ IsDevice(Wrote(d, q)) /\ Wrote(d, q).al = d.al /\ Wrote(d, q).reg = d.reg
        /\ Wrote(d, q).err = e /\ Wrote(d, q).request = r
    BY <2>1, <2>2 DEF IsDevice
  <2>4. QED
    BY <1>3, <2>3 DEF e, r
<1>4. CASE q.command.reg \notin {"Reg", "AlControl"}
  <2>1. Wrote(d, q) = d
    BY <1>4 DEF Wrote
  <2>2. QED
    BY <1>4, <2>1
<1>5. QED
  BY <1>1, <1>2, <1>3, <1>4

\* An answer.
LEMMA GotSocket ==
  ASSUME NEW d, NEW h, IsSocket(sockets[h]), NEW lost, NEW g, g = Got(d, h, lost)
  PROVE  /\ IsSocket(g)
         /\ ~Sent(h) => g = sockets[h]
         /\ Sent(h) =>
              /\ g.stage = "answered" /\ g.command = sockets[h].command
              /\ g.slaves = sockets[h].slaves
              /\ g.wkc = Cardinality(sockets[h].slaves \ lost)
  BY DEF Got, IsSocket, Sent

\* Every slave has executed a PDU that is counted in full.
LEMMA CountedReached ==
  ASSUME NEW S \in SUBSET Slave, NEW lost, Cardinality(S \ lost) = Cardinality(S)
  PROVE  S \cap lost = {} /\ S \ lost = S
<1>1. IsFiniteSet(S)
  BY SlaveAssumption, FS_Subset
<1>2. Cardinality(S \ lost) = Cardinality(S) - Cardinality(S \cap lost) /\ IsFiniteSet(S \cap lost)
  BY <1>1, FS_Difference, FS_Subset
<1>3. Cardinality(S) \in Nat /\ Cardinality(S \cap lost) \in Nat
  BY <1>1, <1>2, FS_CardinalityType
<1>4. Cardinality(S \cap lost) = 0
  BY <1>2, <1>3
<1>5. S \cap lost = {}
  BY <1>2, <1>4, FS_EmptySet
<1>6. QED
  BY <1>5

\* What a read of a register returns.
LEMMA ReadValue ==
  ASSUME NEW d, NEW h, IsSocket(sockets[h]), Sent(h), sockets[h].command.op = "read",
         sockets[h].command.reg = "Reg", NEW lost, NEW s \in sockets[h].slaves \ lost
  PROVE  Got(d, h, lost).value \in {d[s].reg, "mixed"}
<1> DEFINE q == sockets[h]
           R == Read(d, q, q.slaves \ lost)
<1>1. d[s].reg \in R
  BY DEF Read, Contents
<1>2. Got(d, h, lost).value = IF Cardinality(R) = 1 THEN CHOOSE v \in R : TRUE ELSE "mixed"
  BY DEF Got, IsSocket
<1>3. CASE Cardinality(R) = 1
  <2>1. IsFiniteSet(R)
    <3>1. IsFiniteSet(q.slaves \ lost)
      BY SlaveAssumption, FS_Subset DEF IsSocket
    <3>2. R = {Contents(d[x], q.command.reg) : x \in q.slaves \ lost}
      BY DEF Read
    <3>3. QED
      <4> DEFINE S == q.slaves \ lost
                 f == [x \in S |-> Contents(d[x], q.command.reg)]
      <4>1. f \in Surjection(S, R)
        BY <3>2 DEF Surjection
      <4>2. QED
        BY <3>1, <4>1, FS_Surjection
  <2>2. PICK x : R = {x}
    BY <1>3, <2>1, FS_Singleton
  <2>3. QED
    BY <1>1, <1>2, <1>3, <2>2
<1>4. CASE Cardinality(R) # 1
  BY <1>2, <1>4
<1>5. QED
  BY <1>3, <1>4

----------------------------------------------------------------------------
(* The invariant, action by action *)

LEMMA CycleInitially == Init => CycleInv
<1>1. SUFFICES ASSUME Init PROVE CycleInv
  OBVIOUS
<1>2. All \in TargetSlave /\ "Init" \in Transfer!AlState
  BY DEF TargetSlave, Transfer!AlState
<1>3. Transfer!NewTask(All) \in TransferTask /\ DefaultCommand \in Command
  BY <1>2, NewTransferType
<1>4. /\ tf = Transfer!NewTask(All) /\ tf \in TransferTask /\ tf.to = All
      /\ tf.state = "Idle"
  BY <1>1, <1>3 DEF Init, Transfer!NewTask
<1>5. SocketsOk /\ \A h \in Handle : sockets[h] = EmptySocket
  BY <1>1, EmptyType DEF Init, SocketsOk, Handle
<1>6. IsCall(call) /\ call.state = "Idle"
  BY <1>1, <1>2, <1>3 DEF Init, NewCall, IsCall
<1>7. DevicesOk
  BY <1>1 DEF Init, DevicesOk, IsDevice, Transfer!AlState
<1>8. CycleTypes
  BY <1>1, <1>4, <1>5, <1>6, <1>7, EmptyType DEF Init, CycleTypes, InStep, Handle
<1>9. QED
  BY <1>4, <1>5, <1>6, <1>8, EmptyType
     DEF CycleInv, TransferOwn, CallOwn, TransferHolds, CallOkIsDone, Transferring, Calling,
         Alone, Handle

\* The parts, where what they speak of does not change.
LEMMA TransferFrame ==
  ASSUME TransferOwn, tf' = tf, sockets'["tf"] = sockets["tf"]
  PROVE  TransferOwn'
  BY DEF TransferOwn, Transferring, Carries

LEMMA HoldsFrame ==
  ASSUME TransferHolds, tf' = tf, sockets'["tf"] = sockets["tf"], dev' = dev,
         ~disturbed' => ~disturbed /\ Alone'
  PROVE  TransferHolds'
  BY DEF TransferHolds, Transferring, Good, Counted, OnTheWay, ReadTells, Settled, ToInit, Off,
     Reset, Requested, Reached, TakenForBootstrap

LEMMA CallFrame ==
  ASSUME CallOwn, call' = call, sockets'["gp"] = sockets["gp"], dev' = dev,
         Calling => phase' = phase
  PROVE  CallOwn'
  BY DEF CallOwn, Calling, Leftover, OwnRegister, RegisterCommand, InRegister, OwnTransfer,
     Carries, Counted, Transferring, TakenForBootstrap

LEMMA OkFrame ==
  ASSUME CallOkIsDone, call' = call, dev' = dev
  PROVE  CallOkIsDone'
  BY DEF CallOkIsDone, TakenForBootstrap

\* Steps that are about the process data or the mailbox.
LEMMA OtherKeeps ==
  ASSUME CycleInv, UNCHANGED <<phase, sockets, tf, call, dev, disturbed>>
  PROVE  CycleInv'
<1>1. CycleTypes'
  BY DEF CycleInv, CycleTypes, SocketsOk, DevicesOk, InStep
<1>2. TransferOwn' /\ CallOwn' /\ CallOkIsDone'
  BY TransferFrame, CallFrame, OkFrame DEF CycleInv
<1>3. Alone => Alone'
  BY DEF Alone, Calling
<1>4. TransferHolds'
  BY <1>3, HoldsFrame DEF CycleInv, TransferHolds
<1>5. QED
  BY <1>1, <1>2, <1>4 DEF CycleInv

\* A new transfer finds an empty socket, and nothing is pending unless it is disturbed.
LEMMA RequestAlStateKeeps ==
  ASSUME CycleInv, NEW target \in AlTarget, RequestAlState(target)
  PROVE  CycleInv'
<1>1. /\ tf' = NewTransfer(All, target) /\ disturbed' = RequestPending /\ ~Transferring(tf)
      /\ UNCHANGED <<phase, sockets, call, dev>> /\ ~Calling
  BY DEF RequestAlState, Application
<1>2. /\ tf' \in TransferTask /\ tf'.state = "Read" /\ tf'.to = All /\ tf'.target = target
      /\ tf'.command = DefaultCommand
  BY <1>1, NewTransferType, AlTargetAssumption DEF TargetSlave
<1>3. sockets["tf"] = EmptySocket
  BY <1>1 DEF CycleInv, TransferOwn
<1>4. CycleTypes'
  BY <1>1, <1>2 DEF CycleInv, CycleTypes, SocketsOk, DevicesOk, InStep, RequestPending
<1>5. TransferOwn'
  BY <1>1, <1>2, <1>3 DEF TransferOwn, Transferring
<1>6. CallOwn' /\ CallOkIsDone'
  BY <1>1, CallFrame, OkFrame DEF CycleInv
<1>7. TransferHolds'
  <2>1. SUFFICES ASSUME ~disturbed'
                 PROVE  Alone' /\ OnTheWay(sockets["tf"])'
    BY <1>2 DEF TransferHolds
  <2>2. Settled /\ Alone
    BY <1>1, <2>1 DEF RequestPending, Settled, Alone
  <2>3. QED
    BY <1>1, <1>2, <1>3, <2>2, EmptyType DEF Alone, Calling, Settled, OnTheWay
<1>8. QED
  BY <1>4, <1>5, <1>6, <1>7 DEF CycleInv

\* A call that starts remembers what is in its socket.
LEMMA StartCallKeeps ==
  ASSUME CycleInv, NEW to \in TargetSlave, NEW kind, NEW reg, NEW value,
         StartCall(kind, to, reg, value),
         kind = "change_al_state" => value \in AlTarget,
         kind \in {"read_register", "write_register"} => reg \in {"Reg", "DlInformation"}
  PROVE  CycleInv'
<1> DEFINE q == sockets["gp"]
           a == IF kind = "change_al_state" THEN value ELSE "Init"
           t == NewTransfer(to, a)
<1>1. /\ call' = [NewCall EXCEPT
           !.kind = kind, !.to = to, !.reg = reg, !.value = value, !.state = "Busy", !.al = t,
           !.met = (q.stage # "idle" /\ q.command = DefaultCommand),
           !.stale = (q.stage # "idle")]
      /\ sockets' = IF kind = "write_register" /\ q.stage = "queued"
                    THEN [sockets EXCEPT !["gp"].value = value] ELSE sockets
      /\ disturbed' = (disturbed \/ kind = "change_al_state")
      /\ UNCHANGED <<phase, tf, dev>>
  BY DEF StartCall
<1>2. /\ t \in TransferTask /\ t.to = to /\ t.state = "Read" /\ t.command = DefaultCommand
      /\ DefaultCommand \in Command
  <2>1. a \in Transfer!AlState
    BY AlTargetAssumption DEF Transfer!AlState
  <2> HIDE DEF a
  <2>2. QED
    BY <2>1, NewTransferType
<1> HIDE DEF t
<1>3. /\ IsCall(call') /\ call'.kind = kind /\ call'.to = to /\ call'.state = "Busy" /\ call'.al = t
      /\ call'.met = (q.stage # "idle" /\ q.command = DefaultCommand)
      /\ call'.stale = (q.stage # "idle") /\ call'.command = DefaultCommand
  <2> DEFINE met == q.stage # "idle" /\ q.command = DefaultCommand
             stale == q.stage # "idle"
  <2>1. met \in BOOLEAN
    OBVIOUS
  <2> HIDE DEF met, stale
  <2>2. call' = [kind |-> kind, to |-> to, reg |-> reg, value |-> value, state |-> "Busy",
                 command |-> DefaultCommand, al |-> t, met |-> met, stale |-> stale,
                 done |-> FALSE]
    BY <1>1 DEF NewCall, met, stale
  <2>3. IsCall(call')
    BY <1>2, <2>1, <2>2 DEF IsCall
  <2>4. call'.met = met /\ call'.stale = stale
    BY <2>2
  <2>5. QED
    BY <2>2, <2>3, <2>4 DEF met, stale
<1>4. /\ SocketsOk' /\ sockets'["tf"] = sockets["tf"]
      /\ sockets'["gp"].stage = q.stage /\ sockets'["gp"].command = q.command
  <2>1. SocketsOk /\ IsSocket(q)
    BY DEF CycleInv, CycleTypes, SocketsOk, Handle
  <2>2. IsSocket([q EXCEPT !.value = value]) /\ [q EXCEPT !.value = value].stage = q.stage
        /\ [q EXCEPT !.value = value].command = q.command
    BY <2>1 DEF IsSocket
  <2>3. sockets' = sockets \/ sockets' = [sockets EXCEPT !["gp"] = [q EXCEPT !.value = value]]
    BY <1>1, <2>1 DEF SocketsOk, Handle
  <2>4. QED
    BY <2>1, <2>2, <2>3 DEF SocketsOk, Handle
<1>5. CycleTypes'
  BY <1>1, <1>3, <1>4 DEF CycleInv, CycleTypes, DevicesOk, InStep
<1>6. TransferOwn'
  BY <1>1, <1>4, TransferFrame DEF CycleInv
<1>7. CallOwn' /\ CallOkIsDone'
  BY <1>2, <1>3, <1>4 DEF CallOwn, CallOkIsDone, Leftover, Transferring
<1>8. TransferHolds'
  <2>1. ~disturbed' => ~disturbed /\ Alone'
    BY <1>1, <1>3, <1>4 DEF CycleInv, CycleTypes, TransferHolds, Alone
  <2>2. QED
    BY <1>1, <1>4, <2>1, HoldsFrame DEF CycleInv
<1>9. QED
  BY <1>5, <1>6, <1>7, <1>8 DEF CycleInv

LEMMA CallsKeep ==
  ASSUME CycleInv, ReadRegister \/ WriteRegister \/ ReadAlState \/ ChangeAlState
  PROVE  CycleInv'
<1>1. CASE ReadRegister
  BY <1>1, StartCallKeeps DEF ReadRegister
<1>2. CASE WriteRegister
  BY <1>2, StartCallKeeps DEF WriteRegister
<1>3. CASE ReadAlState
  BY <1>3, StartCallKeeps DEF ReadAlState, TargetSlave
<1>4. CASE ChangeAlState
  BY <1>4, StartCallKeeps DEF ChangeAlState
<1>5. QED
  BY <1>1, <1>2, <1>3, <1>4

LEMMA GiveUpKeeps ==
  ASSUME CycleInv, GiveUp
  PROVE  CycleInv'
<1>1. call' = [call EXCEPT !.state = "Error"] /\ UNCHANGED <<phase, sockets, tf, dev, disturbed>>
  BY DEF GiveUp, history
<1>2. IsCall(call') /\ call'.state = "Error"
  BY <1>1 DEF CycleInv, CycleTypes, IsCall
<1>3. CycleTypes'
  BY <1>1, <1>2 DEF CycleInv, CycleTypes, SocketsOk, DevicesOk, InStep
<1>4. TransferOwn'
  BY <1>1, TransferFrame DEF CycleInv
<1>5. CallOwn' /\ CallOkIsDone'
  BY <1>2 DEF CallOwn, CallOkIsDone, Calling
<1>6. TransferHolds'
  BY <1>1, <1>2, HoldsFrame DEF CycleInv, TransferHolds, Alone, Calling
<1>7. QED
  BY <1>3, <1>4, <1>5, <1>6 DEF CycleInv

\* A socket whose PDU is sent with the frame.
LEMMA SentSocket ==
  ASSUME NEW q, IsSocket(q), NEW g,
         g = IF q.stage = "queued" THEN [q EXCEPT !.stage = "sent"] ELSE q
  PROVE  /\ IsSocket(g) /\ g.command = q.command /\ g.slaves = q.slaves /\ g.value = q.value
         /\ g.ack = q.ack /\ g.wkc = q.wkc /\ g.bits = q.bits /\ g.change_err = q.change_err
         /\ g.stage = IF q.stage = "queued" THEN "sent" ELSE q.stage
  BY DEF IsSocket

LEMMA SendKeeps ==
  ASSUME CycleInv, Send
  PROVE  CycleInv'
<1>0. sockets' = [h \in Handle |-> IF sockets[h].stage = "queued"
                                   THEN [sockets[h] EXCEPT !.stage = "sent"] ELSE sockets[h]]
  BY DEF Send
<1>1. /\ phase = "idle" /\ tf' = tf /\ call' = call /\ dev' = dev /\ disturbed' = disturbed
      /\ phase' \in {"arrived", "sent"}
      /\ phase' = "arrived" => \A h \in Handle : sockets[h].stage # "queued"
  BY DEF Send, history
<1>2. \A h \in {"gp", "tf"} : IsSocket(sockets[h])
  BY DEF CycleInv, CycleTypes, SocketsOk
<1>3. ASSUME NEW h \in {"gp", "tf"}
      PROVE  LET q == sockets[h]
                 g == sockets'[h]
             IN /\ IsSocket(g) /\ g.command = q.command /\ g.slaves = q.slaves
                /\ g.value = q.value /\ g.ack = q.ack /\ g.wkc = q.wkc /\ g.bits = q.bits
                /\ g.change_err = q.change_err
                /\ g.stage = IF q.stage = "queued" THEN "sent" ELSE q.stage
                /\ q.stage = "idle" => g = q
  <2>1. sockets'[h] = IF sockets[h].stage = "queued"
                      THEN [sockets[h] EXCEPT !.stage = "sent"] ELSE sockets[h]
    BY <1>0 DEF Handle
  <2>2. IsSocket(sockets[h])
    BY <1>2
  <2>3. QED
    BY <2>1, <2>2, SentSocket
<1> DEFINE Same(q, g) ==
      /\ g.command = q.command /\ g.slaves = q.slaves /\ g.value = q.value /\ g.ack = q.ack
      /\ g.wkc = q.wkc /\ g.bits = q.bits /\ g.change_err = q.change_err
      /\ g.stage = IF q.stage = "queued" THEN "sent" ELSE q.stage
      /\ q.stage = "idle" => g = q
<1>4. Same(sockets["gp"], sockets'["gp"]) /\ Same(sockets["tf"], sockets'["tf"])
  BY <1>3
<1>5. CycleTypes'
  <2>1. SocketsOk'
    BY <1>0, <1>3 DEF SocketsOk
  <2>2. InStep(sockets["gp"])' /\ InStep(sockets["tf"])'
    BY <1>1, <1>4 DEF CycleInv, CycleTypes, InStep, Handle
  <2>3. QED
    BY <1>1, <2>1, <2>2 DEF CycleInv, CycleTypes, DevicesOk
<1>6. TransferOwn'
  <2>1. \A t : Carries(sockets["tf"], t) => Carries(sockets'["tf"], t)
    BY <1>4 DEF Carries
  <2>2. QED
    BY <1>1, <1>4, <2>1, EmptyType DEF CycleInv, TransferOwn, Transferring
<1>7. CallOwn'
  <2>1. Counted(sockets'["gp"]) => Counted(sockets["gp"])
    BY <1>4 DEF Counted
  <2>2. ASSUME OwnRegister(sockets["gp"]) PROVE OwnRegister(sockets["gp"])'
    BY <1>1, <1>4, <2>1, <2>2 DEF OwnRegister, RegisterCommand, InRegister, Counted
  <2>3. ASSUME OwnTransfer(sockets["gp"]) PROVE OwnTransfer(sockets["gp"])'
    <3>1. Carries(sockets["gp"], call.al) => Carries(sockets["gp"], call.al)'
      BY <1>1, <1>4 DEF Carries
    <3>2. (sockets["gp"].stage = "answered" => phase = "arrived")
            => (sockets["gp"].stage = "answered" => phase = "arrived")'
      BY <1>1, <1>4
    <3>3. (sockets["gp"].bits)' = sockets["gp"].bits /\ call' = call
      BY <1>1, <1>4
    <3>4. QED
      BY <2>1, <2>3, <3>1, <3>2, <3>3 DEF OwnTransfer, TakenForBootstrap
  <2>4. QED
    BY <1>1, <1>4, <2>2, <2>3 DEF CycleInv, CallOwn, Calling, Leftover, Transferring
<1>8. TransferHolds'
  <2>1. OnTheWay(sockets["tf"]) => OnTheWay(sockets["tf"])'
    BY <1>1, <1>4 DEF OnTheWay, ReadTells, Settled, ToInit, Off, Reset, Requested, Reached,
       TakenForBootstrap
  <2>2. QED
    BY <1>1, <1>4, <2>1 DEF CycleInv, TransferHolds, Alone, Calling, Good, Counted, Transferring,
       Reached, TakenForBootstrap
<1>9. CallOkIsDone'
  BY <1>1, OkFrame DEF CycleInv
<1>10. QED
  BY <1>5, <1>6, <1>7, <1>8, <1>9 DEF CycleInv

\* A slave that reacts goes nowhere but to the state that it was asked for.
LEMMA SlaveReactsKeeps ==
  ASSUME CycleInv, NEW s \in Slave, SlaveReacts(s)
  PROVE  CycleInv'
<1> DEFINE d == dev[s]
           w == dev'[s]
<1>1. /\ d.request # "none" /\ UNCHANGED <<phase, sockets, tf, call, disturbed>>
      /\ \/ dev' = [dev EXCEPT ![s].al = dev[s].request, ![s].request = "none"]
         \/ /\ dev[s].request # "Init"
            /\ dev' = [dev EXCEPT ![s].err = TRUE, ![s].request = "none"]
  BY DEF SlaveReacts, history
<1>2. DevicesOk /\ IsDevice(d)
  BY DEF CycleInv, CycleTypes, DevicesOk
<1>3. /\ IsDevice(w) /\ w.reg = d.reg /\ w.request = "none"
      /\ \/ w.al = d.request /\ w.err = d.err
         \/ d.request # "Init" /\ w.al = d.al
  <2>1. d.request \in Transfer!AlState /\ "none" \notin Transfer!AlState
    BY <1>1, <1>2 DEF IsDevice, Transfer!AlState
  <2>2. CASE dev' = [dev EXCEPT ![s].al = dev[s].request, ![s].request = "none"]
    <3>1. w = [d EXCEPT !.al = d.request, !.request = "none"]
      BY <1>2, <2>2 DEF DevicesOk
    <3>2. QED
      BY <1>2, <2>1, <3>1 DEF IsDevice
  <2>3. CASE d.request # "Init" /\ dev' = [dev EXCEPT ![s].err = TRUE, ![s].request = "none"]
    <3>1. w = [d EXCEPT !.err = TRUE, !.request = "none"]
      BY <1>2, <2>3 DEF DevicesOk
    <3>2. "none" # d.al
      BY <1>2, <2>1 DEF IsDevice
    <3>3. w = [al |-> d.al, err |-> TRUE, request |-> "none", reg |-> d.reg, out |-> d.out]
      BY <1>2, <3>1 DEF IsDevice
    <3> HIDE DEF w
    <3>4. w.al = d.al /\ w.err = TRUE /\ w.request = "none" /\ w.reg = d.reg
      BY <3>3
    <3>5. IsDevice(w)
      BY <1>2, <3>2, <3>3 DEF IsDevice
    <3>6. QED
      BY <2>3, <3>4, <3>5
  <2>4. QED
    BY <1>1, <2>2, <2>3
<1>4. \A r \in Slave \ {s} : dev'[r] = dev[r]
  BY <1>1, <1>2 DEF DevicesOk
<1>5. DevicesOk'
  BY <1>1, <1>2, <1>3, <1>4 DEF DevicesOk
<1> HIDE DEF d, w
<1>6. \A r \in Slave : dev'[r].reg = dev[r].reg
  BY <1>3, <1>4 DEF d, w
<1>7. CycleTypes'
  BY <1>1, <1>5 DEF CycleInv, CycleTypes, SocketsOk, InStep
<1>8. TransferOwn'
  BY <1>1, TransferFrame DEF CycleInv
<1>9. CallOwn'
  <2>1. call.to.slaves \in SUBSET Slave
    BY TargetSlaves DEF CycleInv, CycleTypes, IsCall
  <2>2. \A q : InRegister(q) => InRegister(q)'
    BY <1>1, <1>6, <2>1 DEF InRegister
  <2>3. QED
    BY <1>1, <2>2 DEF CycleInv, CallOwn, Calling, Leftover, OwnRegister, RegisterCommand,
       OwnTransfer, Carries, Counted, Transferring, TakenForBootstrap
<1>10. CallOkIsDone'
  <2>1. call.to.slaves \in SUBSET Slave
    BY TargetSlaves DEF CycleInv, CycleTypes, IsCall
  <2>2. QED
    BY <1>1, <1>6, <2>1 DEF CycleInv, CallOkIsDone, TakenForBootstrap
<1>11. TransferHolds'
  <2>1. ~Settled /\ ~Reached
    BY <1>1 DEF Settled, Reached, d
  <2>2. Off => Off'
    <3>1. SUFFICES ASSUME Off PROVE Off'
      OBVIOUS
    <3>2. PICK r \in Slave : dev[r].al # tf.target /\ dev[r].request # tf.target
      BY <3>1 DEF Off
    <3>3. tf.target # "none"
      BY TaskFields DEF CycleInv, CycleTypes, Transfer!AlState
    <3>4. QED
      BY <1>1, <1>3, <1>4, <3>2, <3>3 DEF Off, d, w
  <2>3. ToInit => ToInit'
    BY <1>1, <1>3, <1>4 DEF ToInit, d, w
  <2>4. Requested => Requested'
    BY <1>1, <1>3, <1>4 DEF Requested, d, w
  <2>5. (\A r \in Slave : dev[r].err => dev[r].request = "none") =>
          \A r \in Slave : dev'[r].err => dev'[r].request = "none"
    BY <1>3, <1>4 DEF w
  <2>6. \A q : OnTheWay(q) => OnTheWay(q)'
    BY <1>1, <2>1, <2>2, <2>3, <2>4, <2>5 DEF OnTheWay, ReadTells, Reset, TakenForBootstrap
  <2>7. QED
    BY <1>1, <2>1, <2>6 DEF CycleInv, TransferHolds, Alone, Calling, Transferring, Good, Counted,
       TakenForBootstrap
<1>12. QED
  BY <1>7, <1>8, <1>9, <1>10, <1>11 DEF CycleInv

\* The state of the slaves that a transfer relies on, after the step from tf to t.
LEMMA WayGoesOn ==
  ASSUME CycleInv, ~disturbed, phase = "arrived", NEW e, NEW t \in Transferred(tf, "tf", e),
         tf' = TransferSending(t), sockets'["tf"] = TransferSocket(t), dev' = dev
  PROVE  /\ Transferring(tf') => OnTheWay(sockets["tf"])'
         /\ tf'.state = "Complete" => Reached' \/ TakenForBootstrap(tf)'
<1> DEFINE q == sockets["tf"]
           a == Transfer!AlStateFrom(q.bits)
<1>1. tf \in TransferTask /\ TransferOwn /\ TransferHolds
  BY DEF CycleInv, CycleTypes
<1>2. /\ t \in TransferTask /\ t.to = tf.to /\ t.target = tf.target
      /\ IF Transferring(tf) /\ q.stage = "answered"
         THEN Outcome(Answer("tf", tf.to), tf, t) ELSE t = tf
  BY <1>1, TransferredTask
<1>3. /\ tf'.state = t.state /\ tf'.to = t.to /\ tf'.target = t.target /\ tf'.reset = t.reset
      /\ Transferring(tf') => sockets'["tf"].stage = "queued"
      /\ Transferring(tf') <=> Transferring(t)
  BY <1>2, SendingTask
<1>4. CASE ~Transferring(tf)
  BY <1>1, <1>2, <1>3, <1>4 DEF TransferHolds, Reached, TakenForBootstrap
<1>5. CASE Transferring(tf) /\ q.stage # "answered"
  <2>1. q.stage = "idle"
    BY <1>5 DEF CycleInv, CycleTypes, SocketsOk, IsSocket, InStep
  <2>2. tf.state = "Read"
    BY <1>1, <1>5, <2>1 DEF TransferOwn, Carries
  <2>3. OnTheWay(q)
    BY <1>1, <1>5 DEF TransferHolds, Good
  <2>4. QED
    BY <1>2, <1>3, <1>5, <2>2, <2>3 DEF OnTheWay, Settled, ToInit, Off
<1>6. CASE Transferring(tf) /\ q.stage = "answered"
  <2>1. CASE t.state \in {"Error", "panic"}
    BY <1>3, <2>1 DEF Transferring
  <2>2. CASE t.state \notin {"Error", "panic"}
    <3>1. q.slaves = tf.to.slaves
      BY <1>1, <1>6, EmptyType DEF TransferOwn, Carries
    <3>2. OnTheWay(q)
      <4>1. Answer("tf", tf.to).wkc_ok
        BY <1>2, <1>6, <2>2 DEF Outcome
      <4>2. Counted(q)
        BY <1>6, <3>1, <4>1 DEF Answer, Counted
      <4>3. QED
        BY <1>1, <1>6, <4>2 DEF TransferHolds, Good
    <3>3. \/ t.state = "Complete" /\ tf.state \in {"Read", "Poll"} /\ a = tf.target
          \/ /\ t.state = "ResetError" /\ tf.state = "Read" /\ a # tf.target /\ q.change_err
             /\ t.reset = IF a = "InvalidOrMixed" THEN "Init" ELSE a
          \/ t.state = "ResetSiiOwnership"
          \/ t.state = "Poll" /\ tf.state = "Poll"
          \/ t.state = "OffAck" /\ tf.state = "ResetError" /\ t.reset = tf.reset
          \/ t.state = "Read" /\ tf.state = "OffAck"
          \/ t.state = "Request"
          \/ t.state = "Poll" /\ tf.state = "Request"
      BY <1>2, <1>6, <2>2 DEF Outcome, Answer
    <3>4. /\ Settled' = Settled /\ Requested' = Requested /\ Off' = Off /\ ToInit' = ToInit
          /\ Reached' = Reached /\ TakenForBootstrap(tf)' = TakenForBootstrap(tf)
      BY <1>2, <1>3 DEF Settled, Requested, Off, ToInit, Reached, TakenForBootstrap
    <3>5. CASE t.state = "Complete" /\ tf.state \in {"Read", "Poll"} /\ a = tf.target
      BY <1>3, <1>6, <3>2, <3>4, <3>5 DEF OnTheWay, ReadTells, Transferring
    <3>6. CASE /\ t.state = "ResetError" /\ tf.state = "Read" /\ a # tf.target /\ q.change_err
               /\ t.reset = IF a = "InvalidOrMixed" THEN "Init" ELSE a
      BY <1>2, <1>3, <1>6, <3>2, <3>4, <3>6 DEF OnTheWay, ReadTells, Transferring
    <3>7. CASE t.state \in {"ResetSiiOwnership", "Request", "Poll"}
      BY <1>2, <1>3, <1>6, <3>2, <3>3, <3>4, <3>7 DEF OnTheWay, Transferring
    <3>8. CASE \/ t.state = "OffAck" /\ tf.state = "ResetError" /\ t.reset = tf.reset
               \/ t.state = "Read" /\ tf.state = "OffAck"
      BY <1>2, <1>3, <1>6, <3>2, <3>4, <3>8 DEF OnTheWay, Transferring, Reset
    <3>9. QED
      BY <3>3, <3>5, <3>6, <3>7, <3>8
  <2>3. QED
    BY <2>1, <2>2
<1>7. QED
  BY <1>4, <1>5, <1>6

LEMMA ProcessKeeps ==
  ASSUME CycleInv, Process
  PROVE  CycleInv'
<1>1. /\ phase = "arrived" /\ phase' = "idle" /\ ~Calling /\ UNCHANGED <<call, dev, disturbed>>
      /\ \E e \in {0, Timeout + 1} : \E t \in Transferred(tf, "tf", e) :
           /\ tf' = TransferSending(t)
           /\ sockets' = [h \in Handle |->
                CASE h = "tf" -> TransferSocket(t)
                  [] h = "gp" \/ (h = "dc" /\ ~program.dc) -> sockets[h]
                  [] OTHER -> MonitorPdu(h)]
  BY DEF Process, history
<1>2. PICK e \in {0, Timeout + 1} : \E t \in Transferred(tf, "tf", e) :
           /\ tf' = TransferSending(t)
           /\ sockets' = [h \in Handle |->
                CASE h = "tf" -> TransferSocket(t)
                  [] h = "gp" \/ (h = "dc" /\ ~program.dc) -> sockets[h]
                  [] OTHER -> MonitorPdu(h)]
  BY <1>1
<1>3. PICK t \in Transferred(tf, "tf", e) :
           /\ tf' = TransferSending(t)
           /\ sockets' = [h \in Handle |->
                CASE h = "tf" -> TransferSocket(t)
                  [] h = "gp" \/ (h = "dc" /\ ~program.dc) -> sockets[h]
                  [] OTHER -> MonitorPdu(h)]
  BY <1>2
<1>4. /\ sockets' = [h \in Handle |-> sockets'[h]]
      /\ sockets'["tf"] = TransferSocket(t) /\ sockets'["gp"] = sockets["gp"]
  BY <1>3 DEF Handle
<1>5. t \in TransferTask /\ t.to = tf.to
  BY TransferredTask DEF CycleInv, CycleTypes
<1>6. /\ tf' \in TransferTask /\ tf'.to = tf.to
      /\ IsSocket(sockets'["tf"]) /\ sockets'["tf"].stage \in {"idle", "queued"}
      /\ Transferring(tf') => Carries(sockets'["tf"], tf')
      /\ ~Transferring(tf') => sockets'["tf"] = EmptySocket
  BY <1>3, <1>4, <1>5, SendingTask
<1>7. CycleTypes'
  BY <1>1, <1>4, <1>6 DEF CycleInv, CycleTypes, SocketsOk, DevicesOk, InStep
<1>8. TransferOwn'
  BY <1>6 DEF CycleInv, TransferOwn
<1>9. CallOwn' /\ CallOkIsDone'
  BY <1>1, <1>4, CallFrame, OkFrame DEF CycleInv
<1>10. TransferHolds'
  <2>1. SUFFICES ASSUME ~disturbed PROVE TransferHolds'
    BY <1>1 DEF TransferHolds
  <2>2. Alone'
    BY <1>1, <1>4, <2>1 DEF CycleInv, TransferHolds, Alone, Calling
  <2>3. QED
    BY <1>1, <1>3, <1>4, <2>1, <2>2, WayGoesOn DEF TransferHolds
<1>11. QED
  BY <1>7, <1>8, <1>9, <1>10 DEF CycleInv

\* A step of a call that leaves the other transfer alone.
LEMMA CallStepParts ==
  ASSUME CycleInv, phase = "arrived", phase' = "idle", UNCHANGED <<tf, dev, disturbed>>, Calling,
         NEW g, IsSocket(g), g.stage \in {"idle", "queued"},
         sockets' = [sockets EXCEPT !["gp"] = g],
         IsCall(call'), call'.kind = call.kind,
         call.kind # "change_al_state" => g.command.reg # "AlControl"
  PROVE  CycleTypes' /\ TransferOwn' /\ TransferHolds' /\ sockets'["gp"] = g
<1>1. SocketsOk' /\ sockets'["gp"] = g /\ sockets'["tf"] = sockets["tf"]
  BY DEF CycleInv, CycleTypes, SocketsOk, Handle
<1>2. CycleTypes'
  BY <1>1 DEF CycleInv, CycleTypes, DevicesOk, InStep
<1>3. TransferOwn'
  BY <1>1, TransferFrame DEF CycleInv
<1>4. ~disturbed => Alone'
  BY <1>1 DEF CycleInv, TransferHolds, Alone, Calling
<1>5. TransferHolds'
  BY <1>1, <1>4, HoldsFrame DEF CycleInv
<1>6. QED
  BY <1>1, <1>2, <1>3, <1>5

LEMMA AddressAccessKeeps ==
  ASSUME CycleInv, CallStep, AddressAccess
  PROVE  CycleInv'
<1> DEFINE q == sockets["gp"]
<1>1. /\ phase = "arrived" /\ phase' = "idle" /\ UNCHANGED <<tf, dev, disturbed>> /\ Calling
      /\ call.kind \in {"read_register", "write_register"}
  BY DEF CallStep, AddressAccess, history
<1>2. /\ IsSocket(q) /\ IsCall(call) /\ InStep(q) /\ CallOwn /\ call.to \in TargetSlave
      /\ call.reg \in {"Reg", "DlInformation"}
  BY <1>1 DEF CycleInv, CycleTypes, SocketsOk, IsCall
<1>3. call.met \/ Leftover(q, call.command) \/ OwnRegister(q)
  BY <1>1, <1>2 DEF CallOwn
<1>4. CASE q.stage = "answered"
  <2> DEFINE st == AddressAccessed(Answer("gp", call.to))
             v == IF call.kind = "read_register" THEN q.value ELSE call.value
  <2>1. /\ call' = [call EXCEPT !.state = st, !.value = v]
        /\ sockets' = [sockets EXCEPT !["gp"] = EmptySocket]
    BY <1>2, <1>4 DEF AddressAccess, CallEnds, IsCall
  <2>2. st \in {"Ok", "Error"}
    BY DEF AddressAccessed
  <2>3. st = "Ok" => q.command = call.command /\ q.wkc = Cardinality(call.to.slaves)
    BY DEF AddressAccessed, Answer
  <2> HIDE DEF st, v
  <2>4. /\ IsCall(call') /\ call'.kind = call.kind /\ call'.state = st /\ call'.value = v
        /\ call'.to = call.to /\ call'.reg = call.reg /\ call'.met = call.met
        /\ call'.done = call.done
    BY <1>2, <2>1 DEF IsCall
  <2>5. CycleTypes' /\ TransferOwn' /\ TransferHolds' /\ sockets'["gp"] = EmptySocket
    <3>1. EmptySocket.command.reg # "AlControl"
      BY EmptyType DEF DefaultCommand, Cmd
    <3>2. QED
      BY <1>1, <2>1, <2>4, <3>1, EmptyType, CallStepParts
  <2>6. CallOwn'
    BY <2>2, <2>4, <2>5, EmptyType DEF CallOwn, Calling
  <2>7. CallOkIsDone'
    <3>1. SUFFICES ASSUME st = "Ok", ~call.met PROVE CallOkIsDone'
      BY <2>4 DEF CallOkIsDone
    <3>2. OwnRegister(q)
      BY <1>3, <1>4, <2>3, <3>1 DEF Leftover
    <3>3. Counted(q)
      BY <1>4, <2>3, <3>1, <3>2 DEF OwnRegister, Counted
    <3>4. call.done /\ (call.reg = "Reg" => \A s \in call.to.slaves : v \in {dev[s].reg, "mixed"})
      BY <3>2, <3>3 DEF OwnRegister, InRegister, v
    <3>5. QED
      BY <1>1, <2>4, <3>4 DEF CallOkIsDone
  <2>8. QED
    BY <2>5, <2>6, <2>7 DEF CycleInv
<1>5. CASE q.stage # "answered"
  <2> DEFINE g == Ask(RegisterCommand, call.to.slaves, call.value, FALSE)
  <2>1. call' = [call EXCEPT !.command = g.command] /\ sockets' = [sockets EXCEPT !["gp"] = g]
    BY <1>5 DEF AddressAccess, CallSends, RegisterCommand
  <2>2. RegisterCommand \in Command /\ call.to.slaves \in SUBSET Slave
    BY <1>2, TargetSlaves DEF RegisterCommand, Cmd, Command, Register
  <2>3. /\ IsSocket(g) /\ g.stage = "queued" /\ g.command = RegisterCommand
        /\ g.slaves = call.to.slaves /\ g.value = call.value
    BY <2>2 DEF Ask, IsSocket
  <2> HIDE DEF g
  <2>4. /\ IsCall(call') /\ call'.kind = call.kind /\ call'.state = call.state
        /\ call'.to = call.to /\ call'.reg = call.reg /\ call'.value = call.value
        /\ call'.command = RegisterCommand
    BY <1>2, <2>1, <2>3 DEF IsCall
  <2>5. CycleTypes' /\ TransferOwn' /\ TransferHolds' /\ sockets'["gp"] = g
    <3>1. g.command.reg # "AlControl"
      BY <1>2, <2>3 DEF RegisterCommand, Cmd
    <3>2. QED
      BY <1>1, <2>1, <2>3, <2>4, <3>1, CallStepParts
  <2>6. CallOwn'
    BY <1>1, <2>3, <2>4, <2>5 DEF CallOwn, Calling, OwnRegister, RegisterCommand, Counted
  <2>7. CallOkIsDone'
    BY <1>1, <2>4 DEF CallOkIsDone, Calling
  <2>8. QED
    BY <2>5, <2>6, <2>7 DEF CycleInv
<1>6. QED
  BY <1>4, <1>5

LEMMA AlStateReadKeeps ==
  ASSUME CycleInv, CallStep, AlStateRead
  PROVE  CycleInv'
<1> DEFINE q == sockets["gp"]
           st == IF q.stage = "answered" /\ q.wkc = Cardinality(Slave) THEN "Ok" ELSE "Error"
           c == Cmd("read", TRUE, "AlStatus")
           g == Ask(c, Slave, "none", FALSE)
<1>1. /\ phase = "arrived" /\ phase' = "idle" /\ UNCHANGED <<tf, dev, disturbed>> /\ Calling
      /\ call.kind = "read_al_state" /\ call' = [call EXCEPT !.state = st]
      /\ sockets' = [sockets EXCEPT !["gp"] = g]
  BY DEF CallStep, AlStateRead, history
<1>2. IsSocket(g) /\ g.stage = "queued" /\ g.command = c /\ c.reg = "AlStatus"
  BY DEF Ask, IsSocket, Cmd, Command, Register
<1>3. st = "Ok" => call.stale
  BY <1>1 DEF CycleInv, CallOwn
<1>4. st \in {"Ok", "Error"}
  OBVIOUS
<1> HIDE DEF g, c, st
<1>5. IsCall(call') /\ call'.kind = call.kind /\ call'.state = st /\ call'.stale = call.stale
  BY <1>1 DEF CycleInv, CycleTypes, IsCall
<1>6. CycleTypes' /\ TransferOwn' /\ TransferHolds'
  BY <1>1, <1>2, <1>5, CallStepParts
<1>7. CallOwn' /\ CallOkIsDone'
  BY <1>1, <1>3, <1>4, <1>5 DEF CallOwn, CallOkIsDone, Calling
<1>8. QED
  BY <1>6, <1>7 DEF CycleInv

LEMMA AlStateChangedKeeps ==
  ASSUME CycleInv, CallStep, AlStateChanged
  PROVE  CycleInv'
<1> DEFINE q == sockets["gp"]
<1>1. /\ phase = "arrived" /\ phase' = "idle" /\ UNCHANGED <<tf, dev, disturbed>> /\ Calling
      /\ call.kind = "change_al_state"
  BY DEF CallStep, AlStateChanged, history
<1>2. PICK t \in Transferred(call.al, "gp", 0) :
        /\ call' = [call EXCEPT !.al = TransferSending(t),
                                !.state = CASE t.state = "Complete" -> "Ok"
                                            [] t.state \in {"Error", "panic"} -> "Error"
                                            [] OTHER -> "Busy"]
        /\ sockets' = [sockets EXCEPT !["gp"] = TransferSocket(t)]
  BY DEF AlStateChanged
<1> DEFINE st == CASE t.state = "Complete" -> "Ok"
                   [] t.state \in {"Error", "panic"} -> "Error"
                   [] OTHER -> "Busy"
           w == TransferSending(t)
           g == TransferSocket(t)
<1>3. IsSocket(q) /\ IsCall(call) /\ call.al \in TransferTask /\ call.al.to = call.to
      /\ Transferring(call.al)
      /\ (call.met \/ Leftover(q, call.al.command) \/ OwnTransfer(q))
  BY <1>1 DEF CycleInv, CycleTypes, SocketsOk, IsCall, CallOwn
<1>4. /\ t \in TransferTask /\ t.to = call.to /\ t.target = call.al.target
      /\ IF q.stage = "answered" THEN Outcome(Answer("gp", call.al.to), call.al, t)
         ELSE t = call.al
  BY <1>3, TransferredTask
<1>5. /\ w \in TransferTask /\ w.to = call.to /\ w.target = call.al.target /\ w.state = t.state
      /\ IsSocket(g) /\ g.stage \in {"idle", "queued"}
      /\ Transferring(t) => Transferring(w) /\ Carries(g, w) /\ g.stage = "queued"
  BY <1>4, SendingTask
<1>6. /\ st \in {"Ok", "Error", "Busy"}
      /\ st = "Ok" => t.state = "Complete"
      /\ st = "Busy" => t.state \notin {"Complete", "Error", "panic"}
  OBVIOUS
<1>7. call' = [call EXCEPT !.al = w, !.state = st] /\ sockets' = [sockets EXCEPT !["gp"] = g]
  BY <1>2
<1> HIDE DEF st, w, g
<1>8. /\ IsCall(call') /\ call'.kind = call.kind /\ call'.state = st /\ call'.al = w
      /\ call'.to = call.to /\ call'.met = call.met /\ call'.done = call.done
  BY <1>3, <1>5, <1>7 DEF IsCall
<1>9. CycleTypes' /\ TransferOwn' /\ TransferHolds' /\ sockets'["gp"] = g
  BY <1>1, <1>5, <1>7, <1>8, CallStepParts
<1>10. CallOwn'
  <2>1. SUFFICES ASSUME st = "Busy" PROVE Transferring(w) /\ OwnTransfer(sockets["gp"])'
    BY <1>1, <1>5, <1>8 DEF CallOwn, Calling
  <2>2. Transferring(t)
    BY <1>3, <1>4, <1>6, <2>1 DEF Outcome, Transferring
  <2>3. QED
    BY <1>5, <1>8, <1>9, <2>2 DEF OwnTransfer, Counted
<1>11. CallOkIsDone'
  <2>1. SUFFICES ASSUME st = "Ok", ~call.met PROVE call.done \/ TakenForBootstrap(w)
    BY <1>1, <1>8 DEF CallOkIsDone
  <2>2. q.stage = "answered"
    BY <1>3, <1>4, <1>6, <2>1 DEF Transferring
  <2>3. /\ q.command = call.al.command /\ q.wkc = Cardinality(call.to.slaves)
        /\ call.al.state \in {"Read", "Poll"}
        /\ Transfer!AlStateFrom(q.bits) = call.al.target
    BY <1>3, <1>4, <1>6, <2>1, <2>2 DEF Outcome, Answer
  <2>4. OwnTransfer(q)
    BY <1>3, <2>1, <2>2, <2>3 DEF Leftover
  <2>5. Counted(q)
    BY <1>3, <2>2, <2>3, <2>4 DEF OwnTransfer, Carries, Counted
  <2>6. QED
    BY <1>3, <1>5, <2>3, <2>4, <2>5 DEF OwnTransfer, TakenForBootstrap
<1>12. QED
  BY <1>9, <1>10, <1>11 DEF CycleInv

\* The PDU in socket h is a write that slave s executes.
Writes(h, s, lost) ==
  Sent(h) /\ sockets[h].command.op = "write" /\ s \in sockets[h].slaves \ lost

\* The slaves after the writes from socket h.
LEMMA WrittenDevice ==
  ASSUME NEW d, NEW s \in Slave, IsDevice(d[s]), NEW h, IsSocket(sockets[h]), NEW lost
  PROVE  LET q == sockets[h]
             w == Written(d, h, lost)[s]
         IN /\ IsDevice(w)
            /\ w.al = d[s].al
            /\ w.reg = IF Writes(h, s, lost) /\ q.command.reg = "Reg" THEN q.value ELSE d[s].reg
            /\ ~(Writes(h, s, lost) /\ q.command.reg = "AlControl") =>
                 w.err = d[s].err /\ w.request = d[s].request
            /\ /\ Writes(h, s, lost) /\ q.command.reg = "AlControl"
               /\ q.value \in Transfer!AlState
               => /\ w.err = (d[s].err /\ ~q.ack)
                  /\ w.request = IF d[s].err /\ ~q.ack THEN d[s].request
                                 ELSE IF q.value = d[s].al THEN "none" ELSE q.value
<1>1. Written(d, h, lost)[s] = IF Writes(h, s, lost) THEN Wrote(d[s], sockets[h]) ELSE d[s]
  BY DEF Written, Writes
<1>2. CASE Writes(h, s, lost)
  BY <1>1, <1>2, WroteDevice
<1>3. CASE ~Writes(h, s, lost)
  BY <1>1, <1>3
<1>4. QED
  BY <1>2, <1>3

\* What the frame does to slave s: first the PDU of the call, then that of the transfer.
Passed(lost) ==
  LET D == Written(dev, "gp", lost)
      q == sockets["gp"]
      p == sockets["tf"]
  IN
  \A s \in Slave :
    /\ D[s].al = dev[s].al /\ dev'[s].al = dev[s].al
    /\ dev'[s].reg = IF Writes("gp", s, lost) /\ q.command.reg = "Reg" THEN q.value ELSE dev[s].reg
    /\ ~(Writes("gp", s, lost) /\ q.command.reg = "AlControl") =>
         D[s].err = dev[s].err /\ D[s].request = dev[s].request
    /\ ~(Writes("tf", s, lost) /\ p.command.reg = "AlControl") =>
         dev'[s].err = D[s].err /\ dev'[s].request = D[s].request
    /\ Writes("tf", s, lost) /\ p.command.reg = "AlControl" /\ p.value \in Transfer!AlState =>
         /\ dev'[s].err = (D[s].err /\ ~p.ack)
         /\ dev'[s].request = IF D[s].err /\ ~p.ack THEN D[s].request
                              ELSE IF p.value = dev[s].al THEN "none" ELSE p.value

LEMMA FramePassed ==
  ASSUME CycleInv, NEW lost,
         LET d == Written(Written(dev, "gp", lost), "tf", lost)
         IN dev' = [s \in Slave |-> IF pd.stage = "sent" /\ s \notin lost
                                    THEN [d[s] EXCEPT !.out = pd.sent] ELSE d[s]]
  PROVE  DevicesOk' /\ Passed(lost)
<1> DEFINE D == Written(dev, "gp", lost)
           E == Written(D, "tf", lost)
           q == sockets["gp"]
           p == sockets["tf"]
<1>1. IsSocket(q) /\ IsSocket(p) /\ \A s \in Slave : IsDevice(dev[s])
  BY DEF CycleInv, CycleTypes, SocketsOk, DevicesOk
<1>2. p.command.reg # "Reg"
  <2>1. CASE p = EmptySocket
    BY <2>1, EmptyType DEF DefaultCommand, Cmd
  <2>2. CASE p # EmptySocket
    <3>1. Transferring(tf) /\ Carries(p, tf) /\ tf \in TransferTask
      BY <2>2 DEF CycleInv, CycleTypes, TransferOwn
    <3>2. QED
      BY <3>1, TaskFields DEF Carries, Transfer!CommandOf
  <2>3. QED
    BY <2>1, <2>2
<1>3. ASSUME NEW s \in Slave
      PROVE  /\ IsDevice(D[s]) /\ D[s].al = dev[s].al
             /\ D[s].reg = IF Writes("gp", s, lost) /\ q.command.reg = "Reg" THEN q.value
                           ELSE dev[s].reg
             /\ ~(Writes("gp", s, lost) /\ q.command.reg = "AlControl") =>
                  D[s].err = dev[s].err /\ D[s].request = dev[s].request
  BY <1>1, WrittenDevice
<1> HIDE DEF D
<1>4. ASSUME NEW s \in Slave
      PROVE  /\ IsDevice(E[s]) /\ E[s].al = D[s].al /\ E[s].reg = D[s].reg
             /\ ~(Writes("tf", s, lost) /\ p.command.reg = "AlControl") =>
                  E[s].err = D[s].err /\ E[s].request = D[s].request
             /\ /\ Writes("tf", s, lost) /\ p.command.reg = "AlControl"
                /\ p.value \in Transfer!AlState
                => /\ E[s].err = (D[s].err /\ ~p.ack)
                   /\ E[s].request = IF D[s].err /\ ~p.ack THEN D[s].request
                                     ELSE IF p.value = D[s].al THEN "none" ELSE p.value
  BY <1>1, <1>2, <1>3, WrittenDevice
<1>5. dev' = [s \in Slave |-> IF pd.stage = "sent" /\ s \notin lost
                              THEN [E[s] EXCEPT !.out = pd.sent] ELSE E[s]]
  BY DEF D
<1> HIDE DEF E
<1>6. ASSUME NEW s \in Slave
      PROVE  /\ IsDevice(dev'[s]) /\ dev'[s].al = E[s].al /\ dev'[s].err = E[s].err
             /\ dev'[s].request = E[s].request /\ dev'[s].reg = E[s].reg
  <2>1. dev'[s] = E[s] \/ dev'[s] = [E[s] EXCEPT !.out = pd.sent]
    BY <1>5
  <2>2. IsDevice(E[s])
    BY <1>4
  <2>3. QED
    BY <2>1, <2>2 DEF IsDevice
<1>7. DevicesOk'
  BY <1>5, <1>6 DEF DevicesOk
<1>8. ASSUME NEW s \in Slave
      PROVE  /\ D[s].al = dev[s].al /\ dev'[s].al = dev[s].al
             /\ dev'[s].reg = IF Writes("gp", s, lost) /\ q.command.reg = "Reg" THEN q.value
                              ELSE dev[s].reg
             /\ ~(Writes("gp", s, lost) /\ q.command.reg = "AlControl") =>
                  D[s].err = dev[s].err /\ D[s].request = dev[s].request
             /\ ~(Writes("tf", s, lost) /\ p.command.reg = "AlControl") =>
                  dev'[s].err = D[s].err /\ dev'[s].request = D[s].request
             /\ /\ Writes("tf", s, lost) /\ p.command.reg = "AlControl"
                /\ p.value \in Transfer!AlState
                => /\ dev'[s].err = (D[s].err /\ ~p.ack)
                   /\ dev'[s].request = IF D[s].err /\ ~p.ack THEN D[s].request
                                        ELSE IF p.value = dev[s].al THEN "none" ELSE p.value
  <2>1. /\ E[s].al = D[s].al /\ D[s].al = dev[s].al /\ dev'[s].al = E[s].al
        /\ dev'[s].err = E[s].err /\ dev'[s].request = E[s].request
        /\ dev'[s].reg = E[s].reg /\ E[s].reg = D[s].reg
    BY <1>3, <1>4, <1>6
  <2>2. dev'[s].al = dev[s].al /\ dev'[s].reg = D[s].reg
    BY <2>1
  <2>3. QED
    BY <1>3, <1>4, <2>1, <2>2, Zenon
<1>9. Passed(lost)
  BY <1>8, Zenon DEF Passed, D
<1>10. QED
  BY <1>7, <1>9

\* The transfer of the cycle, when the frame is back.
LEMMA FrameOfTransfer ==
  ASSUME CycleInv, ~disturbed, NEW lost, Passed(lost), DevicesOk', tf' = tf,
         sockets'["tf"] = Got(Written(dev, "gp", lost), "tf", lost)
  PROVE  /\ Transferring(tf) /\ Good(sockets'["tf"]) => OnTheWay(sockets["tf"])'
         /\ tf.state = "Complete" => Reached' \/ TakenForBootstrap(tf)
<1> DEFINE D == Written(dev, "gp", lost)
           q == sockets["tf"]
           g == sockets'["tf"]
<1>1. /\ TransferOwn /\ TransferHolds /\ Alone /\ tf \in TransferTask /\ IsSocket(q)
      /\ tf.target \in Transfer!AlState /\ g = Got(D, "tf", lost)
  BY TaskFields DEF CycleInv, CycleTypes, TransferHolds, SocketsOk
<1>2. ASSUME NEW s \in Slave
      PROVE  /\ D[s].al = dev[s].al /\ D[s].err = dev[s].err /\ D[s].request = dev[s].request
             /\ dev'[s].al = dev[s].al
             /\ ~(Writes("tf", s, lost) /\ q.command.reg = "AlControl") =>
                  dev'[s].err = dev[s].err /\ dev'[s].request = dev[s].request
             /\ /\ Writes("tf", s, lost) /\ q.command.reg = "AlControl"
                /\ q.value \in Transfer!AlState
                => /\ dev'[s].err = (D[s].err /\ ~q.ack)
                   /\ dev'[s].request = IF D[s].err /\ ~q.ack THEN D[s].request
                                        ELSE IF q.value = dev[s].al THEN "none" ELSE q.value
  BY <1>1 DEF Passed, Alone, Writes, Sent
<1> HIDE DEF D
<1>3. ASSUME \A s \in Slave : dev'[s].err = dev[s].err /\ dev'[s].request = dev[s].request
      PROVE  /\ Settled' = Settled /\ ToInit' = ToInit /\ Off' = Off /\ Reset' = Reset
             /\ Requested' = Requested /\ Reached' = Reached
             /\ \A s \in Slave : (dev'[s].err => dev'[s].request = "none")
                                   = (dev[s].err => dev[s].request = "none")
  BY <1>2, <1>3 DEF Settled, ToInit, Off, Reset, Requested, Reached
<1>4. CASE ~Sent("tf")
  <2>1. \A s \in Slave : dev'[s].err = dev[s].err /\ dev'[s].request = dev[s].request
    BY <1>2, <1>4 DEF Writes
  <2>2. g = q
    BY <1>1, <1>4 DEF Got
  <2>3. QED
    BY <1>1, <1>3, <2>1, <2>2 DEF TransferHolds, OnTheWay, ReadTells, TakenForBootstrap
<1>5. CASE Sent("tf")
  <2>1. Transferring(tf) /\ Carries(q, tf) /\ tf.to = All
    BY <1>1, <1>5, EmptyType DEF TransferOwn, Sent
  <2>2. OnTheWay(q) /\ tf.state # "Complete"
    BY <1>1, <1>5, <2>1 DEF TransferHolds, Good, Sent, Transferring
  <2>3. SUFFICES ASSUME Good(g) PROVE OnTheWay(sockets["tf"])'
    BY <2>2
  <2>4. /\ g.stage = "answered" /\ g.slaves = q.slaves /\ g.wkc = Cardinality(q.slaves \ lost)
        /\ q.command.op = "read" =>
             g.bits = UNION {BitsOf(D[s], q.command.reg) : s \in q.slaves \ lost}
        /\ g.change_err = (/\ q.command = Cmd("read", q.command.all, "AlStatus")
                           /\ \E s \in q.slaves \ lost : D[s].err)
    <3> DEFINE G == Got(D, "tf", lost)
    <3>1. /\ G.stage = "answered" /\ G.slaves = q.slaves /\ G.wkc = Cardinality(q.slaves \ lost)
          /\ q.command.op = "read" =>
               G.bits = UNION {BitsOf(D[s], q.command.reg) : s \in q.slaves \ lost}
          /\ G.change_err = (/\ q.command = Cmd("read", q.command.all, "AlStatus")
                             /\ \E s \in q.slaves \ lost : D[s].err)
      BY <1>1, <1>5 DEF G, Got, IsSocket, Sent
    <3> HIDE DEF G
    <3>2. g = G
      BY <1>1 DEF G
    <3>3. QED
      BY <3>1, <3>2, Zenon
  <2>5. q.slaves = Slave /\ q.slaves \ lost = Slave
    <3>1. q.slaves = Slave
      BY <2>1 DEF Carries, All
    <3>2. QED
      BY <2>3, <2>4, <3>1, CountedReached DEF Good, Counted
  <2>6. /\ tf.state \in {"Read", "ResetError", "OffAck", "ResetSiiOwnership", "Request", "Poll"}
        /\ tf.reset \in Transfer!AlState
    BY <1>1, <2>1, TaskFields
  <2>7. CASE tf.state \in {"Read", "Poll"}
    <3>1. q.command.op = "read" /\ q.command.reg = "AlStatus"
      BY <2>1, <2>7 DEF Carries, Transfer!CommandOf
    <3>2. \A s \in Slave : dev'[s].err = dev[s].err /\ dev'[s].request = dev[s].request
      BY <1>2, <3>1
    <3> DEFINE al == [s \in Slave |-> dev[s].al]
               a == Transfer!AlStateFrom(g.bits)
    <3>3. g.bits = UNION {Transfer!Bits(al[s]) : s \in Slave}
      <4>1. \A s \in Slave : BitsOf(D[s], q.command.reg) = Transfer!Bits(al[s])
        BY <1>2, <3>1 DEF BitsOf
      <4>2. QED
        BY <2>4, <2>5, <3>1, <4>1
    <3>4. \A s \in Slave : IsDevice(dev[s]) /\ al[s] = dev[s].al /\ al[s] \in Transfer!AlState
      BY DEF CycleInv, CycleTypes, DevicesOk, IsDevice
    <3> HIDE DEF al
    <3>5. ASSUME a = tf.target PROVE Reached \/ TakenForBootstrap(tf)
      <4>1. All \in TargetSlave /\ All.slaves = Slave
        BY DEF TargetSlave, All
      <4>2. (\A s \in Slave : al[s] = tf.target) \/ TakenForBootstrap(tf)
        BY <1>1, <2>1, <3>3, <3>4, <3>5, <4>1, ReadFinds DEF TakenForBootstrap
      <4>3. SUFFICES ASSUME \A s \in Slave : dev[s].al = tf.target PROVE Reached
        BY <3>4, <4>2
      <4>4. \A s \in Slave : dev[s].request # tf.target
        BY <3>4, <4>3 DEF IsDevice
      <4>5. QED
        BY <2>2, <2>7, <4>3, <4>4 DEF OnTheWay, Settled, ToInit, Off, Requested, Reached
    <3>6. ASSUME a # tf.target, tf.state = "Read", g.change_err PROVE Off
      <4>1. PICK s \in Slave : dev[s].al # tf.target
        <5>1. All \in TargetSlave /\ All.slaves = Slave
          BY DEF TargetSlave, All
        <5>2. \E s \in Slave : al[s] # tf.target
          <6>1. Slave # {}
            BY <2>4, <2>5, <3>6
          <6>2. QED
            BY <1>1, <3>3, <3>6, <5>1, <6>1, ReadMisses
        <5>3. QED
          BY <3>4, <5>2
      <4>2. Settled => Off
        BY <1>1, <4>1 DEF Settled, Off, Transfer!AlState
      <4>3. ~ToInit
        BY <1>2, <2>4, <2>5, <3>6 DEF ToInit
      <4>4. QED
        BY <2>2, <3>6, <4>2, <4>3 DEF OnTheWay
    <3>7. ReadTells(sockets["tf"])'
      BY <1>3, <3>2, <3>5, <3>6 DEF ReadTells, TakenForBootstrap
    <3>8. QED
      BY <1>3, <2>2, <2>7, <3>2, <3>7 DEF OnTheWay
  <2>8. CASE tf.state = "ResetSiiOwnership"
    <3>1. \A s \in Slave : dev'[s].err = dev[s].err /\ dev'[s].request = dev[s].request
      BY <1>2, <2>1, <2>8 DEF Carries, Transfer!CommandOf
    <3>2. QED
      BY <1>3, <2>2, <2>8, <3>1 DEF OnTheWay
  <2>9. CASE tf.state \in {"ResetError", "OffAck", "Request"}
    <3> DEFINE v == IF tf.state = "Request" THEN tf.target ELSE tf.reset
               ack == tf.state = "ResetError"
    <3>1. /\ q.command.op = "write" /\ q.command.reg = "AlControl"
          /\ q.value = v /\ q.ack = ack /\ v \in Transfer!AlState
      BY <1>1, <1>5, <2>1, <2>6, <2>9 DEF Carries, Transfer!CommandOf, Sent
    <3>2. ASSUME NEW s \in Slave
          PROVE  /\ dev'[s].al = dev[s].al /\ dev'[s].err = (dev[s].err /\ ~ack)
                 /\ dev'[s].request = IF dev[s].err /\ ~ack THEN dev[s].request
                                      ELSE IF v = dev[s].al THEN "none" ELSE v
      BY <1>2, <1>5, <2>5, <3>1 DEF Writes
    <3>3. \A s \in Slave : dev[s].err => dev[s].request = "none"
      BY <2>2 DEF OnTheWay
    <3>4. tf.target # "none"
      BY <1>1 DEF Transfer!AlState
    <3>5. ASSUME NEW s \in Slave PROVE dev'[s].err => dev'[s].request = "none"
      BY <3>2, <3>3
    <3>6. CASE tf.state = "Request"
      <4>1. Requested'
        BY <3>2, <3>3, <3>6 DEF Requested
      <4>2. QED
        BY <3>5, <3>6, <4>1 DEF OnTheWay
    <3>7. CASE tf.state \in {"ResetError", "OffAck"} /\ tf.reset # tf.target
      <4>1. Off
        BY <1>5, <2>2, <3>7 DEF OnTheWay, Reset, Sent
      <4>2. Off'
        BY <3>2, <3>4, <3>7, <4>1 DEF Off
      <4>3. QED
        BY <2>4, <3>5, <3>7, <4>2 DEF OnTheWay, Reset
    <3>8. CASE tf.state \in {"ResetError", "OffAck"} /\ tf.reset = tf.target
      <4>1. /\ tf.target = "Init"
            /\ tf.state = "OffAck" => \A s \in Slave : ~dev[s].err
        BY <1>5, <2>2, <3>8 DEF OnTheWay, Reset, ToInit, Sent
      <4>2. ToInit'
        BY <3>2, <3>8, <4>1 DEF ToInit
      <4>3. QED
        BY <2>4, <3>5, <3>8, <4>2 DEF OnTheWay, Reset
    <3>9. QED
      BY <2>9, <3>6, <3>7, <3>8
  <2>10. QED
    BY <2>6, <2>7, <2>8, <2>9
<1>6. QED
  BY <1>4, <1>5

\* The call, when the frame is back.
LEMMA FrameOfCall ==
  ASSUME CycleInv, Calling, phase = "sent", phase' = "arrived", NEW lost, Passed(lost), DevicesOk',
         sockets'["gp"] = Got(dev, "gp", lost),
         call' = [call EXCEPT !.done = OwnDone(lost)]
  PROVE  IsCall(call') /\ call'.kind = call.kind /\ Calling' /\ CallOwn'
<1> DEFINE q == sockets["gp"]
           g == sockets'["gp"]
<1>1. IsSocket(q) /\ IsCall(call) /\ InStep(q) /\ CallOwn /\ call.to \in TargetSlave
  BY DEF CycleInv, CycleTypes, SocketsOk, IsCall
<1>2. OwnDone(lost) \in BOOLEAN
  BY DEF OwnDone
<1>3. /\ IsCall(call') /\ call'.kind = call.kind /\ call'.to = call.to /\ call'.reg = call.reg
      /\ call'.value = call.value /\ call'.state = call.state /\ call'.command = call.command
      /\ call'.al = call.al /\ call'.met = call.met /\ call'.stale = call.stale
      /\ call'.done = OwnDone(lost)
  BY <1>1, <1>2, SMTT(30) DEF IsCall
<1>4. /\ ~Sent("gp") => g = q
      /\ Sent("gp") =>
           /\ g.stage = "answered" /\ g.command = q.command /\ g.slaves = q.slaves
           /\ g.wkc = Cardinality(q.slaves \ lost)
  BY <1>1, GotSocket
<1>5. call'.state = "Busy"
  BY <1>3 DEF Calling
<1>6. ASSUME call.kind = "read_al_state"
      PROVE  call'.stale \/ g.stage = "idle"
  BY <1>1, <1>3, <1>4, <1>6 DEF CallOwn, Sent
<1>7. ASSUME NEW c, Leftover(q, c) PROVE Leftover(g, c)
  BY <1>4, <1>7 DEF Leftover, Sent
<1>8. ASSUME call.kind \in {"read_register", "write_register"}, OwnRegister(q)
      PROVE  OwnRegister(sockets["gp"])'
  <2>1. Sent("gp")
    BY <1>1, <1>8 DEF OwnRegister, InStep, IsSocket, Sent
  <2>2. /\ g.stage = "answered" /\ g.command = RegisterCommand' /\ g.slaves = call'.to.slaves
        /\ call'.command = RegisterCommand'
    BY <1>3, <1>4, <1>8, <2>1 DEF OwnRegister, RegisterCommand
  <2>3. SUFFICES ASSUME Counted(g) PROVE call'.done /\ (call.reg = "Reg" => InRegister(sockets["gp"])')
    BY <1>3, <2>2 DEF OwnRegister
  <2>4. q.slaves \cap lost = {} /\ q.slaves \ lost = q.slaves /\ q.slaves \in SUBSET Slave
    BY <1>1, <1>4, <2>1, <2>3, CountedReached DEF Counted, IsSocket
  <2>5. call'.done
    BY <1>3, <1>8, <2>1, <2>4 DEF OwnDone, OwnRegister, RegisterCommand, Sent
  <2>6. ASSUME call.reg = "Reg", NEW s \in call.to.slaves
        PROVE  (IF call.kind = "read_register" THEN g.value ELSE call.value)
                  \in {dev'[s].reg, "mixed"}
    <3>1. s \in q.slaves \ lost /\ s \in Slave /\ q.command.reg = "Reg"
      BY <1>8, <2>4, <2>6 DEF OwnRegister, RegisterCommand, Cmd
    <3>2. CASE call.kind = "read_register"
      <4>1. q.command.op = "read"
        BY <1>8, <3>2 DEF OwnRegister, RegisterCommand, Cmd
      <4>2. g.value \in {dev[s].reg, "mixed"}
        BY <1>1, <2>1, <3>1, <4>1, ReadValue
      <4>3. dev'[s].reg = dev[s].reg
        BY <3>1, <4>1 DEF Passed, Writes
      <4>4. QED
        BY <3>2, <4>2, <4>3
    <3>3. CASE call.kind = "write_register"
      <4>1. q.command.op = "write" /\ q.value = call.value
        BY <1>8, <2>1, <3>3 DEF OwnRegister, RegisterCommand, Cmd, Sent
      <4>2. dev'[s].reg = q.value
        BY <2>1, <3>1, <4>1 DEF Passed, Writes
      <4>3. QED
        BY <3>3, <4>1, <4>2
    <3>4. QED
      BY <1>8, <3>2, <3>3
  <2>7. QED
    BY <1>3, <2>5, <2>6 DEF InRegister
<1>9. ASSUME call.kind = "change_al_state", call.al.to = call.to, Transferring(call.al),
             OwnTransfer(q)
      PROVE  OwnTransfer(sockets["gp"])'
  <2>1. Sent("gp")
    BY <1>1, <1>9 DEF OwnTransfer, Carries, InStep, IsSocket, Sent
  <2>2. Carries(g, call'.al) /\ g.stage = "answered"
    BY <1>3, <1>4, <1>9, <2>1 DEF OwnTransfer, Carries
  <2>3. SUFFICES ASSUME Counted(g), call.al.state \in {"Read", "Poll"},
                        Transfer!AlStateFrom(g.bits) = call.al.target
                 PROVE  call'.done \/ TakenForBootstrap(call.al)
    BY <1>3, <2>2 DEF OwnTransfer, TakenForBootstrap
  <2>4. q.slaves \cap lost = {} /\ q.slaves \ lost = q.slaves /\ q.slaves \in SUBSET Slave
    BY <1>1, <1>4, <2>1, <2>3, CountedReached DEF Counted, IsSocket
  <2>5. q.command.op = "read" /\ q.command.reg = "AlStatus" /\ q.slaves = call.to.slaves
    BY <1>9, <2>3 DEF OwnTransfer, Carries, Transfer!CommandOf
  <2> DEFINE al == [s \in Slave |-> dev[s].al]
             to == call.to
  <2>6. g.bits = UNION {Transfer!Bits(al[s]) : s \in to.slaves}
    <3>1. g.bits = UNION {BitsOf(dev[s], q.command.reg) : s \in q.slaves \ lost}
      BY <1>1, <2>1, <2>5 DEF Got, IsSocket
    <3>2. \A s \in q.slaves : BitsOf(dev[s], q.command.reg) = Transfer!Bits(al[s])
      BY <2>4, <2>5 DEF BitsOf
    <3> DEFINE B(s) == BitsOf(dev[s], q.command.reg)
    <3>3. g.bits = UNION {B(s) : s \in to.slaves} /\ \A s \in to.slaves : B(s) = Transfer!Bits(al[s])
      BY <2>4, <2>5, <3>1, <3>2
    <3> HIDE DEF B, al, g, q, to
    <3>4. QED
      BY <3>3
  <2>7. \A s \in to.slaves : al[s] = dev[s].al /\ al[s] \in Transfer!AlState
    BY <2>4, <2>5 DEF CycleInv, CycleTypes, DevicesOk, IsDevice
  <2>8. call.al.target \in Transfer!AlState
    BY <1>1, TaskFields DEF IsCall
  <2> HIDE DEF al
  <2>9. (\A s \in to.slaves : al[s] = call.al.target) \/ TakenForBootstrap(call.al)
    BY <1>1, <1>9, <2>3, <2>6, <2>7, <2>8, ReadFinds DEF TakenForBootstrap
  <2>10. ASSUME \A s \in to.slaves : al[s] = call.al.target PROVE OwnDone(lost)
    BY <1>9, <2>1, <2>4, <2>5, <2>7, <2>10 DEF OwnDone
  <2>11. QED
    BY <1>3, <2>9, <2>10
<1>10. CallOwn'
  <2>1. call'.state # "Ok"
    BY <1>5
  <2>2. ASSUME call.kind \in {"read_register", "write_register"}
        PROVE  \/ call'.met \/ Leftover(g, call'.command) \/ OwnRegister(sockets["gp"])'
    BY <1>1, <1>3, <1>7, <1>8, <2>2 DEF CallOwn
  <2>3. ASSUME call.kind = "change_al_state"
        PROVE  /\ call'.al.to = call'.to /\ Transferring(call'.al)
               /\ \/ call'.met \/ Leftover(g, call'.al.command) \/ OwnTransfer(sockets["gp"])'
    BY <1>1, <1>3, <1>7, <1>9, <2>3 DEF CallOwn
  <2>4. QED
    BY <1>3, <1>6, <2>1, <2>2, <2>3 DEF CallOwn, Leftover, Transferring
<1>11. QED
  BY <1>3, <1>5, <1>10 DEF Calling

LEMMA ArriveKeeps ==
  ASSUME CycleInv, Arrive
  PROVE  CycleInv'
<1>1. phase = "sent" /\ phase' = "arrived" /\ UNCHANGED <<tf, disturbed>>
  BY DEF Arrive, history
<1>2. PICK lost :
        /\ sockets' = [h \in Handle |->
                         Got(IF h = "tf" THEN Written(dev, "gp", lost) ELSE dev, h, lost)]
        /\ LET d == Written(Written(dev, "gp", lost), "tf", lost)
           IN dev' = [s \in Slave |-> IF pd.stage = "sent" /\ s \notin lost
                                      THEN [d[s] EXCEPT !.out = pd.sent] ELSE d[s]]
        /\ call' = [call EXCEPT !.done = IF Calling THEN OwnDone(lost) ELSE @]
  BY DEF Arrive
<1> DEFINE q == sockets["gp"]
           g == sockets'["gp"]
           p == sockets["tf"]
           r == sockets'["tf"]
<1>3. /\ sockets' = [h \in Handle |-> sockets'[h]] /\ g = Got(dev, "gp", lost)
      /\ r = Got(Written(dev, "gp", lost), "tf", lost)
  BY <1>2 DEF Handle
<1>4. DevicesOk' /\ Passed(lost)
  BY <1>2, FramePassed
<1>5. /\ IsSocket(q) /\ IsSocket(p) /\ InStep(q) /\ InStep(p) /\ IsCall(call) /\ CallOwn
      /\ call.to \in TargetSlave
  BY DEF CycleInv, CycleTypes, SocketsOk, IsCall
<1>6. /\ IsSocket(g) /\ (~Sent("gp") => g = q) /\ (Sent("gp") => g.stage = "answered")
  BY <1>3, <1>5 DEF Got, IsSocket, Sent
<1>7. /\ IsSocket(r) /\ (~Sent("tf") => r = p)
      /\ Sent("tf") => r.stage = "answered" /\ r.command = p.command /\ r.slaves = p.slaves
  BY <1>3, <1>5 DEF Got, IsSocket, Sent
<1>8. ~Calling => call' = call
  BY <1>2, <1>5 DEF IsCall
<1>9. Calling => IsCall(call') /\ call'.kind = call.kind /\ Calling' /\ CallOwn'
  BY <1>1, <1>2, <1>3, <1>4, FrameOfCall
<1>10. CycleTypes'
  <2>1. IsCall(call')
    BY <1>5, <1>8, <1>9
  <2>2. InStep(sockets["gp"])' /\ InStep(sockets["tf"])'
    BY <1>1, <1>5, <1>6, <1>7 DEF InStep, Sent
  <2>3. QED
    BY <1>1, <1>3, <1>4, <1>6, <1>7, <2>1, <2>2 DEF CycleInv, CycleTypes, SocketsOk
<1>11. TransferOwn'
  <2>1. CASE ~Sent("tf")
    BY <1>1, <1>7, <2>1, TransferFrame DEF CycleInv
  <2>2. CASE Sent("tf")
    <3>1. Transferring(tf) /\ Carries(p, tf) /\ tf.to = All
      BY <2>2, EmptyType DEF CycleInv, TransferOwn, Sent
    <3>2. QED
      BY <1>1, <1>7, <2>2, <3>1 DEF TransferOwn, Transferring, Carries
  <2>3. QED
    BY <2>1, <2>2
<1>12. ASSUME call.state = "Ok", call.kind \in {"read_register", "write_register"}
       PROVE  g.stage = "idle" /\ \A s \in call.to.slaves : dev'[s].reg = dev[s].reg
  <2>1. q.stage = "idle" /\ ~Sent("gp")
    BY <1>5, <1>12 DEF CallOwn, Sent
  <2>2. call.to.slaves \in SUBSET Slave
    BY <1>5, TargetSlaves
  <2>3. QED
    BY <1>4, <1>6, <2>1, <2>2 DEF Passed, Writes
<1>13. CallOwn' /\ CallOkIsDone'
  <2>1. CASE Calling
    BY <1>9, <2>1 DEF Calling, CallOkIsDone
  <2>2. CASE ~Calling
    <3>1. call' = call
      BY <1>8, <2>2
    <3>2. CallOwn'
      BY <1>12, <2>2, <3>1 DEF CallOwn, Calling
    <3>3. CallOkIsDone'
      BY <1>12, <3>1 DEF CycleInv, CallOkIsDone, TakenForBootstrap
    <3>4. QED
      BY <3>2, <3>3
  <2>3. QED
    BY <2>1, <2>2
<1>14. TransferHolds'
  <2>1. SUFFICES ASSUME ~disturbed PROVE TransferHolds'
    BY <1>1 DEF TransferHolds
  <2>2. Alone'
    <3>1. g.stage \notin {"queued", "sent"}
      BY <1>1, <1>5, <1>6 DEF InStep, Sent
    <3>2. Calling' => call'.kind # "change_al_state"
      BY <1>8, <1>9, <2>1 DEF CycleInv, TransferHolds, Alone, Calling
    <3>3. QED
      BY <3>1, <3>2 DEF Alone
  <2>3. /\ Transferring(tf) /\ Good(r) => OnTheWay(sockets["tf"])'
        /\ tf.state = "Complete" => Reached' \/ TakenForBootstrap(tf)
    BY <1>1, <1>3, <1>4, <2>1, FrameOfTransfer
  <2>4. QED
    BY <1>1, <2>2, <2>3 DEF TransferHolds, TakenForBootstrap, Transferring, Good, Counted
<1>15. QED
  BY <1>10, <1>11, <1>13, <1>14 DEF CycleInv

LEMMA CycleKeeps == CycleInv /\ [Next]_vars => CycleInv'
<1>1. SUFFICES ASSUME CycleInv, [Next]_vars PROVE CycleInv'
  OBVIOUS
<1>2. CASE \E a \in AlTarget : RequestAlState(a)
  BY <1>1, <1>2, RequestAlStateKeeps
<1>3. CASE ReadRegister \/ WriteRegister \/ ReadAlState \/ ChangeAlState
  BY <1>1, <1>3, CallsKeep
<1>4. CASE GiveUp
  BY <1>1, <1>4, GiveUpKeeps
<1>5. CASE \/ \E fits \in BOOLEAN : RegisterBuffer(fits)
           \/ \E ok \in BOOLEAN : Configure(ok)
           \/ \E v \in Output : WritePdo(v)
           \/ \E m \in Message : RequestMailbox(m)
           \/ Tick \/ MailboxSlaveActs
           \/ UNCHANGED vars
  <2>1. UNCHANGED <<phase, sockets, tf, call, dev, disturbed>>
    <3>1. CASE \/ \E fits \in BOOLEAN : RegisterBuffer(fits)
               \/ \E ok \in BOOLEAN : Configure(ok)
      BY <3>1, Zenon DEF RegisterBuffer, Configure, history
    <3>2. CASE \E v \in Output : WritePdo(v)
      BY <3>2 DEF WritePdo
    <3>3. CASE (\E m \in Message : RequestMailbox(m)) \/ MailboxSlaveActs
      BY <3>3 DEF RequestMailbox, MailboxSlaveActs, history
    <3>4. CASE Tick
      BY <3>4 DEF Tick, history
    <3>5. CASE UNCHANGED vars
      BY <3>5 DEF vars, history
    <3>6. QED
      BY <1>5, <3>1, <3>2, <3>3, <3>4, <3>5
  <2>2. QED
    BY <1>1, <2>1, OtherKeeps
<1>6. CASE Send
  BY <1>1, <1>6, SendKeeps
<1>7. CASE Arrive
  BY <1>1, <1>7, ArriveKeeps
<1>8. CASE Process
  BY <1>1, <1>8, ProcessKeeps
<1>9. CASE CallStep
  <2>1. AddressAccess \/ AlStateRead \/ AlStateChanged
    BY <1>9 DEF CallStep
  <2>2. QED
    BY <1>1, <1>9, <2>1, AddressAccessKeeps, AlStateReadKeeps, AlStateChangedKeeps
<1>10. CASE \E s \in Slave : SlaveReacts(s)
  BY <1>1, <1>10, SlaveReactsKeeps
<1>11. QED
  BY <1>1, <1>2, <1>3, <1>4, <1>5, <1>6, <1>7, <1>8, <1>9, <1>10 DEF Next

\* The invariant holds in every state that the master and its slaves can reach.
THEOREM CycleInvariance == Spec => []CycleInv
<1>1. Init => CycleInv
  BY CycleInitially
<1>2. CycleInv /\ [Next]_vars => CycleInv'
  BY CycleKeeps
<1>3. QED
  BY <1>1, <1>2, PTL DEF Spec

\* Whatever calls were given up before it, with their PDUs still in the general purpose socket,
\* and whatever PDUs slaves have missed: a call that returns Ok has done what it was asked for,
\* with the exceptions that CallOkIsDone names.
THEOREM CallOkAlwaysDone == Spec => []CallOkIsDone
<1>1. CycleInv => CallOkIsDone
  BY DEF CycleInv
<1>2. QED
  BY <1>1, CycleInvariance, PTL

\* When al_tf_task completes in the cycle, all slaves are in the target state, however the
\* rounds, the calls and the reactions of the slaves were interleaved.
THEOREM TransferAlwaysHolds == Spec => []CycleTransferHolds
<1>1. CycleInv => CycleTransferHolds
  BY DEF CycleInv, TransferHolds, CycleTransferHolds, Reached
<1>2. QED
  BY <1>1, CycleInvariance, PTL

============================================================================

--------------------------- MODULE SocketInterface ---------------------------
(***************************************************************************)
(* interface/socket_if.rs and interface/pdu_if.rs: the sockets through     *)
(* which the tasks of the master exchange PDUs with the slaves, and the    *)
(* one Ethernet frame that carries the PDUs of all sockets.                *)
(*                                                                         *)
(* A task puts a command into its socket (set_pdu).  poll_tx_rx moves the  *)
(* commands of all sockets into the frame buffer (enqueue_pdus), hands the *)
(* buffer to the device (transmit_one_frame), takes one frame from it      *)
(* (receive_one_frame) and, when all PDUs are back, gives each one to the  *)
(* socket its index names.  A poll that returns early leaves the buffer    *)
(* and the counters for the next one.  One iteration of the enqueue loop,  *)
(* the transmission and the reception with the delivery are one step each, *)
(* because the network acts between them.                                  *)
(*                                                                         *)
(* The payload and the working counter of a PDU are copied but never       *)
(* looked at here and are left out.  Arithmetic is that of a build with    *)
(* overflow checks: where usize would wrap, the program panics.            *)
(***************************************************************************)
EXTENDS Integers, Sequences, FiniteSets

CONSTANTS
  NumSockets,     \* the const generic N of SocketInterface
  Command,        \* the commands the tasks send
  NoCommand,      \* Option::None in a socket
  NoSocket,       \* a slot of the socket set without a socket
  Length,         \* Length[c]: data bytes of command c
  Overhead,       \* EtherCatPdu::HEADER_SIZE + WKC_LENGTH, 12 bytes
  BufferLen,      \* length of the frame buffer
  MaxDatagram,    \* MAX_ETHERCAT_DATAGRAM, 1498 bytes
  Faults          \* the faults of device and network: a subset of FaultKind

FaultKind == {"lose", "tx", "rx"}

ASSUME NumSocketsAssumption == NumSockets \in 0 .. 255

ASSUME CommandAssumption == NoCommand \notin Command

ASSUME NoSocketAssumption ==
  NoSocket \notin [command : Command \cup {NoCommand},
                   data_length : Nat, recv_flag : BOOLEAN]

\* No PDU is empty: read_register would send one if asked for 0 bytes, and the iterators over
\* the PDUs of a frame stop at it.
ASSUME LengthAssumption == Length \in [Command -> Nat \ {0}]

ASSUME SizeAssumption ==
  Overhead \in Nat /\ BufferLen \in Nat /\ MaxDatagram \in Nat

ASSUME FaultsAssumption == Faults \subseteq FaultKind

VARIABLES
  free_index, next, sockets,  \* the IndexSet of sockets
  handle,                     \* what add_socket or remove_socket returned
  buffer,                     \* the PDUs in the first pdus_total_size bytes
  pdus_total_size, pdu_count, tx_count,
  received,                   \* how many PDUs of buffer are received (recv_data_size)
  pc,                         \* where poll_tx_rx stands
  cursor,                     \* slot the enqueue loop looks at
  index,                      \* its enumerate() counter
  complete,                   \* its result
  tx_ok,                      \* is_tx_ok of transmit_and_receive
  polled,                     \* what the last poll_tx_rx returned
  lost_frame_count,
  wire,                       \* frames sent and not yet received, oldest first
  fault,                      \* history: a frame is gone
  asked                       \* history: the command each socket was last given

setVars == <<free_index, next, sockets, handle>>
frameVars == <<buffer, pdus_total_size, pdu_count, tx_count, received>>
pollVars == <<pc, cursor, index, complete, tx_ok, polled>>
netVars == <<wire, fault>>
vars == <<setVars, frameVars, pollVars, netVars, lost_frame_count, asked>>

----------------------------------------------------------------------------
Slot == 0 .. NumSockets - 1

Socket == [command : Command \cup {NoCommand}, data_length : Nat, recv_flag : BOOLEAN]

Pdu == [index : 0 .. 255, command : Command, length : Nat]

\* PduSocket::new
NewSocket == [command |-> NoCommand, data_length |-> 0, recv_flag |-> FALSE]

SocketSet == INSTANCE IndexSet WITH
  N <- NumSockets, Item <- Socket, NoItem <- NoSocket,
  items <- sockets, result <- handle

\* PduInterface::new
Capacity == IF BufferLen < MaxDatagram THEN BufferLen ELSE MaxDatagram

\* PduSocket::data_length
DataLength(s) == IF s.command # NoCommand THEN s.data_length ELSE 0

\* take_pdu returns the command of a socket that waits for its transmission.
Takes(s) == s.command # NoCommand /\ ~s.recv_flag

PollResult == {"none", "true", "false", "TxNotAvailable", "TxError",
               "RxNotAvailable", "RxError"}

PanicReason == {"remaining", "expect", "wkc", "pdu_count", "tx_count"}

SetType ==
  /\ free_index \in 0 .. NumSockets
  /\ next \in [Slot -> 0 .. NumSockets]
  /\ sockets \in [Slot -> Socket \cup {NoSocket}]

FrameType ==
  /\ buffer \in Seq(Pdu)
  /\ pdus_total_size \in 0 .. Capacity
  /\ pdu_count \in Nat
  /\ tx_count \in Nat
  /\ received \in Nat

PollType ==
  /\ pc \in {"idle", "enqueue", "transmit", "receive"} \cup PanicReason
  /\ cursor \in 0 .. NumSockets
  /\ index \in 0 .. cursor
  /\ complete \in BOOLEAN
  /\ tx_ok \in BOOLEAN
  /\ polled \in PollResult

OtherType ==
  /\ wire \in Seq(Seq(Pdu))
  /\ fault \in BOOLEAN
  /\ lost_frame_count \in Nat
  /\ asked \in [Slot -> Command \cup {NoCommand}]

TypeOK == SetType /\ FrameType /\ PollType /\ OtherType

Init ==
  /\ free_index = 0
  /\ next = [i \in Slot |-> i + 1]
  /\ sockets = [i \in Slot |-> NoSocket]
  /\ handle = <<"new">>
  /\ buffer = <<>>
  /\ pdus_total_size = 0
  /\ pdu_count = 0
  /\ tx_count = 0
  /\ received = 0
  /\ pc = "idle"
  /\ cursor = 0
  /\ index = 0
  /\ complete = TRUE
  /\ tx_ok = TRUE
  /\ polled = "none"
  /\ lost_frame_count = 0
  /\ wire = <<>>
  /\ fault = FALSE
  /\ asked = [i \in Slot |-> NoCommand]

----------------------------------------------------------------------------
(* The users of the sockets. *)

\* add_socket
AddSocket ==
  /\ pc = "idle"
  /\ SocketSet!AddItem(NewSocket)
  /\ UNCHANGED <<frameVars, pollVars, netVars, lost_frame_count, asked>>

\* remove_socket.  Nothing under src/src calls it.
RemoveSocket(h) ==
  /\ pc = "idle"
  /\ SocketSet!RemoveItem(h)
  /\ asked' = [asked EXCEPT ![h] = NoCommand]
  /\ UNCHANGED <<frameVars, pollVars, netVars, lost_frame_count>>

\* Mutant: a task is stepped whatever the poll returned.
MayStepAlways == pc = "idle"

\* block_on and EtherCatMaster::process step a task only when the poll before
\* returned Ok(true); the example steps it before the first poll.
MayStep == pc = "idle" /\ polled \in {"none", "true"}

\* set_pdu with a command, the end of process_one_step.
Submit(h, c) ==
  /\ MayStep
  /\ sockets[h] # NoSocket
  /\ sockets' = [sockets EXCEPT ![h] =
       [command |-> c, data_length |-> Length[c], recv_flag |-> FALSE]]
  /\ asked' = [asked EXCEPT ![h] = c]
  /\ UNCHANGED <<free_index, next, handle, frameVars, pollVars, netVars, lost_frame_count>>

\* set_pdu without one: the task has nothing to send.
Withdraw(h) ==
  /\ MayStep
  /\ sockets[h] # NoSocket
  /\ sockets' = [sockets EXCEPT ![h] = NewSocket]
  /\ asked' = [asked EXCEPT ![h] = NoCommand]
  /\ UNCHANGED <<free_index, next, handle, frameVars, pollVars, netVars, lost_frame_count>>

----------------------------------------------------------------------------
(* poll_tx_rx: enqueue_pdus *)

\* Mutant: the counter of the loop goes on where the last poll left it.
StartPollContinues ==
  /\ pc = "idle"
  /\ pc' = "enqueue"
  /\ cursor' = 0
  /\ complete' = TRUE
  /\ UNCHANGED <<setVars, frameVars, index, tx_ok, polled, netVars, lost_frame_count, asked>>

StartPoll ==
  /\ pc = "idle"
  /\ pc' = "enqueue"
  /\ cursor' = 0
  /\ index' = 0
  /\ complete' = TRUE
  /\ UNCHANGED <<setVars, frameVars, tx_ok, polled, netVars, lost_frame_count, asked>>

\* A panic ends the program; what it leaves behind is of no interest.
Panic(reason) == pc' = reason

\* remainig_pdu_data_capacity, negative where the usize subtraction overflows.
Remaining == Capacity - pdus_total_size - Overhead

\* The loop reaches a socket.
AtSocket == pc = "enqueue" /\ cursor < NumSockets /\ sockets[cursor] # NoSocket

\* items_mut passes over a slot without a socket.
EnqueueSkip ==
  /\ pc = "enqueue" /\ cursor < NumSockets /\ sockets[cursor] = NoSocket
  /\ cursor' = cursor + 1
  /\ UNCHANGED <<setVars, frameVars, pc, index, complete, tx_ok, polled, netVars,
                 lost_frame_count, asked>>

\* The subtraction in remainig_pdu_data_capacity overflows.
EnqueueOverflow ==
  /\ AtSocket
  /\ Remaining < 0
  /\ Panic("remaining")
  /\ UNCHANGED <<setVars, frameVars, cursor, index, complete, tx_ok, polled, netVars,
                 lost_frame_count, asked>>

\* Mutant: the loop ends early without saying so.
EnqueueBreakSilent ==
  /\ AtSocket
  /\ Remaining >= 0 /\ Remaining < DataLength(sockets[cursor])
  /\ pc' = "transmit"
  /\ UNCHANGED <<setVars, frameVars, cursor, index, complete, tx_ok, polled, netVars,
                 lost_frame_count, asked>>

\* The PDU does not fit: the loop ends early.
EnqueueBreak ==
  /\ AtSocket
  /\ Remaining >= 0 /\ Remaining < DataLength(sockets[cursor])
  /\ complete' = FALSE
  /\ pc' = "transmit"
  /\ UNCHANGED <<setVars, frameVars, cursor, index, tx_ok, polled, netVars,
                 lost_frame_count, asked>>

\* take_pdu and add_pdu of the socket at the cursor.  A PDU longer than
\* MAX_PDU_DATAGRAM = MAX_ETHERCAT_DATAGRAM - 12 exceeds the capacity as well.
EnqueueTake ==
  LET s == sockets[cursor]
      size == Overhead + s.data_length
  IN
  /\ AtSocket
  /\ Remaining >= DataLength(s)
  /\ Takes(s)
  /\ IF pdus_total_size + size > Capacity
     THEN Panic("expect") /\ UNCHANGED <<sockets, frameVars, cursor, index>>
     ELSE IF pdus_total_size + size >= BufferLen   \* index of the second WKC byte written
     THEN Panic("wkc") /\ UNCHANGED <<sockets, frameVars, cursor, index>>
     ELSE /\ sockets' = [sockets EXCEPT ![cursor].command = NoCommand]
          /\ buffer' = Append(buffer, [index |-> index % 256, command |-> s.command,
                                       length |-> s.data_length])
          /\ pdus_total_size' = pdus_total_size + size
          /\ pdu_count' = pdu_count + 1
          /\ cursor' = cursor + 1
          /\ index' = index + 1
          /\ UNCHANGED <<tx_count, received, pc>>
  /\ UNCHANGED <<free_index, next, handle, complete, tx_ok, polled, netVars,
                 lost_frame_count, asked>>

\* The socket has nothing to send.
EnqueuePass ==
  /\ AtSocket
  /\ Remaining >= DataLength(sockets[cursor])
  /\ ~Takes(sockets[cursor])
  /\ cursor' = cursor + 1
  /\ index' = index + 1
  /\ UNCHANGED <<setVars, frameVars, pc, complete, tx_ok, polled, netVars,
                 lost_frame_count, asked>>

EnqueueEnd ==
  /\ pc = "enqueue" /\ cursor = NumSockets
  /\ pc' = "transmit"
  /\ UNCHANGED <<setVars, frameVars, cursor, index, complete, tx_ok, polled, netVars,
                 lost_frame_count, asked>>

----------------------------------------------------------------------------
(* poll_tx_rx: transmit_one_frame *)

Return(r) == pc' = "idle" /\ polled' = r

TransmitNothing ==
  /\ pc = "transmit"
  /\ pdu_count = 0
  /\ pc' = "receive"
  /\ tx_ok' = TRUE
  /\ UNCHANGED <<setVars, frameVars, cursor, index, complete, polled, netVars,
                 lost_frame_count, asked>>

TransmitUnavailable ==
  /\ pc = "transmit"
  /\ pdu_count > 0
  /\ Return("TxNotAvailable")
  /\ UNCHANGED <<setVars, frameVars, cursor, index, complete, tx_ok, netVars,
                 lost_frame_count, asked>>

\* The closure that fills the frame counts every PDU of the buffer.
CountTransmitted ==
  /\ tx_count' = tx_count + Len(buffer)
  /\ pdu_count' = pdu_count - Len(buffer)
  /\ UNCHANGED <<buffer, pdus_total_size, received>>

TransmitFrame ==
  /\ pc = "transmit"
  /\ pdu_count > 0
  /\ IF Len(buffer) > pdu_count
     THEN Panic("pdu_count") /\ UNCHANGED <<frameVars, tx_ok, wire>>
     ELSE /\ CountTransmitted
          /\ tx_ok' = (tx_count' >= pdu_count')
          /\ wire' = Append(wire, buffer)
          /\ pc' = "receive"
  /\ UNCHANGED <<setVars, cursor, index, complete, polled, fault, lost_frame_count, asked>>

\* consume reports an error before or after it ran the closure; nothing is sent.
TransmitError(filled) ==
  /\ "tx" \in Faults
  /\ pc = "transmit"
  /\ pdu_count > 0
  /\ IF filled /\ Len(buffer) > pdu_count
     THEN Panic("pdu_count") /\ UNCHANGED <<frameVars, polled, fault>>
     ELSE /\ Return("TxError")
          /\ IF filled
             THEN CountTransmitted /\ fault' = TRUE
             ELSE UNCHANGED <<frameVars, fault>>
  /\ UNCHANGED <<setVars, cursor, index, complete, tx_ok, wire, lost_frame_count, asked>>

----------------------------------------------------------------------------
(* poll_tx_rx: receive_one_frame and the delivery to the sockets *)

\* PduSocket::recieve
Recieve(s, pdu) == [s EXCEPT !.command = pdu.command, !.recv_flag = TRUE]

\* Mutant: the PDUs are dealt out in the order of the buffer, not by their index.
DeliverInOrder(pdus) ==
  sockets' = [h \in Slot |->
    IF sockets[h] # NoSocket /\ h + 1 \in DOMAIN pdus
    THEN Recieve(sockets[h], pdus[h + 1]) ELSE sockets[h]]

\* The last PDU with index h, if there is one.
Latest(pdus, h) ==
  {k \in DOMAIN pdus : /\ pdus[k].index = h
                       /\ \A l \in DOMAIN pdus : pdus[l].index = h => l <= k}

\* Every PDU goes to the socket in the slot its index names.
Deliver(pdus) ==
  sockets' = [h \in Slot |->
    IF sockets[h] = NoSocket \/ Latest(pdus, h) = {}
    THEN sockets[h]
    ELSE Recieve(sockets[h], pdus[CHOOSE k \in Latest(pdus, h) : TRUE])]

\* Mutant: the size of the frame is not reset.
FinishKeepsSize(pdus) ==
  /\ Deliver(pdus)
  /\ buffer' = <<>>
  /\ received' = 0
  /\ Return(IF complete THEN "true" ELSE "false")
  /\ UNCHANGED pdus_total_size

\* The end of transmit_and_receive when all is sent and received: consume_pdus.
Finish(pdus) ==
  /\ Deliver(pdus)
  /\ buffer' = <<>>
  /\ pdus_total_size' = 0
  /\ received' = 0
  /\ Return(IF complete THEN "true" ELSE "false")

ReceiveNothing ==
  /\ pc = "receive"
  /\ tx_count = 0
  /\ IF tx_ok
     THEN Finish(buffer)
     ELSE Return("false") /\ UNCHANGED <<sockets, buffer, pdus_total_size, received>>
  /\ UNCHANGED <<free_index, next, handle, pdu_count, tx_count, cursor, index, complete,
                 tx_ok, netVars, lost_frame_count, asked>>

ReceiveUnavailable ==
  /\ pc = "receive"
  /\ tx_count > 0
  /\ Return("RxNotAvailable")
  /\ UNCHANGED <<setVars, frameVars, cursor, index, complete, tx_ok, netVars,
                 lost_frame_count, asked>>

\* The frame comes from this master itself or is not an EtherCAT frame.
ReceiveIgnored ==
  /\ pc = "receive"
  /\ tx_count > 0
  /\ Return("false")
  /\ UNCHANGED <<setVars, frameVars, cursor, index, complete, tx_ok, netVars,
                 lost_frame_count, asked>>

\* The device fails to hand over a frame; a frame it had is gone.
ReceiveError ==
  /\ "rx" \in Faults
  /\ pc = "receive"
  /\ tx_count > 0
  /\ Return("RxError")
  /\ IF wire = <<>> THEN UNCHANGED netVars ELSE wire' = Tail(wire) /\ fault' = TRUE
  /\ UNCHANGED <<setVars, frameVars, cursor, index, complete, tx_ok,
                 lost_frame_count, asked>>

\* buffer with the PDUs of frame copied behind those already received.
CopiedIn(frame) ==
  [k \in 1 .. Len(buffer) |->
    IF k - received \in DOMAIN frame THEN frame[k - received] ELSE buffer[k]]

ReceiveFrame ==
  LET frame == Head(wire) IN
  /\ pc = "receive"
  /\ tx_count > 0
  /\ wire # <<>>
  /\ wire' = Tail(wire)
  /\ IF Len(frame) > tx_count
     THEN Panic("tx_count") /\ UNCHANGED <<sockets, frameVars, polled>>
     ELSE /\ tx_count' = tx_count - Len(frame)
          /\ IF tx_count' = 0 /\ tx_ok
             THEN Finish(CopiedIn(frame))
             ELSE /\ buffer' = CopiedIn(frame)
                  /\ received' = received + Len(frame)
                  /\ Return("false")
                  /\ UNCHANGED <<sockets, pdus_total_size>>
          /\ UNCHANGED pdu_count
  /\ UNCHANGED <<free_index, next, handle, cursor, index, complete, tx_ok, fault,
                 lost_frame_count, asked>>

----------------------------------------------------------------------------
(* The network, external: a frame passes through the slaves and comes back *)
(* unless it is lost.                                                      *)
LoseFrame ==
  /\ "lose" \in Faults
  /\ wire # <<>>
  /\ wire' = Tail(wire)
  /\ fault' = TRUE
  /\ UNCHANGED <<setVars, frameVars, pollVars, lost_frame_count, asked>>

User ==
  \/ AddSocket
  \/ \E h \in Slot : Withdraw(h) \/ \E c \in Command : Submit(h, c)

EnqueuePdus ==
  \/ EnqueueSkip \/ EnqueueOverflow \/ EnqueueBreak
  \/ EnqueueTake \/ EnqueuePass \/ EnqueueEnd

TransmitOneFrame ==
  \/ TransmitNothing \/ TransmitUnavailable \/ TransmitFrame
  \/ \E filled \in BOOLEAN : TransmitError(filled)

ReceiveOneFrame ==
  \/ ReceiveNothing \/ ReceiveUnavailable \/ ReceiveIgnored
  \/ ReceiveError \/ ReceiveFrame

PollTxRx == StartPoll \/ EnqueuePdus \/ TransmitOneFrame \/ ReceiveOneFrame

Next == User \/ PollTxRx \/ LoseFrame

Spec == Init /\ [][Next]_vars

\* The callers poll in a loop, the device is ready again and again, and the
\* ring returns what it does not lose.
Fairness ==
  /\ WF_vars(PollTxRx)
  /\ SF_vars(TransmitFrame)
  /\ SF_vars(ReceiveFrame)

FairSpec == Spec /\ Fairness

\* As above with sockets that are also removed.  PDUs are numbered by position among the
\* sockets and delivered by slot, so that AnswersMatch does not hold of it.
RemoveSpec == Init /\ [][Next \/ \E h \in Slot : RemoveSocket(h)]_vars

----------------------------------------------------------------------------
(* Properties *)

(* Every PDU in the frame buffer is either still to be sent or in flight,  *)
(* and never both kinds are there at once.  This is what keeps pdu_count   *)
(* and tx_count of pdu_if.rs from passing below zero, and a PDU in flight  *)
(* from being sent a second time, when polls are cut short by a device     *)
(* that is not ready, a full frame or an error.                            *)
CountersAccount ==
  /\ pdu_count + tx_count = Len(buffer)
  /\ pdu_count = 0 \/ tx_count = 0
  /\ pc \notin {"expect", "pdu_count", "tx_count"}

(* A socket that holds a received PDU holds the answer to the command its  *)
(* task asked for last: the index written by enqueue_pdus and read by      *)
(* transmit_and_receive names the same socket, and no answer to an earlier *)
(* command of the socket arrives late.                                     *)
AnswersMatch ==
  \A h \in Slot : sockets[h] # NoSocket /\ sockets[h].recv_flag
                    => sockets[h].command = asked[h]

\* The commands that are asked for and not answered.
Unanswered == {h \in Slot : asked[h] # NoCommand /\ ~sockets[h].recv_flag}

(* socket_if.rs: "If true, all PDUs are transmitted and received".  When   *)
(* poll_tx_rx returns Ok(true), no socket waits for an answer.             *)
TrueMeansAllReceived ==
  [][(pc = "receive" /\ pc' = "idle" /\ polled' = "true") => Unanswered' = {}]_vars

(* Every command put into a socket is answered or taken back, however      *)
(* many polls it takes, unless a frame was lost on the way or the frame    *)
(* was so full that the enqueue loop panicked.                             *)
EveryCommandAnswered ==
  \A h \in Slot :
    (h \in Unanswered) ~> (h \notin Unanswered \/ fault \/ pc \in PanicReason)

\* The PDUs of the frame buffer that carry index h.
PdusOf(h) == {k \in 1 .. Len(buffer) : buffer[k].index = h}

StageOf(h) ==
  CASE sockets[h] = NoSocket -> "closed"
    [] sockets[h] # NoSocket /\ sockets[h].recv_flag -> "answered"
    [] sockets[h] # NoSocket /\ Takes(sockets[h]) -> "queued"
    [] OTHER -> IF PdusOf(h) = {} THEN "idle"
                ELSE IF tx_count = 0 THEN "queued" ELSE "sent"

RequestOf(h) ==
  CASE sockets[h] = NoSocket -> NoCommand
    [] sockets[h] # NoSocket /\ sockets[h].command # NoCommand -> sockets[h].command
    [] OTHER -> IF PdusOf(h) = {} THEN NoCommand
                ELSE buffer[CHOOSE k \in PdusOf(h) : TRUE].command

Exchange == INSTANCE PduExchange WITH
  Handle <- Slot,
  stage <- [h \in Slot |-> StageOf(h)],
  request <- [h \in Slot |-> RequestOf(h)]

(* The sockets, the frame buffer and the counters together behave as the   *)
(* request and answer rounds of PduExchange, with every fault, full frame  *)
(* and interrupted poll: a request is in the socket, then in the buffer,   *)
(* then on the wire, once each, and the answers of a round arrive together. *)
ImplementsExchange == Exchange!Spec

----------------------------------------------------------------------------
(* The inductive invariant behind the properties above, part by part.      *)

\* Without remove_socket the sockets fill the slots from 0 on.
NoHoles ==
  \A h \in Slot :
    /\ sockets[h] # NoSocket <=> h < free_index
    /\ h >= free_index => next[h] = h + 1

\* At most one frame is under way, and it holds the PDUs of the buffer.
OneFrame ==
  /\ received = 0
  /\ tx_ok
  /\ wire = <<>> \/ (tx_count > 0 /\ wire = <<buffer>>)
  /\ pc = "receive" => pdu_count = 0
  /\ MayStep => buffer = <<>>

\* What the enqueue loop has behind it is not to be taken any more; while a
\* frame is under way it also leaves room for it.
LoopPassed ==
  pc = "enqueue" =>
    /\ index = IF cursor <= free_index THEN cursor ELSE free_index
    /\ \A h \in Slot : h < cursor /\ sockets[h] # NoSocket =>
         /\ ~Takes(sockets[h])
         /\ tx_count > 0 => DataLength(sockets[h]) <= Remaining

\* Before a socket that still has a PDU to send there is one whose PDU does not
\* fit, so that a poll made while a frame is under way adds nothing to it.
Blocked ==
  tx_count > 0 \/ pc \in {"transmit", "receive"} =>
    \A h \in Slot : sockets[h] # NoSocket /\ Takes(sockets[h]) =>
      \E g \in 0 .. h : sockets[g] # NoSocket /\ DataLength(sockets[g]) > Remaining

\* A loop that ran to its end has left nothing in the sockets.
AllTaken ==
  pc \in {"transmit", "receive"} /\ complete =>
    \A h \in Slot : sockets[h] # NoSocket => ~Takes(sockets[h])

\* A PDU of the buffer carries the command of the socket its index names.
BufferOwned ==
  \A k \in 1 .. Len(buffer) :
    LET h == buffer[k].index IN
    /\ h \in Slot
    /\ sockets[h] # NoSocket
    /\ sockets[h].command = NoCommand
    /\ ~sockets[h].recv_flag
    /\ buffer[k].command = asked[h]
    /\ \A l \in 1 .. Len(buffer) : buffer[l].index = h => l = k

\* A command asked for is in its socket or in the buffer.
AskedTraceable ==
  \A h \in Slot :
    /\ asked[h] # NoCommand => sockets[h] # NoSocket
    /\ sockets[h] # NoSocket /\ sockets[h].command # NoCommand
         => sockets[h].command = asked[h]
    /\ sockets[h] # NoSocket /\ sockets[h].recv_flag => sockets[h].command # NoCommand
    /\ asked[h] # NoCommand /\ sockets[h].command = NoCommand
         => \E k \in 1 .. Len(buffer) : buffer[k].index = h

(* Between and during polls the sockets, the buffer, the counters and the  *)
(* frame under way agree on where every command is.                        *)
PollInv ==
  /\ NoHoles
  /\ CountersAccount
  /\ OneFrame
  /\ LoopPassed
  /\ Blocked
  /\ AllTaken
  /\ BufferOwned
  /\ AskedTraceable

----------------------------------------------------------------------------
(* What the repository says and the code does not do. *)

(* socket_if.rs expects "always success" of adding a PDU: the enqueue loop *)
(* copes with every filling of the frame.                                  *)
AlwaysSuccess == pc \notin {"remaining", "expect", "wkc"}

(* README: "Checking Lost Frames" is supported.  When a frame is gone, the *)
(* master notices: the lost frame is counted, poll_tx_rx reports an error  *)
(* of the device, or the exchange comes to an end.                         *)
LostFrameNoticed ==
  fault ~> (lost_frame_count > 0 \/ (pc = "idle" /\ polled \in {"true", "TxError", "RxError"}))
=============================================================================

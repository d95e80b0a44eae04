----------------------- MODULE SocketInterfaceProofs -----------------------
(***************************************************************************)
(* For every number of sockets, every set of commands with their lengths,  *)
(* every size of the frame and every set of faults: the types, the         *)
(* accounting of the counters, the routing of the answers, the meaning of  *)
(* Ok(true), and that the socket layer implements PduExchange.             *)
(***************************************************************************)
EXTENDS SocketInterface, SequenceTheorems, TLAPS

\* The capacity of the frame is a number of bytes.
LEMMA CapacityType == Capacity \in Nat
  BY SizeAssumption DEF Capacity

\* A socket of the set is a socket record.
LEMMA SocketType ==
  ASSUME SetType, NEW h \in Slot, sockets[h] # NoSocket
  PROVE  sockets[h] \in Socket
  BY DEF SetType

\* PduSocket::new gives a socket.
LEMMA NewSocketType == NewSocket \in Socket /\ NewSocket # NoSocket
<1>1. NewSocket \in Socket
  BY DEF NewSocket, Socket
<1>2. NoSocket \notin Socket
  BY NoSocketAssumption, Zenon DEF Socket
<1>3. QED
  BY <1>1, <1>2, Zenon

\* recieve keeps a socket a socket.
LEMMA RecieveType ==
  ASSUME NEW s \in Socket, NEW p \in Pdu
  PROVE  Recieve(s, p) \in Socket
  BY DEF Recieve, Socket, Pdu

\* Delivering PDUs keeps the socket set typed.
LEMMA DeliverType ==
  ASSUME SetType, NEW pdus \in Seq(Pdu), Deliver(pdus)
  PROVE  sockets' \in [Slot -> Socket \cup {NoSocket}]
<1> DEFINE last(h) == CHOOSE k \in Latest(pdus, h) : TRUE
<1>1. sockets' = [h \in Slot |-> IF sockets[h] = NoSocket \/ Latest(pdus, h) = {}
                                 THEN sockets[h] ELSE Recieve(sockets[h], pdus[last(h)])]
  BY Zenon DEF Deliver
<1>2. SUFFICES ASSUME NEW h \in Slot, sockets[h] # NoSocket, Latest(pdus, h) # {}
               PROVE  Recieve(sockets[h], pdus[last(h)]) \in Socket
  BY <1>1 DEF SetType
<1>3. last(h) \in Latest(pdus, h)
  BY <1>2, Zenon
<1>4. pdus[last(h)] \in Pdu
  BY <1>3 DEF Latest
<1>5. QED
  BY <1>2, <1>4, RecieveType, SocketType, Zenon

\* Copying a frame into the buffer keeps it a sequence of PDUs.
LEMMA CopiedInType ==
  ASSUME FrameType, NEW frame \in Seq(Pdu)
  PROVE  CopiedIn(frame) \in Seq(Pdu)
<1>1. \A k \in 1 .. Len(buffer) :
        (IF k - received \in DOMAIN frame THEN frame[k - received] ELSE buffer[k]) \in Pdu
  BY DEF FrameType
<1>2. Len(buffer) \in Nat
  BY DEF FrameType
<1>3. QED
  BY <1>1, <1>2 DEF CopiedIn

\* add_socket either fills the head of the free list or changes nothing.
LEMMA AddSocketStep ==
  ASSUME AddSocket
  PROVE  /\ free_index \in Slot
         /\ \/ /\ sockets[free_index] = NoSocket
               /\ free_index' = next[free_index]
               /\ sockets' = [sockets EXCEPT ![free_index] = NewSocket]
               /\ next' = [next EXCEPT ![free_index] = NumSockets]
            \/ UNCHANGED <<free_index, next, sockets>>
  BY Zenon DEF AddSocket, SocketSet!AddItem, SocketSet!Slot, Slot

\* What add_pdu does when it succeeds.
Taken ==
  /\ sockets' = [sockets EXCEPT ![cursor].command = NoCommand]
  /\ buffer' = Append(buffer, [index |-> index % 256,
                               command |-> sockets[cursor].command,
                               length |-> sockets[cursor].data_length])
  /\ pdus_total_size' = pdus_total_size + (Overhead + sockets[cursor].data_length)
  /\ pdu_count' = pdu_count + 1
  /\ cursor' = cursor + 1
  /\ index' = index + 1
  /\ pdus_total_size + (Overhead + sockets[cursor].data_length) <= Capacity
  /\ UNCHANGED <<tx_count, received, pc>>

\* take_pdu and add_pdu succeed, or the write of the WKC leaves the buffer; the
\* expect of enqueue_pdus holds, because the capacity was checked before.
LEMMA EnqueueTakeStep ==
  ASSUME SetType, FrameType, PollType, EnqueueTake
  PROVE  /\ cursor \in Slot
         /\ cursor + 1 \in 0 .. NumSockets
         /\ sockets[cursor] \in Socket
         /\ sockets[cursor].command \in Command
         /\ sockets[cursor].data_length \in Nat
         /\ \/ Taken
            \/ pc' = "wkc" /\ UNCHANGED <<sockets, frameVars, cursor, index>>
<1> DEFINE s == sockets[cursor]
           size == Overhead + s.data_length
<1>1. AtSocket /\ Takes(s) /\ Remaining >= DataLength(s)
  BY Zenon DEF EnqueueTake
<1>2. cursor \in Slot /\ cursor + 1 \in 0 .. NumSockets
  BY <1>1, NumSocketsAssumption DEF AtSocket, PollType, Slot
<1>3. s \in Socket
  BY <1>1, <1>2, SocketType DEF AtSocket
<1>4. s.command \in Command /\ s.data_length \in Nat
  BY <1>1, <1>3 DEF Takes, Socket
<1>5. size \in Nat /\ pdus_total_size \in Nat
  BY <1>4, SizeAssumption, CapacityType DEF FrameType
<1>6. pdus_total_size + size <= Capacity
  BY <1>1, <1>4, <1>5, CapacityType, SizeAssumption DEF Remaining, DataLength, Takes
<1>7. ~(pdus_total_size + size > Capacity)
  <2> HIDE DEF size
  <2> QED
    BY <1>5, <1>6, CapacityType
<1>8. Taken \/ (pc' = "wkc" /\ UNCHANGED <<sockets, frameVars, cursor, index>>)
  <2>1. CASE pdus_total_size + size >= BufferLen
    BY <1>7, <2>1, Zenon DEF EnqueueTake, Panic
  <2>2. CASE ~(pdus_total_size + size >= BufferLen)
    BY <1>6, <1>7, <2>2, Zenon DEF EnqueueTake, Taken
  <2>3. QED
    BY <2>1, <2>2
<1>9. QED
  BY <1>2, <1>3, <1>4, <1>8

----------------------------------------------------------------------------
(* Types *)

\* add_socket keeps the types.
LEMMA AddSocketType ==
  ASSUME TypeOK, AddSocket
  PROVE  TypeOK'
<1>1. SetType'
  <2>1. free_index \in Slot /\ NumSockets \in 0 .. NumSockets
    BY AddSocketStep, NumSocketsAssumption
  <2>2. QED
    BY <2>1, AddSocketStep, NewSocketType DEF TypeOK, SetType, Slot
<1>2. UNCHANGED <<frameVars, pollVars, netVars, lost_frame_count, asked>>
  BY Zenon DEF AddSocket
<1>3. QED
  BY <1>1, <1>2 DEF TypeOK, FrameType, PollType, OtherType, frameVars, pollVars, netVars

\* set_pdu keeps the types.
LEMMA SetPduType ==
  ASSUME TypeOK, NEW h \in Slot,
         Withdraw(h) \/ \E c \in Command : Submit(h, c)
  PROVE  TypeOK'
<1>1. UNCHANGED <<free_index, next, handle, frameVars, pollVars, netVars, lost_frame_count>>
  BY Zenon DEF Withdraw, Submit
<1>2. PICK s \in Socket, c \in Command \cup {NoCommand} :
        sockets' = [sockets EXCEPT ![h] = s] /\ asked' = [asked EXCEPT ![h] = c]
  <2>1. CASE Withdraw(h)
    BY <2>1, NewSocketType DEF Withdraw
  <2>2. CASE \E c \in Command : Submit(h, c)
    <3>1. PICK c \in Command : Submit(h, c)
      BY <2>2
    <3>2. [command |-> c, data_length |-> Length[c], recv_flag |-> FALSE] \in Socket
      BY LengthAssumption DEF Socket
    <3>3. QED
      BY <3>1, <3>2, Zenon DEF Submit
  <2>3. QED
    BY <2>1, <2>2
<1>3. SetType'
  BY <1>1, <1>2 DEF TypeOK, SetType
<1>4. asked' \in [Slot -> Command \cup {NoCommand}]
  BY <1>2 DEF TypeOK, OtherType
<1>5. QED
  BY <1>1, <1>3, <1>4 DEF TypeOK, FrameType, PollType, OtherType, frameVars, pollVars, netVars

\* What the steps of a poll leave alone that only move the loop.
Moved == UNCHANGED <<setVars, frameVars, netVars, lost_frame_count, asked>>

\* The steps of a poll that only move the loop or end the poll.
Moving ==
  \/ StartPoll \/ EnqueueSkip \/ EnqueueOverflow \/ EnqueueBreak \/ EnqueuePass
  \/ EnqueueEnd \/ TransmitNothing \/ TransmitUnavailable
  \/ ReceiveUnavailable \/ ReceiveIgnored

LEMMA MovingStep ==
  ASSUME Moving
  PROVE  Moved
  BY Zenon DEF Moving, Moved, StartPoll, EnqueueSkip, EnqueueOverflow, EnqueueBreak,
     EnqueuePass, EnqueueEnd, TransmitNothing, TransmitUnavailable, ReceiveUnavailable,
     ReceiveIgnored

\* The loop and the returns keep the types.
LEMMA MovingType ==
  ASSUME TypeOK, Moving
  PROVE  TypeOK'
<1> USE DEF PollType, PollResult, PanicReason, TypeOK
<1>1. PollType'
  <2>1. CASE StartPoll
    BY <2>1, NumSocketsAssumption DEF StartPoll
  <2>2. CASE EnqueueSkip
    BY <2>2, NumSocketsAssumption DEF EnqueueSkip
  <2>3. CASE EnqueueOverflow
    BY <2>3 DEF EnqueueOverflow, Panic
  <2>4. CASE EnqueueBreak
    BY <2>4 DEF EnqueueBreak
  <2>5. CASE EnqueuePass
    <3>1. cursor < NumSockets /\ cursor' = cursor + 1 /\ index' = index + 1
      BY <2>5 DEF EnqueuePass, AtSocket
    <3>2. UNCHANGED <<pc, complete, tx_ok, polled>>
      BY <2>5 DEF EnqueuePass
    <3>3. QED
      BY <3>1, <3>2, NumSocketsAssumption
  <2>6. CASE EnqueueEnd
    BY <2>6 DEF EnqueueEnd
  <2>7. CASE TransmitNothing
    BY <2>7 DEF TransmitNothing
  <2>8. CASE TransmitUnavailable
    BY <2>8 DEF TransmitUnavailable, Return
  <2>9. CASE ReceiveUnavailable
    BY <2>9 DEF ReceiveUnavailable, Return
  <2>10. CASE ReceiveIgnored
    BY <2>10 DEF ReceiveIgnored, Return
  <2>11. QED
    BY <2>1, <2>2, <2>3, <2>4, <2>5, <2>6, <2>7, <2>8, <2>9, <2>10, Zenon DEF Moving
<1>2. QED
  BY <1>1, MovingStep
  DEF Moved, SetType, FrameType, OtherType, setVars, frameVars, netVars

\* Taking a PDU keeps the types.
LEMMA EnqueueTakeType ==
  ASSUME TypeOK, EnqueueTake
  PROVE  TypeOK'
<1>1. SetType /\ FrameType /\ PollType /\ OtherType
  BY DEF TypeOK
<1>2. UNCHANGED <<free_index, next, handle, complete, tx_ok, polled, netVars,
                 lost_frame_count, asked>>
  BY Zenon DEF EnqueueTake
<1>3. CASE pc' = "wkc" /\ UNCHANGED <<sockets, frameVars, cursor, index>>
  BY <1>2, <1>3 DEF TypeOK, SetType, FrameType, PollType, OtherType, frameVars, netVars,
     PanicReason
<1>4. CASE Taken
  <2> DEFINE pdu == [index |-> index % 256, command |-> sockets[cursor].command,
                     length |-> sockets[cursor].data_length]
  <2>1. sockets' \in [Slot -> Socket \cup {NoSocket}]
    <3>1. [sockets[cursor] EXCEPT !.command = NoCommand] \in Socket
      BY <1>1, EnqueueTakeStep DEF Socket
    <3>2. sockets' = [sockets EXCEPT ![cursor] = [sockets[cursor] EXCEPT !.command = NoCommand]]
      BY <1>4 DEF Taken
    <3>3. QED
      BY <1>1, <3>1, <3>2 DEF SetType
  <2>2. SetType'
    BY <1>1, <1>2, <2>1 DEF SetType
  <2>3. pdu \in Pdu
    <3>1. index \in Nat /\ index % 256 \in 0 .. 255
      BY <1>1 DEF PollType
    <3>2. QED
      BY <1>1, <3>1, EnqueueTakeStep DEF Pdu
  <2>4. buffer' \in Seq(Pdu)
    <3> HIDE DEF pdu
    <3>1. buffer' = Append(buffer, pdu)
      BY <1>4 DEF Taken, pdu
    <3>2. QED
      BY <1>1, <2>3, <3>1 DEF FrameType
  <2>5. pdus_total_size' \in 0 .. Capacity
    <3>1. sockets[cursor].data_length \in Nat /\ pdus_total_size \in Nat
      BY <1>1, EnqueueTakeStep, CapacityType DEF FrameType
    <3>2. Overhead + sockets[cursor].data_length \in Nat
      BY <3>1, SizeAssumption
    <3>3. /\ pdus_total_size' = pdus_total_size + (Overhead + sockets[cursor].data_length)
          /\ pdus_total_size + (Overhead + sockets[cursor].data_length) <= Capacity
      BY <1>4, Zenon DEF Taken
    <3>4. QED
      BY <3>1, <3>2, <3>3, CapacityType
  <2>6. FrameType'
    BY <1>1, <1>4, <2>4, <2>5 DEF Taken, FrameType
  <2>7. PollType'
    BY <1>1, <1>2, <1>4, EnqueueTakeStep, NumSocketsAssumption DEF Taken, PollType
  <2>8. QED
    BY <1>1, <1>2, <2>2, <2>6, <2>7 DEF TypeOK, OtherType, netVars
<1>5. QED
  BY <1>1, <1>3, <1>4, EnqueueTakeStep

\* Sending the frame keeps the types.
LEMMA TransmitType ==
  ASSUME TypeOK, TransmitFrame \/ \E filled \in BOOLEAN : TransmitError(filled)
  PROVE  TypeOK'
<1>1. UNCHANGED <<setVars, cursor, index, complete, lost_frame_count, asked>>
  BY Zenon DEF TransmitFrame, TransmitError
<1>2. FrameType' /\ pc' \in {"idle", "receive"} \cup PanicReason /\ tx_ok' \in BOOLEAN
      /\ polled' \in PollResult /\ fault' \in BOOLEAN
  <2>1. Len(buffer) \in Nat /\ pdu_count \in Nat /\ tx_count \in Nat
    BY DEF TypeOK, FrameType
  <2>2. ASSUME CountTransmitted, ~(Len(buffer) > pdu_count)
        PROVE  FrameType'
    BY <2>1, <2>2 DEF CountTransmitted, FrameType, TypeOK
  <2>3. ASSUME UNCHANGED frameVars
        PROVE  FrameType'
    BY <2>3 DEF frameVars, FrameType, TypeOK
  <2>4. CASE TransmitFrame
    <3>1. CASE Len(buffer) > pdu_count
      BY <2>3, <2>4, <3>1 DEF TransmitFrame, Panic, PanicReason, TypeOK, PollType, OtherType
    <3>2. CASE ~(Len(buffer) > pdu_count)
      <4>1. CountTransmitted /\ tx_ok' = (tx_count' >= pdu_count') /\ pc' = "receive"
            /\ UNCHANGED <<polled, fault>>
        BY <2>4, <3>2, Zenon DEF TransmitFrame
      <4>2. FrameType'
        BY <2>2, <3>2, <4>1
      <4>3. tx_ok' \in BOOLEAN
        BY <4>1
      <4>4. QED
        BY <4>1, <4>2, <4>3 DEF TypeOK, PollType, OtherType
    <3>3. QED
      BY <3>1, <3>2
  <2>5. CASE \E filled \in BOOLEAN : TransmitError(filled)
    <3>1. PICK filled \in BOOLEAN : TransmitError(filled)
      BY <2>5
    <3>2. tx_ok' \in BOOLEAN
      BY <3>1 DEF TransmitError, TypeOK, PollType
    <3>3. CASE filled /\ Len(buffer) > pdu_count
      BY <2>3, <3>1, <3>2, <3>3 DEF TransmitError, Panic, PanicReason, TypeOK, PollType, OtherType
    <3>4. CASE ~(filled /\ Len(buffer) > pdu_count)
      <4>1. pc' = "idle" /\ polled' = "TxError"
        BY <3>1, <3>4, Zenon DEF TransmitError, Return
      <4>2. CASE filled
        <5>1. CountTransmitted /\ fault' = TRUE
          BY <3>1, <3>4, <4>2, Zenon DEF TransmitError
        <5>2. QED
          BY <2>2, <3>2, <3>4, <4>1, <4>2, <5>1 DEF PollResult
      <4>3. CASE ~filled
        <5>1. UNCHANGED <<frameVars, fault>>
          BY <3>1, <3>4, <4>3, Zenon DEF TransmitError
        <5>2. QED
          BY <2>3, <3>2, <4>1, <5>1 DEF PollResult, TypeOK, OtherType
      <4>4. QED
        BY <4>2, <4>3
    <3>5. QED
      BY <3>3, <3>4
  <2>6. QED
    BY <2>4, <2>5
<1>3. wire' \in Seq(Seq(Pdu))
  <2>1. wire' = wire \/ wire' = Append(wire, buffer)
    BY Zenon DEF TransmitFrame, TransmitError
  <2>2. wire \in Seq(Seq(Pdu)) /\ buffer \in Seq(Pdu)
    BY DEF TypeOK, OtherType, FrameType
  <2>3. QED
    <3>1. Append(wire, buffer) \in Seq(Seq(Pdu))
      BY <2>2, AppendProperties, Zenon
    <3>2. QED
      BY <2>1, <2>2, <3>1, Zenon
<1>4. SetType'
  BY <1>1 DEF TypeOK, SetType, setVars
<1>5. PollType' /\ OtherType'
  BY <1>1, <1>2, <1>3 DEF TypeOK, PollType, OtherType
<1>6. QED
  BY <1>2, <1>4, <1>5 DEF TypeOK

\* Ending the exchange keeps the types.
LEMMA FinishType ==
  ASSUME TypeOK, NEW pdus \in Seq(Pdu), Finish(pdus)
  PROVE  /\ sockets' \in [Slot -> Socket \cup {NoSocket}]
         /\ buffer' \in Seq(Pdu)
         /\ pdus_total_size' \in 0 .. Capacity
         /\ received' \in Nat
         /\ pc' = "idle"
         /\ polled' \in PollResult
<1>1. sockets' \in [Slot -> Socket \cup {NoSocket}]
  BY DeliverType DEF Finish, TypeOK
<1>2. QED
  BY <1>1, CapacityType DEF Finish, Return, PollResult

\* Receiving keeps the types.
LEMMA ReceiveType ==
  ASSUME TypeOK, ReceiveNothing \/ ReceiveFrame \/ ReceiveError \/ LoseFrame
  PROVE  TypeOK'
<1>1. UNCHANGED <<free_index, next, cursor, index, complete, tx_ok, lost_frame_count, asked>>
  BY Zenon DEF ReceiveNothing, ReceiveFrame, ReceiveError, LoseFrame, setVars, pollVars
<1>2. /\ wire' \in Seq(Seq(Pdu))
      /\ fault' \in BOOLEAN
  <2>1. wire' = wire \/ (wire # <<>> /\ wire' = Tail(wire))
    BY Zenon DEF ReceiveNothing, ReceiveFrame, ReceiveError, LoseFrame, netVars
  <2>2. fault' = fault \/ fault' = TRUE
    BY Zenon DEF ReceiveNothing, ReceiveFrame, ReceiveError, LoseFrame, netVars
  <2>3. wire \in Seq(Seq(Pdu)) /\ fault \in BOOLEAN
    BY DEF TypeOK, OtherType
  <2>4. wire' \in Seq(Seq(Pdu))
    BY <2>1, <2>3, HeadTailProperties, Zenon
  <2>5. QED
    BY <2>2, <2>3, <2>4
<1>3. ASSUME UNCHANGED <<sockets, frameVars>>,
             pc' \in {pc, "idle", "tx_count"}, polled' \in PollResult
      PROVE  TypeOK'
  BY <1>1, <1>2, <1>3
  DEF TypeOK, SetType, FrameType, PollType, OtherType, frameVars, PanicReason
<1>4. CASE ReceiveError \/ LoseFrame
  <2>1. UNCHANGED <<sockets, frameVars>>
    BY <1>4, Zenon DEF ReceiveError, LoseFrame, setVars
  <2>2. pc' \in {pc, "idle", "tx_count"} /\ polled' \in PollResult
    BY <1>4 DEF ReceiveError, LoseFrame, Return, PollResult, pollVars, TypeOK, PollType
  <2>3. QED
    BY <1>3, <2>1, <2>2
<1>5. ASSUME NEW pdus \in Seq(Pdu), Finish(pdus), tx_count' \in Nat, pdu_count' = pdu_count
      PROVE  TypeOK'
  <2>1. SetType' /\ FrameType'
    BY <1>1, <1>5, FinishType DEF TypeOK, SetType, FrameType
  <2>2. PollType' /\ OtherType'
    BY <1>1, <1>2, <1>5, FinishType DEF TypeOK, PollType, OtherType
  <2>3. QED
    BY <2>1, <2>2 DEF TypeOK
<1>6. CASE ReceiveNothing
  <2>1. CASE tx_ok
    <3>1. Finish(buffer) /\ UNCHANGED <<tx_count, pdu_count>>
      BY <1>6, <2>1, Zenon DEF ReceiveNothing
    <3>2. QED
      BY <1>5, <3>1 DEF TypeOK, FrameType
  <2>2. CASE ~tx_ok
    <3>1. pc' = "idle" /\ polled' = "false" /\ UNCHANGED <<sockets, frameVars>>
      BY <1>6, <2>2, Zenon DEF ReceiveNothing, Return, frameVars
    <3>2. QED
      BY <1>3, <3>1 DEF PollResult
  <2>3. QED
    BY <2>1, <2>2
<1>7. CASE ReceiveFrame
  <2> DEFINE frame == Head(wire)
  <2>1. frame \in Seq(Pdu) /\ wire # <<>>
    BY <1>7 DEF ReceiveFrame, TypeOK, OtherType
  <2>2. CASE Len(frame) > tx_count
    <3>1. pc' = "tx_count" /\ UNCHANGED <<sockets, frameVars, polled>>
      BY <1>7, <2>2, Zenon DEF ReceiveFrame, Panic
    <3>2. QED
      BY <1>3, <3>1 DEF TypeOK, PollType
  <2>3. CASE ~(Len(frame) > tx_count)
    <3>1. tx_count' = tx_count - Len(frame) /\ pdu_count' = pdu_count
      BY <1>7, <2>3, Zenon DEF ReceiveFrame
    <3>2. Len(frame) \in Nat /\ tx_count \in Nat
      BY <2>1 DEF TypeOK, FrameType
    <3>3. tx_count' \in Nat
      BY <2>3, <3>1, <3>2
    <3>4. CopiedIn(frame) \in Seq(Pdu)
      BY <2>1, CopiedInType DEF TypeOK
    <3>5. CASE tx_count' = 0 /\ tx_ok
      <4>1. Finish(CopiedIn(frame))
        BY <1>7, <2>3, <3>5, Zenon DEF ReceiveFrame
      <4>2. QED
        BY <1>5, <3>1, <3>3, <3>4, <4>1
    <3>6. CASE ~(tx_count' = 0 /\ tx_ok)
      <4>1. /\ buffer' = CopiedIn(frame)
            /\ received' = received + Len(frame)
            /\ pc' = "idle" /\ polled' = "false"
            /\ UNCHANGED <<sockets, pdus_total_size>>
        BY <1>7, <2>3, <3>6, Zenon DEF ReceiveFrame, Return
      <4>2. received' \in Nat
        BY <3>2, <4>1 DEF TypeOK, FrameType
      <4>3. SetType' /\ FrameType'
        BY <1>1, <3>1, <3>3, <3>4, <4>1, <4>2 DEF TypeOK, SetType, FrameType
      <4>4. PollType' /\ OtherType'
        BY <1>1, <1>2, <4>1 DEF TypeOK, PollType, OtherType, PollResult
      <4>5. QED
        BY <4>3, <4>4 DEF TypeOK
    <3>7. QED
      BY <3>5, <3>6
  <2>4. QED
    BY <2>2, <2>3
<1>8. QED
  BY <1>4, <1>6, <1>7

\* The initial state is typed.
LEMMA InitType == Init => TypeOK
<1>1. SUFFICES ASSUME Init PROVE TypeOK
  OBVIOUS
<1>2. SetType
  BY <1>1, NumSocketsAssumption DEF Init, SetType, Slot
<1>3. FrameType
  BY <1>1, CapacityType DEF Init, FrameType
<1>4. PollType
  BY <1>1, NumSocketsAssumption DEF Init, PollType, PollResult
<1>5. OtherType
  <2>1. wire = <<>> /\ fault = FALSE /\ lost_frame_count = 0
        /\ asked = [i \in Slot |-> NoCommand]
    BY <1>1 DEF Init
  <2>2. wire \in Seq(Seq(Pdu))
    BY <2>1, EmptySeq, Zenon
  <2>3. QED
    BY <2>1, <2>2 DEF OtherType
<1>6. QED
  BY <1>2, <1>3, <1>4, <1>5 DEF TypeOK

\* The names the proofs use for the steps of Next.
LEMMA NextSteps ==
  ASSUME Next
  PROVE  \/ AddSocket
         \/ \E h \in Slot : Withdraw(h) \/ \E c \in Command : Submit(h, c)
         \/ Moving
         \/ EnqueueTake
         \/ TransmitFrame \/ \E filled \in BOOLEAN : TransmitError(filled)
         \/ ReceiveNothing \/ ReceiveFrame \/ ReceiveError \/ LoseFrame
  BY Zenon DEF Next, User, PollTxRx, EnqueuePdus, TransmitOneFrame, ReceiveOneFrame, Moving

\* A stuttering step keeps the types.
LEMMA StutterType ==
  ASSUME TypeOK, UNCHANGED vars
  PROVE  TypeOK'
  BY DEF TypeOK, SetType, FrameType, PollType, OtherType, vars, setVars, frameVars,
     pollVars, netVars

\* Every step keeps the types.
LEMMA NextType ==
  ASSUME TypeOK, [Next]_vars
  PROVE  TypeOK'
  BY AddSocketType, SetPduType, MovingType, EnqueueTakeType, TransmitType, ReceiveType,
     NextSteps, StutterType, Zenon

(* Whatever the sizes, the faults and the commands, the variables keep     *)
(* their types: in particular pdus_total_size never exceeds the capacity   *)
(* of the frame and the counters of pdu_if.rs stay natural numbers.        *)
THEOREM TypeCorrect == Spec => []TypeOK
  BY InitType, NextType, PTL DEF Spec

----------------------------------------------------------------------------
(* PollInv is an invariant, and with it the accounting of the counters, the routing of
   the answers and the meaning of Ok(true).  Together with the types it is inductive; one
   lemma per kind of step. *)

IInv == TypeOK /\ PollInv

\* The parts of PollInv that only speak of sockets, buffer and asked.
LEMMA KeptParts ==
  ASSUME PollInv, UNCHANGED <<setVars, frameVars, asked>>
  PROVE  NoHoles' /\ BufferOwned' /\ AskedTraceable' /\ Remaining' = Remaining
<1>1. UNCHANGED <<free_index, next, sockets, buffer, pdus_total_size, asked>>
  BY DEF setVars, frameVars
<1>2. NoHoles'
  BY <1>1 DEF PollInv, NoHoles
<1>3. BufferOwned'
  BY <1>1, Zenon DEF PollInv, BufferOwned
<1>4. AskedTraceable'
  BY <1>1, Zenon DEF PollInv, AskedTraceable
<1>5. Remaining' = Remaining
  BY <1>1 DEF Remaining
<1>6. QED
  BY <1>2, <1>3, <1>4, <1>5

\* Where the loop stands at a socket, its counter names the slot.
LEMMA IndexIsCursor ==
  ASSUME IInv, AtSocket
  PROVE  cursor \in Slot /\ cursor < free_index /\ index = cursor /\ free_index \in 0 .. NumSockets
<1>1. cursor \in Slot /\ free_index \in 0 .. NumSockets /\ cursor \in Nat
  BY NumSocketsAssumption DEF IInv, TypeOK, PollType, SetType, AtSocket, Slot
<1>2. cursor < free_index
  BY <1>1 DEF IInv, PollInv, NoHoles, AtSocket
<1>3. index = cursor
  BY <1>1, <1>2 DEF IInv, PollInv, LoopPassed, AtSocket
<1>4. QED
  BY <1>1, <1>2, <1>3

\* The initial state.
LEMMA InitInv == Init => IInv
<1>1. SUFFICES ASSUME Init PROVE PollInv
  BY InitType DEF IInv
<1>2. NoHoles
  BY <1>1, NumSocketsAssumption DEF Init, NoHoles, Slot
<1>3. CountersAccount /\ OneFrame /\ LoopPassed /\ Blocked /\ AllTaken
  BY <1>1 DEF Init, CountersAccount, OneFrame, LoopPassed, Blocked, AllTaken
<1>4. BufferOwned
  BY <1>1 DEF Init, BufferOwned
<1>5. AskedTraceable
  BY <1>1 DEF Init, AskedTraceable
<1>6. QED
  BY <1>2, <1>3, <1>4, <1>5 DEF PollInv

\* A step that changes nothing.
LEMMA StutterInv ==
  ASSUME PollInv, UNCHANGED vars
  PROVE  PollInv'
<1>1. UNCHANGED <<setVars, frameVars, pollVars, netVars, asked>>
  BY DEF vars
<1>2. NoHoles' /\ BufferOwned' /\ AskedTraceable' /\ Remaining' = Remaining
  BY <1>1, KeptParts
<1>3. CountersAccount' /\ OneFrame' /\ LoopPassed' /\ Blocked' /\ AllTaken'
  BY <1>1, <1>2 DEF PollInv, setVars, frameVars, pollVars, netVars, CountersAccount, OneFrame,
     LoopPassed, Blocked, AllTaken, MayStep
<1>4. QED
  BY <1>2, <1>3 DEF PollInv

\* add_socket opens the first free slot, behind all sockets.
LEMMA AddSocketInv ==
  ASSUME IInv, AddSocket
  PROVE  PollInv'
<1>1. UNCHANGED <<frameVars, pollVars, netVars, asked>> /\ pc = "idle"
  BY Zenon DEF AddSocket
<1>2. CASE UNCHANGED <<free_index, next, sockets>>
  <2>1. NoHoles' /\ BufferOwned' /\ AskedTraceable' /\ Remaining' = Remaining
    BY <1>1, <1>2 DEF IInv, PollInv, NoHoles, BufferOwned, AskedTraceable, Remaining, frameVars
  <2>2. CountersAccount' /\ OneFrame' /\ LoopPassed' /\ Blocked' /\ AllTaken'
    BY <1>1, <1>2, <2>1 DEF IInv, PollInv, setVars, frameVars, pollVars, netVars,
       CountersAccount, OneFrame, LoopPassed, Blocked, AllTaken, MayStep
  <2>3. QED
    BY <2>1, <2>2 DEF PollInv
<1>3. CASE ~UNCHANGED <<free_index, next, sockets>>
  <2>1. /\ free_index \in Slot
        /\ sockets[free_index] = NoSocket
        /\ free_index' = next[free_index]
        /\ sockets' = [sockets EXCEPT ![free_index] = NewSocket]
        /\ next' = [next EXCEPT ![free_index] = NumSockets]
    BY <1>3, AddSocketStep
  <2>2. free_index' = free_index + 1
    BY <2>1 DEF IInv, PollInv, NoHoles, Slot
  <2>3. /\ sockets'[free_index] = NewSocket
        /\ \A h \in Slot : h # free_index => sockets'[h] = sockets[h] /\ next'[h] = next[h]
    BY <2>1 DEF IInv, TypeOK, SetType
  <2>4. /\ NewSocket # NoSocket
        /\ NewSocket.command = NoCommand
        /\ NewSocket.recv_flag = FALSE
    BY NewSocketType DEF NewSocket
  <2>5. NoHoles'
    BY <2>1, <2>2, <2>3, <2>4 DEF IInv, PollInv, NoHoles, Slot
  <2>6. CountersAccount' /\ OneFrame' /\ LoopPassed' /\ AllTaken'
    BY <1>1 DEF IInv, PollInv, frameVars, pollVars, netVars, CountersAccount, OneFrame,
       LoopPassed, AllTaken, MayStep
  <2>7. Blocked'
    <3>1. Remaining' = Remaining /\ tx_count' = tx_count /\ pc' = "idle"
      BY <1>1 DEF Remaining, frameVars, pollVars
    <3>2. SUFFICES ASSUME tx_count > 0, NEW h \in Slot,
                          sockets'[h] # NoSocket, Takes(sockets'[h])
                   PROVE  \E g \in 0 .. h : sockets'[g] # NoSocket
                                            /\ DataLength(sockets'[g]) > Remaining
      BY <3>1 DEF Blocked
    <3>3. h # free_index
      BY <2>3, <2>4, <3>2 DEF Takes
    <3>4. PICK g \in 0 .. h : sockets[g] # NoSocket /\ DataLength(sockets[g]) > Remaining
      BY <2>3, <3>2, <3>3 DEF IInv, PollInv, Blocked
    <3>5. g \in Slot /\ g # free_index
      BY <2>1, <3>2, <3>4, NumSocketsAssumption DEF Slot
    <3>6. QED
      BY <2>3, <3>4, <3>5
  <2>8. BufferOwned'
    BY <1>1, <2>1, <2>3 DEF IInv, PollInv, BufferOwned, frameVars
  <2>9. AskedTraceable'
    BY <1>1, <2>1, <2>3, <2>4 DEF IInv, PollInv, AskedTraceable, frameVars
  <2>10. QED
    BY <2>5, <2>6, <2>7, <2>8, <2>9 DEF PollInv
<1>4. QED
  BY <1>2, <1>3

\* set_pdu: nothing is in the buffer or under way when a task is stepped.
LEMMA SetPduInv ==
  ASSUME IInv, NEW h \in Slot,
         Withdraw(h) \/ \E c \in Command : Submit(h, c)
  PROVE  PollInv'
<1>1. /\ UNCHANGED <<free_index, next, frameVars, pollVars, netVars>>
      /\ MayStep
      /\ sockets[h] # NoSocket
  BY Zenon DEF Withdraw, Submit
<1>2. buffer = <<>> /\ pdu_count = 0 /\ tx_count = 0 /\ pc = "idle"
  BY <1>1 DEF IInv, PollInv, OneFrame, CountersAccount, MayStep, TypeOK, FrameType
<1>3. PICK s \in Socket :
        /\ s.recv_flag = FALSE
        /\ sockets' = [sockets EXCEPT ![h] = s]
        /\ asked' = [asked EXCEPT ![h] = s.command]
  <2>1. CASE Withdraw(h)
    BY <2>1, NewSocketType DEF Withdraw, NewSocket
  <2>2. CASE \E c \in Command : Submit(h, c)
    <3>1. PICK c \in Command : Submit(h, c)
      BY <2>2
    <3> DEFINE s == [command |-> c, data_length |-> Length[c], recv_flag |-> FALSE]
    <3>2. s \in Socket /\ s.recv_flag = FALSE /\ s.command = c
      BY LengthAssumption DEF Socket
    <3>3. sockets' = [sockets EXCEPT ![h] = s] /\ asked' = [asked EXCEPT ![h] = c]
      BY <3>1, Zenon DEF Submit
    <3>4. QED
      BY <3>2, <3>3, Zenon
  <2>3. QED
    BY <2>1, <2>2
<1>4. s # NoSocket
  BY NoSocketAssumption, Zenon DEF Socket
<1>5. /\ sockets'[h] = s /\ asked'[h] = s.command
      /\ \A g \in Slot : g # h => sockets'[g] = sockets[g] /\ asked'[g] = asked[g]
  BY <1>3 DEF IInv, TypeOK, SetType, OtherType
<1>6. NoHoles'
  BY <1>1, <1>4, <1>5 DEF IInv, PollInv, NoHoles
<1>7. CountersAccount' /\ OneFrame' /\ LoopPassed' /\ Blocked' /\ AllTaken'
  BY <1>1, <1>2 DEF IInv, PollInv, frameVars, pollVars, netVars, CountersAccount, OneFrame,
     LoopPassed, Blocked, AllTaken, MayStep
<1>8. BufferOwned'
  BY <1>1, <1>2 DEF frameVars, BufferOwned
<1>9. AskedTraceable'
  <2>1. SUFFICES ASSUME NEW g \in Slot
        PROVE /\ asked'[g] # NoCommand => sockets'[g] # NoSocket
              /\ sockets'[g] # NoSocket /\ sockets'[g].command # NoCommand
                   => sockets'[g].command = asked'[g]
              /\ sockets'[g] # NoSocket /\ sockets'[g].recv_flag => sockets'[g].command # NoCommand
              /\ ~(asked'[g] # NoCommand /\ sockets'[g].command = NoCommand)
    BY Zenon DEF AskedTraceable
  <2>2. CASE g = h
    BY <1>3, <1>4, <1>5, <2>2
  <2>3. CASE g # h
    <3>1. \A k \in 1 .. Len(buffer) : FALSE
      BY <1>2
    <3>2. QED
      BY <1>5, <2>3, <3>1 DEF IInv, PollInv, AskedTraceable
  <2>4. QED
    BY <2>2, <2>3
<1>10. QED
  BY <1>6, <1>7, <1>8, <1>9 DEF PollInv

\* The loop and the returns.
LEMMA MovingInv ==
  ASSUME IInv, Moving
  PROVE  PollInv'
<1>1. UNCHANGED <<free_index, next, sockets, buffer, pdus_total_size, pdu_count, tx_count,
                  received, wire, asked>>
  BY MovingStep DEF Moved, setVars, frameVars, netVars
<1>2. NoHoles' /\ BufferOwned' /\ AskedTraceable' /\ Remaining' = Remaining
  BY MovingStep, KeptParts DEF Moved, IInv
<1>3. SUFFICES CountersAccount' /\ OneFrame' /\ LoopPassed' /\ Blocked' /\ AllTaken'
  BY <1>2 DEF PollInv
\* Leaving the poll, or panicking.
<1>4. ASSUME pc' \in {"idle", "remaining"}, tx_ok' = tx_ok,
             pc' = "idle" => polled' \notin {"none", "true"}
      PROVE  CountersAccount' /\ OneFrame' /\ LoopPassed' /\ Blocked' /\ AllTaken'
  <2>1. CountersAccount' /\ LoopPassed' /\ AllTaken'
    BY <1>1, <1>4 DEF IInv, PollInv, CountersAccount, LoopPassed, AllTaken
  <2>2. OneFrame'
    BY <1>1, <1>4 DEF IInv, PollInv, OneFrame, MayStep
  <2>3. Blocked'
    BY <1>1, <1>2, <1>4 DEF IInv, PollInv, Blocked
  <2>4. QED
    BY <2>1, <2>2, <2>3
\* Staying in it.
<1>5. ASSUME pc' \in {"enqueue", "transmit", "receive"}, tx_ok' = TRUE,
             pc' = "receive" => pdu_count = 0
      PROVE  CountersAccount' /\ OneFrame'
  <2>1. CountersAccount'
    BY <1>1, <1>5 DEF IInv, PollInv, CountersAccount
  <2>2. OneFrame'
    BY <1>1, <1>5 DEF IInv, PollInv, OneFrame, MayStep
  <2>3. QED
    BY <2>1, <2>2
<1>6. ASSUME pc' = "enqueue"
      PROVE  Blocked' /\ AllTaken'
  BY <1>1, <1>2, <1>6 DEF IInv, PollInv, Blocked, AllTaken
<1>7. tx_ok = TRUE
  BY DEF IInv, PollInv, OneFrame, TypeOK, PollType
<1>8. NumSockets \in Nat /\ free_index \in Nat /\ cursor \in Nat
  BY NumSocketsAssumption DEF IInv, TypeOK, SetType, PollType
<1>9. CASE StartPoll
  <2>1. pc' = "enqueue" /\ cursor' = 0 /\ index' = 0 /\ tx_ok' = tx_ok
    BY <1>9 DEF StartPoll
  <2>2. LoopPassed'
    BY <1>1, <1>8, <2>1 DEF LoopPassed, Slot
  <2>3. QED
    BY <1>5, <1>6, <1>7, <2>1, <2>2
<1>10. CASE EnqueueSkip
  <2>1. /\ pc = "enqueue" /\ cursor < NumSockets /\ sockets[cursor] = NoSocket
        /\ cursor' = cursor + 1 /\ UNCHANGED <<pc, index, tx_ok>>
    BY <1>10 DEF EnqueueSkip
  <2>2. cursor \in Slot /\ cursor >= free_index
    BY <1>8, <2>1 DEF IInv, PollInv, NoHoles, Slot
  <2>3. index' = IF cursor' <= free_index' THEN cursor' ELSE free_index'
    BY <1>1, <1>8, <2>1, <2>2 DEF IInv, PollInv, LoopPassed
  <2>4. \A h \in Slot : h < cursor' /\ sockets'[h] # NoSocket =>
           /\ ~Takes(sockets'[h])
           /\ tx_count' > 0 => DataLength(sockets'[h]) <= Remaining'
    BY <1>1, <1>2, <1>8, <2>1 DEF IInv, PollInv, LoopPassed, Slot
  <2>5. LoopPassed'
    BY <2>3, <2>4, Zenon DEF LoopPassed, Takes, DataLength
  <2>6. QED
    BY <1>5, <1>6, <1>7, <2>1, <2>5
<1>11. CASE EnqueuePass
  <2>1. /\ AtSocket /\ ~Takes(sockets[cursor]) /\ Remaining >= DataLength(sockets[cursor])
        /\ cursor' = cursor + 1 /\ index' = index + 1 /\ UNCHANGED <<pc, tx_ok>>
    BY <1>11 DEF EnqueuePass
  <2>2. cursor \in Slot /\ cursor < free_index /\ index = cursor /\ pc = "enqueue"
    BY <2>1, IndexIsCursor DEF AtSocket
  <2>3. index' = IF cursor' <= free_index' THEN cursor' ELSE free_index'
    BY <1>1, <1>8, <2>1, <2>2
  <2>4. DataLength(sockets[cursor]) \in Int /\ Remaining \in Int
    BY <2>1, <2>2, SocketType, CapacityType, SizeAssumption
    DEF IInv, TypeOK, FrameType, DataLength, Remaining, AtSocket, Socket
  <2>5. \A h \in Slot : h < cursor' /\ sockets'[h] # NoSocket =>
           /\ ~Takes(sockets'[h])
           /\ tx_count' > 0 => DataLength(sockets'[h]) <= Remaining'
    <3>1. SUFFICES ASSUME NEW h \in Slot, h < cursor', sockets[h] # NoSocket
                   PROVE  ~Takes(sockets[h]) /\ (tx_count > 0 => DataLength(sockets[h]) <= Remaining)
      BY <1>1, <1>2
    <3>2. CASE h = cursor
      BY <2>1, <2>4, <3>2
    <3>3. CASE h < cursor
      BY <2>2, <3>1, <3>3 DEF IInv, PollInv, LoopPassed
    <3>4. QED
      BY <1>8, <2>1, <3>1, <3>2, <3>3 DEF Slot
  <2>6. LoopPassed'
    BY <2>3, <2>5, Zenon DEF LoopPassed, Takes, DataLength
  <2>7. QED
    BY <1>5, <1>6, <1>7, <2>1, <2>2, <2>6
<1>12. CASE EnqueueBreak
  <2>1. /\ AtSocket /\ Remaining < DataLength(sockets[cursor])
        /\ pc' = "transmit" /\ complete' = FALSE /\ tx_ok' = tx_ok
    BY <1>12 DEF EnqueueBreak
  <2>2. cursor \in Slot /\ pc = "enqueue" /\ sockets[cursor] # NoSocket
    BY <2>1, IndexIsCursor DEF AtSocket
  <2>3. DataLength(sockets[cursor]) \in Int /\ Remaining \in Int
    BY <2>2, SocketType, CapacityType, SizeAssumption
    DEF IInv, TypeOK, FrameType, DataLength, Remaining, Socket
  <2>4. Blocked'
    <3>1. SUFFICES ASSUME NEW h \in Slot, sockets[h] # NoSocket, Takes(sockets[h])
                   PROVE  \E g \in 0 .. h : sockets[g] # NoSocket
                                            /\ DataLength(sockets[g]) > Remaining
      BY <1>1, <1>2, Zenon DEF Blocked, Takes, DataLength
    <3>2. ~(h < cursor)
      BY <2>2, <3>1 DEF IInv, PollInv, LoopPassed
    <3>3. cursor \in 0 .. h
      BY <1>8, <3>2 DEF Slot
    <3>4. DataLength(sockets[cursor]) > Remaining
      BY <2>1, <2>3
    <3>5. QED
      BY <2>2, <3>3, <3>4, Zenon
  <2>5. AllTaken' /\ LoopPassed'
    BY <2>1 DEF AllTaken, LoopPassed
  <2>6. QED
    BY <1>5, <1>7, <2>1, <2>4, <2>5
<1>13. CASE EnqueueEnd
  <2>1. pc = "enqueue" /\ cursor = NumSockets /\ pc' = "transmit" /\ tx_ok' = tx_ok
    BY <1>13 DEF EnqueueEnd
  <2>2. \A h \in Slot : sockets[h] # NoSocket => ~Takes(sockets[h])
    BY <1>8, <2>1 DEF IInv, PollInv, LoopPassed, Slot
  <2>3. Blocked' /\ AllTaken' /\ LoopPassed'
    BY <1>1, <2>1, <2>2 DEF Blocked, AllTaken, LoopPassed
  <2>4. QED
    BY <1>5, <1>7, <2>1, <2>3
<1>14. CASE TransmitNothing
  <2>1. pc = "transmit" /\ pdu_count = 0 /\ pc' = "receive" /\ tx_ok' = TRUE
        /\ complete' = complete
    BY <1>14 DEF TransmitNothing
  <2>2. Blocked' /\ AllTaken' /\ LoopPassed'
    BY <1>1, <1>2, <2>1 DEF IInv, PollInv, Blocked, AllTaken, LoopPassed
  <2>3. QED
    BY <1>5, <2>1, <2>2
<1>15. CASE EnqueueOverflow
  BY <1>4, <1>15 DEF EnqueueOverflow, Panic
<1>16. CASE TransmitUnavailable
  BY <1>4, <1>16 DEF TransmitUnavailable, Return
<1>17. CASE ReceiveUnavailable \/ ReceiveIgnored
  BY <1>4, <1>17 DEF ReceiveUnavailable, ReceiveIgnored, Return
<1>18. QED
  BY <1>9, <1>10, <1>11, <1>12, <1>13, <1>14, <1>15, <1>16, <1>17, Zenon DEF Moving

\* A poll made while a frame is under way takes no PDU.
LEMMA NothingTakenInFlight ==
  ASSUME IInv, EnqueueTake
  PROVE  tx_count = 0
<1>1. AtSocket /\ Takes(sockets[cursor]) /\ Remaining >= DataLength(sockets[cursor])
  BY Zenon DEF EnqueueTake
<1>2. cursor \in Slot /\ pc = "enqueue" /\ sockets[cursor] # NoSocket
  BY <1>1, IndexIsCursor DEF AtSocket
<1>3. SUFFICES ASSUME tx_count # 0 PROVE FALSE
  OBVIOUS
<1>4. tx_count > 0
  BY <1>3 DEF IInv, TypeOK, FrameType
<1>5. PICK g \in 0 .. cursor : sockets[g] # NoSocket /\ DataLength(sockets[g]) > Remaining
  BY <1>1, <1>2, <1>4 DEF IInv, PollInv, Blocked
<1>6. g \in Slot /\ (g < cursor \/ g = cursor)
  BY <1>2, <1>5, NumSocketsAssumption DEF Slot
<1>7. DataLength(sockets[g]) <= Remaining
  <2>1. CASE g < cursor
    BY <1>2, <1>4, <1>5, <1>6, <2>1 DEF IInv, PollInv, LoopPassed
  <2>2. CASE g = cursor
    <3>1. DataLength(sockets[cursor]) \in Int /\ Remaining \in Int
      BY <1>2, SocketType, CapacityType, SizeAssumption
      DEF IInv, TypeOK, FrameType, DataLength, Remaining, Socket
    <3>2. QED
      BY <1>1, <2>2, <3>1
  <2>3. QED
    BY <1>6, <2>1, <2>2
<1>8. DataLength(sockets[g]) \in Int /\ Remaining \in Int
  BY <1>5, <1>6, SocketType, CapacityType, SizeAssumption
  DEF IInv, TypeOK, FrameType, DataLength, Remaining, Socket
<1>9. QED
  BY <1>5, <1>7, <1>8

\* A PDU that enters the buffer is the only one of its socket.
LEMMA EnqueueTakeInv ==
  ASSUME IInv, EnqueueTake
  PROVE  PollInv'
<1>1. SetType /\ FrameType /\ PollType
  BY DEF IInv, TypeOK
<1>2. UNCHANGED <<free_index, next, handle, tx_ok, netVars, asked>>
  BY Zenon DEF EnqueueTake
<1>3. tx_count = 0
  BY NothingTakenInFlight
<1>4. AtSocket /\ Takes(sockets[cursor])
  BY Zenon DEF EnqueueTake
<1>5. cursor \in Slot /\ cursor < free_index /\ index = cursor /\ pc = "enqueue"
  BY <1>4, IndexIsCursor DEF AtSocket
<1>6. CASE pc' = "wkc" /\ UNCHANGED <<sockets, frameVars, cursor, index>>
  <2>1. NoHoles' /\ BufferOwned' /\ AskedTraceable'
    BY <1>2, <1>6, KeptParts DEF IInv, setVars
  <2>2. CountersAccount' /\ OneFrame' /\ LoopPassed' /\ Blocked' /\ AllTaken'
    BY <1>2, <1>3, <1>6 DEF IInv, PollInv, frameVars, netVars, CountersAccount, OneFrame,
       LoopPassed, Blocked, AllTaken, MayStep
  <2>3. QED
    BY <2>1, <2>2 DEF PollInv
<1>7. CASE Taken
  <2> DEFINE s == sockets[cursor]
             pdu == [index |-> index % 256, command |-> s.command, length |-> s.data_length]
  <2>1. s \in Socket /\ s.command \in Command /\ s # NoSocket /\ s.recv_flag = FALSE
    BY <1>1, <1>4, EnqueueTakeStep DEF AtSocket, Takes, Socket
  <2>2. /\ sockets'[cursor].command = NoCommand
        /\ sockets'[cursor].recv_flag = FALSE
        /\ sockets'[cursor] # NoSocket
        /\ \A h \in Slot : h # cursor => sockets'[h] = sockets[h]
    <3>1. sockets' = [sockets EXCEPT ![cursor] = [s EXCEPT !.command = NoCommand]]
      BY <1>7 DEF Taken
    <3>2. sockets'[cursor] = [s EXCEPT !.command = NoCommand]
      BY <1>1, <1>5, <3>1 DEF SetType
    <3>3. [s EXCEPT !.command = NoCommand] \in Socket
      BY <2>1 DEF Socket
    <3>4. sockets'[cursor] # NoSocket
      BY <3>2, <3>3, NoSocketAssumption, Zenon DEF Socket
    <3>5. sockets'[cursor].command = NoCommand /\ sockets'[cursor].recv_flag = FALSE
      BY <2>1, <3>2 DEF Socket
    <3>6. \A h \in Slot : h # cursor => sockets'[h] = sockets[h]
      BY <1>1, <3>1 DEF SetType
    <3>7. QED
      BY <3>4, <3>5, <3>6
  <2>3. /\ pdu_count' = pdu_count + 1 /\ tx_count' = 0 /\ received' = received
        /\ cursor' = cursor + 1 /\ index' = cursor + 1 /\ pc' = "enqueue"
    BY <1>3, <1>5, <1>7 DEF Taken
  <2>4. pdu \in Pdu /\ pdu.index = cursor /\ pdu.command = s.command
    <3>1. cursor \in 0 .. 255 /\ index % 256 = cursor
      BY <1>5, NumSocketsAssumption DEF Slot
    <3>2. QED
      BY <1>1, <2>1, <3>1, EnqueueTakeStep DEF Pdu
  <2>5. /\ Len(buffer) \in Nat
        /\ Len(buffer') = Len(buffer) + 1
        /\ buffer'[Len(buffer) + 1] = pdu
        /\ \A k \in 1 .. Len(buffer) : buffer'[k] = buffer[k]
    <3> HIDE DEF pdu
    <3>1. buffer' = Append(buffer, pdu)
      BY <1>7 DEF Taken, pdu
    <3>2. QED
      BY <1>1, <2>4, <3>1 DEF FrameType
  <2>6. NoHoles'
    BY <1>2, <1>5, <2>1, <2>2 DEF IInv, PollInv, NoHoles
  <2>7. CountersAccount'
    BY <1>1, <1>3, <2>3, <2>5 DEF IInv, PollInv, CountersAccount, FrameType
  <2>8. OneFrame'
    BY <1>2, <1>3, <2>3 DEF IInv, PollInv, OneFrame, MayStep, netVars
  <2>9. Blocked' /\ AllTaken'
    BY <2>3 DEF Blocked, AllTaken
  <2>10. LoopPassed'
    <3>1. free_index \in Nat /\ cursor \in Nat
      BY <1>1, <1>5, NumSocketsAssumption DEF SetType, Slot
    <3>2. index' = IF cursor' <= free_index' THEN cursor' ELSE free_index'
      BY <1>2, <1>5, <2>3, <3>1
    <3>3. ASSUME NEW h \in Slot, h < cursor', sockets'[h] # NoSocket
          PROVE  ~Takes(sockets'[h])
      <4>1. CASE h = cursor
        BY <2>2, <4>1 DEF Takes
      <4>2. CASE h < cursor
        BY <1>5, <2>2, <3>3, <4>2 DEF IInv, PollInv, LoopPassed, Slot
      <4>3. QED
        BY <2>3, <3>1, <3>3, <4>1, <4>2 DEF Slot
    <3>4. ~(tx_count' > 0)
      BY <2>3
    <3>5. QED
      BY <3>2, <3>3, <3>4, Zenon DEF LoopPassed, Takes
  <2>11. BufferOwned'
    <3>1. \A k \in 1 .. Len(buffer) : buffer[k].index # cursor /\ buffer[k].index \in Slot
      BY <2>1, CommandAssumption DEF IInv, PollInv, BufferOwned
    <3>2. s.command = asked[cursor]
      BY <1>5, <2>1, CommandAssumption DEF IInv, PollInv, AskedTraceable
    <3>3. SUFFICES ASSUME NEW k \in 1 .. Len(buffer')
          PROVE  LET h == buffer'[k].index IN
                 /\ h \in Slot
                 /\ sockets'[h] # NoSocket
                 /\ sockets'[h].command = NoCommand
                 /\ ~sockets'[h].recv_flag
                 /\ buffer'[k].command = asked'[h]
                 /\ \A l \in 1 .. Len(buffer') : buffer'[l].index = h => l = k
      BY Zenon DEF BufferOwned
    <3>4. CASE k = Len(buffer) + 1
      <4>1. buffer'[k].index = cursor /\ buffer'[k].command = asked'[cursor]
        BY <1>2, <2>4, <2>5, <3>2, <3>4
      <4>2. \A l \in 1 .. Len(buffer') : buffer'[l].index = cursor => l = k
        BY <2>5, <3>1, <3>4
      <4>3. QED
        BY <1>5, <2>2, <4>1, <4>2
    <3>5. CASE k \in 1 .. Len(buffer)
      <4>1. buffer'[k] = buffer[k] /\ buffer[k].index # cursor /\ buffer[k].index \in Slot
        BY <2>5, <3>1, <3>5
      <4>2. \A l \in 1 .. Len(buffer') : buffer'[l].index = buffer[k].index => l = k
        <5>1. SUFFICES ASSUME NEW l \in 1 .. Len(buffer'), buffer'[l].index = buffer[k].index
                       PROVE  l = k
          OBVIOUS
        <5>2. l \in 1 .. Len(buffer)
          BY <2>4, <2>5, <4>1, <5>1
        <5>3. QED
          BY <2>5, <3>5, <5>1, <5>2 DEF IInv, PollInv, BufferOwned
      <4>3. QED
        BY <1>2, <2>2, <3>5, <4>1, <4>2 DEF IInv, PollInv, BufferOwned
    <3>6. QED
      BY <2>5, <3>3, <3>4, <3>5
  <2>12. AskedTraceable'
    <3>1. SUFFICES ASSUME NEW h \in Slot
          PROVE  /\ asked'[h] # NoCommand => sockets'[h] # NoSocket
                 /\ sockets'[h] # NoSocket /\ sockets'[h].command # NoCommand
                      => sockets'[h].command = asked'[h]
                 /\ sockets'[h] # NoSocket /\ sockets'[h].recv_flag
                      => sockets'[h].command # NoCommand
                 /\ asked'[h] # NoCommand /\ sockets'[h].command = NoCommand
                      => \E k \in 1 .. Len(buffer') : buffer'[k].index = h
      BY Zenon DEF AskedTraceable
    <3>2. CASE h = cursor
      BY <2>2, <2>4, <2>5, <3>2
    <3>3. CASE h # cursor
      <4>1. sockets'[h] = sockets[h] /\ asked'[h] = asked[h]
        BY <1>2, <2>2, <3>3
      <4>2. (\E k \in 1 .. Len(buffer) : buffer[k].index = h)
              => \E k \in 1 .. Len(buffer') : buffer'[k].index = h
        BY <2>5
      <4>3. QED
        BY <4>1, <4>2, Zenon DEF IInv, PollInv, AskedTraceable
    <3>4. QED
      BY <3>2, <3>3
  <2>13. QED
    BY <2>6, <2>7, <2>8, <2>9, <2>10, <2>11, <2>12 DEF PollInv
<1>8. QED
  BY <1>1, <1>6, <1>7, EnqueueTakeStep

\* transmit_one_frame finds only PDUs in the buffer that are still to be sent.
LEMMA TransmitInv ==
  ASSUME IInv, TransmitFrame \/ \E filled \in BOOLEAN : TransmitError(filled)
  PROVE  PollInv'
<1>1. UNCHANGED <<setVars, cursor, index, complete, asked>>
  BY Zenon DEF TransmitFrame, TransmitError
<1>2. pc = "transmit" /\ pdu_count > 0
  BY Zenon DEF TransmitFrame, TransmitError
<1>3. Len(buffer) \in Nat /\ tx_count = 0 /\ pdu_count = Len(buffer) /\ wire = <<>>
      /\ tx_ok = TRUE
  BY <1>2 DEF IInv, PollInv, CountersAccount, OneFrame, TypeOK, FrameType, PollType
<1>4. /\ UNCHANGED <<buffer, pdus_total_size, received>>
      /\ \/ UNCHANGED <<pdu_count, tx_count>>
            /\ pc' = "idle" /\ polled' = "TxError" /\ UNCHANGED <<tx_ok, wire>>
         \/ pdu_count' = 0 /\ tx_count' = Len(buffer)
            /\ pc' = "idle" /\ polled' = "TxError" /\ UNCHANGED <<tx_ok, wire>>
         \/ pdu_count' = 0 /\ tx_count' = Len(buffer)
            /\ pc' = "receive" /\ tx_ok' = TRUE /\ wire' = Append(wire, buffer)
  <2>1. ASSUME CountTransmitted
        PROVE  /\ UNCHANGED <<buffer, pdus_total_size, received>>
               /\ pdu_count' = 0 /\ tx_count' = Len(buffer)
    BY <1>3, <2>1 DEF CountTransmitted
  <2>2. CASE TransmitFrame
    <3>1. /\ CountTransmitted /\ tx_ok' = (tx_count' >= pdu_count')
          /\ wire' = Append(wire, buffer) /\ pc' = "receive"
      <4>1. ~(Len(buffer) > pdu_count)
        BY <1>3
      <4>2. QED
        BY <2>2, <4>1, Zenon DEF TransmitFrame
    <3>2. tx_ok' = TRUE
      <4>1. tx_count' >= pdu_count'
        BY <1>3, <2>1, <3>1
      <4>2. QED
        BY <3>1, <4>1, Zenon
    <3>3. QED
      BY <2>1, <3>1, <3>2
  <2>3. CASE \E filled \in BOOLEAN : TransmitError(filled)
    <3>1. PICK filled \in BOOLEAN : TransmitError(filled)
      BY <2>3
    <3>2. /\ pc' = "idle" /\ polled' = "TxError" /\ UNCHANGED <<tx_ok, wire>>
          /\ CountTransmitted \/ UNCHANGED frameVars
      BY <1>3, <3>1 DEF TransmitError, Return
    <3>3. QED
      BY <2>1, <3>2 DEF frameVars
  <2>4. QED
    BY <2>2, <2>3
<1>5. NoHoles' /\ BufferOwned' /\ AskedTraceable' /\ Remaining' = Remaining
  <2>1. UNCHANGED <<free_index, next, sockets, asked, buffer, pdus_total_size>>
    BY <1>1, <1>4 DEF setVars
  <2>2. NoHoles' /\ Remaining' = Remaining
    BY <2>1 DEF IInv, PollInv, NoHoles, Remaining
  <2>3. BufferOwned' /\ AskedTraceable'
    BY <2>1, Zenon DEF IInv, PollInv, BufferOwned, AskedTraceable
  <2>4. QED
    BY <2>2, <2>3
<1>6. CountersAccount'
  <2>1. pc' \notin {"expect", "pdu_count", "tx_count"}
    BY <1>4
  <2>2. CASE UNCHANGED <<pdu_count, tx_count>>
    BY <1>3, <1>4, <2>1, <2>2 DEF CountersAccount
  <2>3. CASE pdu_count' = 0 /\ tx_count' = Len(buffer)
    BY <1>3, <1>4, <2>1, <2>3 DEF CountersAccount
  <2>4. QED
    BY <1>4, <2>2, <2>3
<1>7. OneFrame'
  <2>1. received' = 0 /\ tx_ok' /\ (pc' = "receive" => pdu_count' = 0)
    BY <1>3, <1>4 DEF IInv, PollInv, OneFrame
  <2>2. wire' = <<>> \/ (tx_count' > 0 /\ wire' = <<buffer'>>)
    <3>1. Append(wire, buffer) = <<buffer>>
      BY <1>3
    <3>2. QED
      BY <1>2, <1>3, <1>4, <3>1
  <2>3. ~MayStep'
    BY <1>4 DEF MayStep
  <2>4. QED
    BY <2>1, <2>2, <2>3 DEF OneFrame
<1>8. LoopPassed'
  BY <1>4 DEF LoopPassed
<1>9. Blocked' /\ AllTaken'
  BY <1>1, <1>2, <1>4, <1>5 DEF IInv, PollInv, Blocked, AllTaken, setVars
<1>10. QED
  BY <1>5, <1>6, <1>7, <1>8, <1>9 DEF PollInv

\* What Deliver does to a socket when the PDUs are those of the buffer.
LEMMA DeliverEach ==
  ASSUME IInv, Deliver(buffer), NEW h \in Slot
  PROVE  \/ /\ sockets'[h] = sockets[h]
            /\ sockets[h] # NoSocket => \A k \in 1 .. Len(buffer) : buffer[k].index # h
         \/ /\ sockets[h] # NoSocket /\ sockets'[h] # NoSocket
            /\ sockets'[h].recv_flag = TRUE
            /\ sockets'[h].command = asked[h]
            /\ asked[h] # NoCommand
<1>1. buffer \in Seq(Pdu) /\ Len(buffer) \in Nat /\ DOMAIN buffer = 1 .. Len(buffer)
  BY DEF IInv, TypeOK, FrameType
<1>2. CASE sockets[h] = NoSocket
  BY <1>2 DEF Deliver
<1>3. CASE sockets[h] # NoSocket /\ \A k \in 1 .. Len(buffer) : buffer[k].index # h
  <2>1. Latest(buffer, h) = {}
    BY <1>1, <1>3 DEF Latest
  <2>2. QED
    BY <1>3, <2>1 DEF Deliver
<1>4. CASE sockets[h] # NoSocket /\ \E k \in 1 .. Len(buffer) : buffer[k].index = h
  <2>1. PICK k \in 1 .. Len(buffer) : buffer[k].index = h
    BY <1>4
  <2>2. /\ \A l \in 1 .. Len(buffer) : buffer[l].index = h => l = k
        /\ buffer[k].command = asked[h]
    BY <2>1 DEF IInv, PollInv, BufferOwned
  <2>3. Latest(buffer, h) = {k}
    BY <1>1, <2>1, <2>2 DEF Latest
  <2>4. (CHOOSE l \in Latest(buffer, h) : TRUE) = k
    BY <2>3
  <2>5. sockets'[h] = Recieve(sockets[h], buffer[k])
    BY <1>4, <2>3, <2>4 DEF Deliver
  <2>6. sockets[h] \in Socket /\ buffer[k] \in Pdu
    BY <1>1, <1>4, SocketType DEF IInv, TypeOK
  <2>7. sockets'[h].recv_flag = TRUE /\ sockets'[h].command = buffer[k].command
    BY <2>5, <2>6 DEF Recieve, Socket
  <2>8. sockets'[h] # NoSocket
    <3>1. sockets'[h] \in Socket
      BY <2>5, <2>6, RecieveType
    <3>2. QED
      BY <3>1, NoSocketAssumption, Zenon DEF Socket
  <2>9. buffer[k].command # NoCommand
    BY <2>6, CommandAssumption DEF Pdu
  <2>10. QED
    BY <1>4, <2>2, <2>7, <2>8, <2>9
<1>5. QED
  BY <1>2, <1>3, <1>4

\* The end of the exchange; with Ok(true) no socket waits any more.
LEMMA FinishInv ==
  ASSUME IInv, pc = "receive", Finish(buffer), tx_count' = 0, wire' = <<>>,
         UNCHANGED <<free_index, next, pdu_count, tx_ok, asked>>
  PROVE  PollInv' /\ (polled' = "true" => Unanswered' = {})
<1>1. Deliver(buffer) /\ buffer' = <<>> /\ received' = 0 /\ pc' = "idle"
      /\ (polled' = "true" => complete)
  BY DEF Finish, Return
<1>2. \A h \in Slot :
         \/ /\ sockets'[h] = sockets[h]
            /\ sockets[h] # NoSocket => \A k \in 1 .. Len(buffer) : buffer[k].index # h
         \/ /\ sockets[h] # NoSocket /\ sockets'[h] # NoSocket
            /\ sockets'[h].recv_flag = TRUE
            /\ sockets'[h].command = asked[h]
            /\ asked[h] # NoCommand
  BY <1>1, DeliverEach
<1>3. NoHoles'
  BY <1>2 DEF IInv, PollInv, NoHoles
<1>4. CountersAccount' /\ OneFrame' /\ LoopPassed' /\ Blocked' /\ AllTaken'
  <2>1. pdu_count' = 0 /\ Len(buffer') = 0 /\ tx_ok'
    BY <1>1 DEF IInv, PollInv, OneFrame
  <2>2. QED
    BY <1>1, <2>1 DEF CountersAccount, OneFrame, LoopPassed, Blocked, AllTaken
<1>5. BufferOwned'
  BY <1>1 DEF BufferOwned
<1>6. ASSUME NEW h \in Slot
      PROVE  /\ asked'[h] # NoCommand => sockets'[h] # NoSocket
             /\ sockets'[h] # NoSocket /\ sockets'[h].command # NoCommand
                  => sockets'[h].command = asked'[h]
             /\ sockets'[h] # NoSocket /\ sockets'[h].recv_flag => sockets'[h].command # NoCommand
             /\ ~(asked'[h] # NoCommand /\ sockets'[h].command = NoCommand)
  BY <1>2, Zenon DEF IInv, PollInv, AskedTraceable
<1>7. AskedTraceable'
  BY <1>6, Zenon DEF AskedTraceable
<1>8. ASSUME polled' = "true", NEW h \in Unanswered'
      PROVE  FALSE
  <2>1. h \in Slot /\ asked'[h] # NoCommand /\ ~sockets'[h].recv_flag
    BY <1>8 DEF Unanswered
  <2>2. sockets'[h] = sockets[h] /\ sockets[h] # NoSocket /\ sockets[h].command # NoCommand
    BY <1>2, <1>6, <2>1
  <2>3. ~Takes(sockets[h])
    BY <1>1, <1>8, <2>1, <2>2 DEF IInv, PollInv, AllTaken
  <2>4. QED
    BY <2>1, <2>2, <2>3 DEF Takes
<1>9. QED
  BY <1>3, <1>4, <1>5, <1>7, <1>8 DEF PollInv

\* A frame that comes back is the one whose PDUs are in the buffer.
LEMMA ReceiveFinishes ==
  ASSUME IInv, ReceiveNothing \/ ReceiveFrame
  PROVE  /\ pc = "receive" /\ Finish(buffer) /\ tx_count' = 0 /\ wire' = <<>>
         /\ UNCHANGED <<free_index, next, pdu_count, tx_ok, asked>>
<1>1. UNCHANGED <<free_index, next, pdu_count, tx_ok, asked>> /\ pc = "receive"
  BY Zenon DEF ReceiveNothing, ReceiveFrame, frameVars
<1>2. tx_ok = TRUE /\ received = 0 /\ pdu_count = 0 /\ tx_count = Len(buffer)
      /\ buffer \in Seq(Pdu) /\ Len(buffer) \in Nat
  BY <1>1 DEF IInv, PollInv, OneFrame, CountersAccount, TypeOK, FrameType, PollType
<1>3. CASE ReceiveNothing
  BY <1>1, <1>2, <1>3 DEF ReceiveNothing, netVars, IInv, PollInv, OneFrame
<1>4. CASE ReceiveFrame
  <2>1. wire = <<buffer>>
    BY <1>4 DEF ReceiveFrame, IInv, PollInv, OneFrame
  <2>2. Head(wire) = buffer /\ Tail(wire) = <<>>
    BY <2>1
  <2>3. CopiedIn(buffer) = buffer
    <3>1. CopiedIn(buffer) = [k \in 1 .. Len(buffer) |-> buffer[k]]
      BY <1>2 DEF CopiedIn
    <3>2. QED
      BY <1>2, <3>1
  <2>4. ~(Len(Head(wire)) > tx_count) /\ wire' = <<>>
    BY <1>2, <1>4, <2>2 DEF ReceiveFrame
  <2>5. tx_count' = tx_count - Len(Head(wire))
    BY <1>4, <2>4, Zenon DEF ReceiveFrame
  <2>6. tx_count' = 0
    BY <1>2, <2>2, <2>5
  <2>7. Finish(CopiedIn(Head(wire)))
    BY <1>2, <1>4, <2>4, <2>6, Zenon DEF ReceiveFrame
  <2>8. QED
    BY <1>1, <2>2, <2>3, <2>4, <2>6, <2>7
<1>5. QED
  BY <1>3, <1>4

\* The device or the network drops the frame.
LEMMA DropInv ==
  ASSUME IInv, ReceiveError \/ LoseFrame
  PROVE  PollInv'
<1>1. UNCHANGED <<setVars, frameVars, cursor, index, complete, tx_ok, asked>>
  BY Zenon DEF ReceiveError, LoseFrame, pollVars
<1>2. \/ pc' = "idle" /\ polled' = "RxError"
      \/ UNCHANGED <<pc, polled>>
  BY DEF ReceiveError, LoseFrame, pollVars, Return
<1>3. wire' = wire \/ (wire # <<>> /\ wire' = Tail(wire))
  BY Zenon DEF ReceiveError, LoseFrame, netVars
<1>4. wire' = wire \/ wire' = <<>>
  BY <1>3 DEF IInv, PollInv, OneFrame
<1>5. NoHoles' /\ BufferOwned' /\ AskedTraceable' /\ Remaining' = Remaining
  BY <1>1, KeptParts DEF IInv
<1>6. UNCHANGED <<free_index, sockets, buffer, pdu_count, tx_count, received>>
  BY <1>1 DEF setVars, frameVars
<1>7. CountersAccount' /\ OneFrame'
  BY <1>1, <1>2, <1>4, <1>6 DEF IInv, PollInv, CountersAccount, OneFrame, MayStep
<1>8. LoopPassed' /\ Blocked' /\ AllTaken'
  BY <1>1, <1>2, <1>5, <1>6 DEF IInv, PollInv, LoopPassed, Blocked, AllTaken
<1>9. QED
  BY <1>5, <1>7, <1>8 DEF PollInv

\* Every step keeps the invariant.
LEMMA NextInv ==
  ASSUME IInv, [Next]_vars
  PROVE  IInv'
<1>1. TypeOK'
  BY NextType DEF IInv
<1>2. PollInv'
  <2>1. CASE UNCHANGED vars
    BY <2>1, StutterInv DEF IInv
  <2>2. CASE ReceiveNothing \/ ReceiveFrame
    BY <2>2, ReceiveFinishes, FinishInv
  <2>3. CASE Next
    BY <2>2, <2>3, NextSteps, AddSocketInv, SetPduInv, MovingInv, EnqueueTakeInv,
       TransmitInv, DropInv, Zenon
  <2>4. QED
    BY <2>1, <2>3
<1>3. QED
  BY <1>1, <1>2 DEF IInv

\* The invariant holds, for every value of the constants.
LEMMA Invariance == Spec => []IInv
  BY InitInv, NextInv, PTL DEF Spec

----------------------------------------------------------------------------
(* Between and during polls the sockets, the buffer, the counters and the  *)
(* frame under way agree on where every command is.                        *)
THEOREM PollAlwaysConsistent == Spec => []PollInv
<1>1. IInv => PollInv
  BY DEF IInv
<1>2. QED
  BY <1>1, Invariance, PTL

(* The counters of pdu_if.rs account for the PDUs of the frame buffer, the *)
(* subtractions on them never overflow and the expect in enqueue_pdus is   *)
(* never reached with an error.                                            *)
THEOREM CountersAlwaysAccount == Spec => []CountersAccount
<1>1. IInv => CountersAccount
  BY DEF IInv, PollInv
<1>2. QED
  BY <1>1, Invariance, PTL

(* transmit_and_receive hands every answer to the socket whose command it  *)
(* answers, for every number of sockets up to the 255 that fit the index.  *)
THEOREM AnswersAlwaysMatch == Spec => []AnswersMatch
<1>1. IInv => AnswersMatch
  BY DEF IInv, PollInv, AskedTraceable, AnswersMatch
<1>2. QED
  BY <1>1, Invariance, PTL

(* When poll_tx_rx returns Ok(true) every command is answered.             *)
THEOREM TrueAlwaysMeansAllReceived == Spec => TrueMeansAllReceived
<1> DEFINE Step == (pc = "receive" /\ pc' = "idle" /\ polled' = "true") => Unanswered' = {}
<1>1. ASSUME IInv, [Next]_vars PROVE [Step]_vars
  <2>1. SUFFICES ASSUME Next, pc = "receive", pc' = "idle", polled' = "true"
                 PROVE  Unanswered' = {}
    BY <1>1
  <2>2. CASE ReceiveNothing \/ ReceiveFrame
    BY <1>1, <2>1, <2>2, ReceiveFinishes, FinishInv
  <2>3. CASE ReceiveError \/ LoseFrame
    BY <2>1, <2>3 DEF ReceiveError, LoseFrame, Return, pollVars
  <2>4. CASE ReceiveUnavailable \/ ReceiveIgnored
    BY <2>1, <2>4 DEF ReceiveUnavailable, ReceiveIgnored, Return
  <2>5. CASE AddSocket \/ \E h \in Slot : Withdraw(h) \/ \E c \in Command : Submit(h, c)
    BY <2>1, <2>5 DEF AddSocket, Withdraw, Submit, MayStep
  <2>6. CASE StartPoll \/ EnqueuePdus \/ TransmitOneFrame
    BY <2>1, <2>6 DEF StartPoll, EnqueuePdus, EnqueueSkip, EnqueueOverflow, EnqueueBreak,
       EnqueueTake, EnqueuePass, EnqueueEnd, AtSocket, TransmitOneFrame, TransmitNothing,
       TransmitUnavailable, TransmitFrame, TransmitError
  <2>7. QED
    BY <2>1, <2>2, <2>3, <2>4, <2>5, <2>6, Zenon DEF Next, User, PollTxRx, ReceiveOneFrame
<1>2. QED
  BY <1>1, Invariance, PTL DEF Spec, TrueMeansAllReceived

----------------------------------------------------------------------------
(* SocketInterface implements PduExchange.  The refinement mapping looks for a request in
   the socket and then in the frame buffer.  Under PollInv the history variable asked names
   the same request, so that the buffer drops out of the mapping and every step of a poll
   is compared socket by socket. *)

\* The mapping without the frame buffer.
Stage(h) ==
  IF sockets[h] = NoSocket THEN "closed"
  ELSE IF sockets[h].recv_flag THEN "answered"
  ELSE IF asked[h] = NoCommand THEN "idle"
  ELSE IF sockets[h].command # NoCommand \/ tx_count = 0 THEN "queued" ELSE "sent"

LEMMA MappedSocket ==
  ASSUME IInv, NEW h \in Slot
  PROVE  StageOf(h) = Stage(h) /\ RequestOf(h) = asked[h]
<1>1. CASE sockets[h] = NoSocket
  BY <1>1 DEF StageOf, Stage, RequestOf, IInv, PollInv, AskedTraceable
<1>2. CASE sockets[h] # NoSocket /\ sockets[h].command # NoCommand
  <2>1. sockets[h].command = asked[h] /\ sockets[h].recv_flag \in BOOLEAN
    BY <1>2, SocketType DEF IInv, PollInv, AskedTraceable, TypeOK, Socket
  <2>2. QED
    BY <1>2, <2>1 DEF StageOf, Stage, RequestOf, Takes
<1>3. CASE sockets[h] # NoSocket /\ sockets[h].command = NoCommand
  <2>1. ~sockets[h].recv_flag
    BY <1>3 DEF IInv, PollInv, AskedTraceable
  <2>2. ~Takes(sockets[h])
    BY <1>3 DEF Takes
  <2>3. StageOf(h) = (IF PdusOf(h) = {} THEN "idle"
                      ELSE IF tx_count = 0 THEN "queued" ELSE "sent")
    BY <1>3, <2>1, <2>2 DEF StageOf
  <2>4. RequestOf(h) = (IF PdusOf(h) = {} THEN NoCommand
                        ELSE buffer[CHOOSE k \in PdusOf(h) : TRUE].command)
    BY <1>3 DEF RequestOf
  <2>5. CASE PdusOf(h) = {}
    <3>1. asked[h] = NoCommand
      BY <1>3, <2>5 DEF PdusOf, IInv, PollInv, AskedTraceable
    <3>2. QED
      BY <1>3, <2>1, <2>3, <2>4, <2>5, <3>1 DEF Stage
  <2>6. CASE PdusOf(h) # {}
    <3> DEFINE k == CHOOSE n \in PdusOf(h) : TRUE
    <3>1. k \in PdusOf(h)
      BY <2>6
    <3>2. k \in 1 .. Len(buffer) /\ buffer[k].index = h
      BY <3>1 DEF PdusOf
    <3> HIDE DEF k
    <3>3. buffer[k].command = asked[h]
      BY <3>2 DEF IInv, PollInv, BufferOwned
    <3>4. buffer[k].command \in Command
      <4>1. buffer[k] \in Pdu
        BY <3>2 DEF IInv, TypeOK, FrameType
      <4>2. QED
        BY <4>1 DEF Pdu
    <3>5. asked[h] # NoCommand /\ RequestOf(h) = asked[h]
      BY <2>4, <2>6, <3>3, <3>4, CommandAssumption DEF k
    <3>6. QED
      BY <1>3, <2>1, <2>3, <2>6, <3>5 DEF Stage
  <2>7. QED
    BY <2>5, <2>6
<1>4. QED
  BY <1>1, <1>2, <1>3

\* The two variables of PduExchange.
stage == [h \in Slot |-> StageOf(h)]

request == [h \in Slot |-> RequestOf(h)]

\* What the mapping makes of every state of the program.
Mapping == stage = [h \in Slot |-> Stage(h)] /\ request = [h \in Slot |-> asked[h]]

LEMMA Mapped == IInv => Mapping
  BY MappedSocket DEF Mapping, stage, request

LEMMA MappedNext == IInv' => Mapping'
  BY Mapped, PTL

----------------------------------------------------------------------------
(* The steps of PduExchange, in terms of the two variables. *)

LEMMA IsOpen ==
  ASSUME NEW h \in Slot, stage[h] = "closed", stage' = [stage EXCEPT ![h] = "idle"],
         request' = request
  PROVE  Exchange!Next
  BY DEF Exchange!Next, Exchange!Open, stage, request

LEMMA IsAsk ==
  ASSUME NEW h \in Slot, NEW c \in Command, stage[h] \in {"idle", "queued", "answered"},
         stage' = [stage EXCEPT ![h] = "queued"], request' = [request EXCEPT ![h] = c]
  PROVE  Exchange!Next
  BY DEF Exchange!Next, Exchange!Ask, stage, request

LEMMA IsForget ==
  ASSUME NEW h \in Slot, stage[h] \in {"idle", "queued", "answered"},
         stage' = [stage EXCEPT ![h] = "idle"], request' = [request EXCEPT ![h] = NoCommand]
  PROVE  Exchange!Next
  BY DEF Exchange!Next, Exchange!Forget, stage, request

LEMMA IsSend ==
  ASSUME NEW S \in SUBSET Slot, S # {}, \A h \in Slot : stage[h] # "sent",
         \A h \in S : stage[h] = "queued",
         stage' = [h \in Slot |-> IF h \in S THEN "sent" ELSE stage[h]], request' = request
  PROVE  Exchange!Next
<1>1. Exchange!InRound = {}
  BY DEF Exchange!InRound, stage
<1>2. Exchange!Send(S)
  BY <1>1 DEF Exchange!Send, stage, request
<1>3. QED
  BY <1>2 DEF Exchange!Next

LEMMA IsAnswer ==
  ASSUME \E h \in Slot : stage[h] = "sent",
         stage' = [h \in Slot |-> IF stage[h] = "sent" THEN "answered" ELSE stage[h]],
         request' = request
  PROVE  Exchange!Next
<1>1. Exchange!InRound = {h \in Slot : stage[h] = "sent"}
  BY DEF Exchange!InRound, stage
<1>2. Exchange!Answer
  BY <1>1 DEF Exchange!Answer, stage, request
<1>3. QED
  BY <1>2 DEF Exchange!Next

----------------------------------------------------------------------------
(* The steps of the program *)

\* A step that leaves the sockets, the requests and tx_count alone.
LEMMA StutterStage ==
  ASSUME IInv, IInv', UNCHANGED <<sockets, asked, tx_count>>
  PROVE  UNCHANGED <<stage, request>>
  BY Mapped, MappedNext DEF Mapping, Stage

\* add_socket
LEMMA AddSocketStage ==
  ASSUME IInv, IInv', AddSocket
  PROVE  Exchange!Next \/ UNCHANGED <<stage, request>>
<1>1. UNCHANGED <<asked, tx_count>>
  BY Zenon DEF AddSocket, frameVars
<1>2. CASE UNCHANGED sockets
  BY <1>1, <1>2, StutterStage
<1>3. CASE ~UNCHANGED sockets
  <2>1. /\ free_index \in Slot /\ sockets[free_index] = NoSocket
        /\ sockets' = [sockets EXCEPT ![free_index] = NewSocket]
    BY <1>3, AddSocketStep
  <2>2. asked[free_index] = NoCommand
    BY <2>1 DEF IInv, PollInv, AskedTraceable
  <2>3. NewSocket # NoSocket /\ NewSocket.recv_flag = FALSE
    BY NewSocketType DEF NewSocket
  <2>4. stage[free_index] = "closed" /\ request' = request
    BY <1>1, <2>1, Mapped, MappedNext DEF Mapping, Stage
  <2>5. stage' = [stage EXCEPT ![free_index] = "idle"]
    <3>1. \A h \in Slot : Stage(h)' = IF h = free_index THEN "idle" ELSE Stage(h)
      BY <1>1, <2>1, <2>2, <2>3 DEF Stage, IInv, TypeOK, SetType
    <3>2. QED
      BY <3>1, Mapped, MappedNext DEF Mapping
  <2>6. QED
    BY <2>1, <2>4, <2>5, IsOpen
<1>4. QED
  BY <1>2, <1>3

\* set_pdu: no round is under way when a task is stepped.
LEMMA SetPduStage ==
  ASSUME IInv, IInv', NEW h \in Slot, Withdraw(h) \/ \E c \in Command : Submit(h, c)
  PROVE  Exchange!Next
<1>1. MayStep /\ sockets[h] # NoSocket /\ UNCHANGED tx_count
  BY Zenon DEF Withdraw, Submit, frameVars
<1>2. tx_count = 0
  BY <1>1 DEF IInv, PollInv, OneFrame, CountersAccount, TypeOK, FrameType
<1>3. stage[h] \in {"idle", "queued", "answered"}
  BY <1>1, <1>2, Mapped DEF Mapping, Stage
<1>4. asked \in [Slot -> Command \cup {NoCommand}] /\ sockets \in [Slot -> Socket \cup {NoSocket}]
  BY DEF IInv, TypeOK, OtherType, SetType
<1>5. CASE Withdraw(h)
  <2>1. sockets' = [sockets EXCEPT ![h] = NewSocket] /\ asked' = [asked EXCEPT ![h] = NoCommand]
    BY <1>5 DEF Withdraw
  <2>2. NewSocket # NoSocket /\ NewSocket.recv_flag = FALSE
    BY NewSocketType DEF NewSocket
  <2>3. \A g \in Slot : Stage(g)' = IF g = h THEN "idle" ELSE Stage(g)
    BY <1>1, <1>4, <2>1, <2>2 DEF Stage
  <2>4. stage' = [stage EXCEPT ![h] = "idle"]
    BY <2>3, Mapped, MappedNext DEF Mapping
  <2>5. request' = [request EXCEPT ![h] = NoCommand]
    BY <1>4, <2>1, Mapped, MappedNext DEF Mapping
  <2>6. QED
    BY <1>3, <2>4, <2>5, IsForget
<1>6. ASSUME NEW c \in Command, Submit(h, c)
      PROVE  Exchange!Next
  <2> DEFINE s == [command |-> c, data_length |-> Length[c], recv_flag |-> FALSE]
  <2>1. sockets' = [sockets EXCEPT ![h] = s] /\ asked' = [asked EXCEPT ![h] = c]
    BY <1>6 DEF Submit
  <2>2. s.command = c /\ s.recv_flag = FALSE /\ c # NoCommand
    BY CommandAssumption
  <2>3. s # NoSocket
    <3>1. s \in Socket
      BY LengthAssumption DEF Socket
    <3>2. QED
      BY <3>1, NoSocketAssumption, Zenon DEF Socket
  <2> HIDE DEF s
  <2>4. \A g \in Slot : Stage(g)' = IF g = h THEN "queued" ELSE Stage(g)
    BY <1>1, <1>2, <1>4, <2>1, <2>2, <2>3 DEF Stage
  <2>5. stage' = [stage EXCEPT ![h] = "queued"]
    BY <2>4, Mapped, MappedNext DEF Mapping
  <2>6. request' = [request EXCEPT ![h] = c]
    BY <1>4, <2>1, Mapped, MappedNext DEF Mapping
  <2>7. QED
    BY <1>3, <2>5, <2>6, IsAsk
<1>7. QED
  BY <1>5, <1>6

\* enqueue_pdus moves a request from its socket into the buffer: it is still queued.
LEMMA EnqueueTakeStage ==
  ASSUME IInv, IInv', EnqueueTake
  PROVE  UNCHANGED <<stage, request>>
<1>1. tx_count = 0 /\ UNCHANGED asked
  BY NothingTakenInFlight, Zenon DEF EnqueueTake
<1>2. SetType /\ FrameType /\ PollType
  BY DEF IInv, TypeOK
<1>3. CASE pc' = "wkc" /\ UNCHANGED <<sockets, frameVars, cursor, index>>
  BY <1>1, <1>3, StutterStage DEF frameVars
<1>4. CASE Taken
  <2>1. /\ sockets' = [sockets EXCEPT ![cursor].command = NoCommand]
        /\ UNCHANGED tx_count
    BY <1>4 DEF Taken
  <2>2. /\ cursor \in Slot /\ sockets[cursor] \in Socket /\ sockets[cursor].command \in Command
        /\ sockets[cursor] # NoSocket
    <3>1. AtSocket
      BY Zenon DEF EnqueueTake
    <3>2. QED
      BY <1>2, <3>1, EnqueueTakeStep DEF AtSocket
  <2>3. \A g \in Slot : g # cursor => sockets'[g] = sockets[g]
    BY <1>2, <2>1, <2>2 DEF SetType
  <2>4. /\ sockets'[cursor] = [sockets[cursor] EXCEPT !.command = NoCommand]
        /\ sockets'[cursor].recv_flag = sockets[cursor].recv_flag
    BY <1>2, <2>1, <2>2 DEF SetType, Socket
  <2>5. sockets'[cursor] # NoSocket
    <3>1. sockets'[cursor] \in Socket
      BY <2>2, <2>4 DEF Socket
    <3>2. QED
      BY <3>1, NoSocketAssumption, Zenon DEF Socket
  <2>6. \A g \in Slot : g = cursor => Stage(g)' = Stage(g)
    BY <1>1, <2>1, <2>2, <2>4, <2>5 DEF Stage
  <2>7. \A g \in Slot : Stage(g)' = Stage(g)
    BY <1>1, <2>1, <2>3, <2>6 DEF Stage
  <2>8. QED
    BY <1>1, <2>7, Mapped, MappedNext DEF Mapping
<1>5. QED
  BY <1>2, <1>3, <1>4, EnqueueTakeStep

\* A request in the buffer has left its socket.
LEMMA InBuffer ==
  ASSUME IInv, NEW k \in 1 .. Len(buffer)
  PROVE  /\ buffer[k].index \in Slot /\ sockets[buffer[k].index] # NoSocket
         /\ sockets[buffer[k].index].command = NoCommand
         /\ ~sockets[buffer[k].index].recv_flag /\ asked[buffer[k].index] # NoCommand
<1>1. buffer[k] \in Pdu
  BY DEF IInv, TypeOK, FrameType
<1>2. buffer[k].command # NoCommand
  BY <1>1, CommandAssumption DEF Pdu
<1>3. QED
  BY <1>2 DEF IInv, PollInv, BufferOwned

\* transmit_one_frame sends the requests of the buffer in one round.
LEMMA TransmitStage ==
  ASSUME IInv, IInv', TransmitFrame \/ \E filled \in BOOLEAN : TransmitError(filled)
  PROVE  Exchange!Next \/ UNCHANGED <<stage, request>>
<1>1. UNCHANGED <<sockets, asked>> /\ pc = "transmit" /\ pdu_count > 0
  BY Zenon DEF TransmitFrame, TransmitError, setVars
<1>2. Len(buffer) \in Nat /\ tx_count = 0 /\ pdu_count = Len(buffer)
  BY <1>1 DEF IInv, PollInv, CountersAccount, TypeOK, FrameType
<1>3. UNCHANGED tx_count \/ tx_count' = Len(buffer)
  <2>1. CountTransmitted => tx_count' = Len(buffer)
    BY <1>2 DEF CountTransmitted
  <2>2. CountTransmitted \/ UNCHANGED frameVars
    BY Zenon DEF TransmitFrame, TransmitError
  <2>3. QED
    BY <2>1, <2>2 DEF frameVars
<1>4. CASE UNCHANGED tx_count
  BY <1>1, <1>4, StutterStage
<1>5. CASE tx_count' = Len(buffer)
  <2> DEFINE S == {h \in Slot : stage[h] = "queued" /\ sockets[h].command = NoCommand}
  <2>1. S # {}
    <3>1. 1 \in 1 .. Len(buffer)
      BY <1>1, <1>2
    <3>2. buffer[1].index \in S
      BY <1>2, <3>1, InBuffer, Mapped DEF Mapping, Stage
    <3>3. QED
      BY <3>2
  <2>2. \A h \in Slot : stage[h] = Stage(h) /\ Stage(h) # "sent"
    BY <1>2, Mapped DEF Mapping, Stage
  <2>3. \A h \in Slot : Stage(h)' = IF h \in S THEN "sent" ELSE stage[h]
    <3>1. tx_count' # 0
      BY <1>1, <1>2, <1>5
    <3>2. QED
      BY <1>1, <1>2, <2>2, <3>1 DEF Stage
  <2>4. stage' = [h \in Slot |-> IF h \in S THEN "sent" ELSE stage[h]] /\ request' = request
    BY <1>1, <2>3, Mapped, MappedNext DEF Mapping
  <2>5. S \in SUBSET Slot /\ \A h \in S : stage[h] = "queued"
    OBVIOUS
  <2> HIDE DEF S
  <2>6. QED
    BY <2>1, <2>2, <2>4, <2>5, IsSend
<1>6. QED
  BY <1>3, <1>4, <1>5

\* receive_one_frame with the delivery: the round is answered, all of it at once.
LEMMA FinishStage ==
  ASSUME IInv, IInv', ReceiveNothing \/ ReceiveFrame
  PROVE  Exchange!Next \/ UNCHANGED <<stage, request>>
<1>1. /\ pc = "receive" /\ Deliver(buffer) /\ tx_count' = 0 /\ UNCHANGED asked
  BY ReceiveFinishes DEF Finish
<1>2. Len(buffer) \in Nat /\ tx_count = Len(buffer)
  BY <1>1 DEF IInv, PollInv, CountersAccount, OneFrame, TypeOK, FrameType
<1>3. ASSUME NEW h \in Slot
      PROVE  \/ /\ sockets'[h] = sockets[h]
                /\ sockets[h] # NoSocket => \A k \in 1 .. Len(buffer) : buffer[k].index # h
             \/ /\ sockets[h] # NoSocket /\ sockets'[h] # NoSocket /\ sockets'[h].recv_flag
                /\ \E k \in 1 .. Len(buffer) : buffer[k].index = h
  <2>1. CASE sockets[h] = NoSocket \/ Latest(buffer, h) = {}
    <3>1. sockets'[h] = sockets[h]
      BY <1>1, <2>1, Zenon DEF Deliver
    <3>2. \/ /\ sockets'[h] = sockets[h]
             /\ sockets[h] # NoSocket => \A k \in 1 .. Len(buffer) : buffer[k].index # h
          \/ sockets'[h].recv_flag = TRUE /\ sockets[h] # NoSocket
      BY <1>1, DeliverEach
    <3>3. CASE sockets[h] # NoSocket /\ sockets'[h].recv_flag = TRUE
      BY <3>1, <3>3 DEF IInv, PollInv, BufferOwned
    <3>4. QED
      BY <3>1, <3>2, <3>3
  <2>2. CASE sockets[h] # NoSocket /\ Latest(buffer, h) # {}
    <3>1. \E k \in 1 .. Len(buffer) : buffer[k].index = h
      <4>1. DOMAIN buffer = 1 .. Len(buffer)
        BY DEF IInv, TypeOK, FrameType
      <4>2. QED
        BY <2>2, <4>1 DEF Latest
    <3>2. QED
      BY <1>1, <2>2, <3>1, DeliverEach
  <2>3. QED
    BY <2>1, <2>2
<1>4. \A h \in Slot : Stage(h)' = IF Stage(h) = "sent" THEN "answered" ELSE Stage(h)
  <2> SUFFICES ASSUME NEW h \in Slot
               PROVE  Stage(h)' = IF Stage(h) = "sent" THEN "answered" ELSE Stage(h)
    OBVIOUS
  <2>1. CASE /\ sockets'[h] = sockets[h]
             /\ sockets[h] # NoSocket => \A k \in 1 .. Len(buffer) : buffer[k].index # h
    <3>1. Stage(h) # "sent"
      BY <2>1 DEF Stage, IInv, PollInv, AskedTraceable
    <3>2. Stage(h)' = Stage(h)
      BY <1>1, <2>1, <3>1 DEF Stage
    <3>3. QED
      BY <3>1, <3>2
  <2>2. CASE /\ sockets[h] # NoSocket /\ sockets'[h] # NoSocket /\ sockets'[h].recv_flag
             /\ \E k \in 1 .. Len(buffer) : buffer[k].index = h
    <3>1. PICK k \in 1 .. Len(buffer) : buffer[k].index = h
      BY <2>2
    <3>2. sockets[h].command = NoCommand /\ ~sockets[h].recv_flag /\ asked[h] # NoCommand
      BY <3>1, InBuffer
    <3>3. tx_count # 0
      BY <1>2, <3>1
    <3>4. Stage(h) = "sent" /\ Stage(h)' = "answered"
      BY <2>2, <3>2, <3>3 DEF Stage
    <3>5. QED
      BY <3>4
  <2>3. QED
    BY <1>3, <2>1, <2>2
<1>5. /\ \A h \in Slot : stage[h] = Stage(h)
      /\ stage' = [h \in Slot |-> IF stage[h] = "sent" THEN "answered" ELSE stage[h]]
      /\ request' = request
  BY <1>1, <1>4, Mapped, MappedNext DEF Mapping
<1>6. CASE \E h \in Slot : stage[h] = "sent"
  BY <1>5, <1>6, IsAnswer
<1>7. CASE ~\E h \in Slot : stage[h] = "sent"
  <2>1. stage = [h \in Slot |-> stage[h]]
    BY DEF stage
  <2>2. QED
    BY <1>5, <1>7, <2>1
<1>8. QED
  BY <1>6, <1>7

\* Every step is a step of PduExchange or leaves its variables alone.
LEMMA StepImplements ==
  ASSUME IInv, IInv', [Next]_vars
  PROVE  Exchange!Next \/ UNCHANGED <<stage, request>>
<1>1. CASE UNCHANGED vars
  BY <1>1, StutterStage DEF vars, setVars, frameVars
<1>2. CASE Moving
  BY <1>2, MovingStep, StutterStage DEF Moved, setVars, frameVars
<1>3. CASE ReceiveError \/ LoseFrame
  <2>1. UNCHANGED <<setVars, frameVars, asked>>
    BY <1>3, Zenon DEF ReceiveError, LoseFrame
  <2>2. QED
    BY <2>1, StutterStage DEF setVars, frameVars
<1>4. CASE Next
  BY <1>2, <1>3, <1>4, NextSteps, AddSocketStage, SetPduStage, EnqueueTakeStage,
     TransmitStage, FinishStage, Zenon
<1>5. QED
  BY <1>1, <1>4

----------------------------------------------------------------------------
(* The sockets, the frame buffer and the counters of socket_if.rs and      *)
(* pdu_if.rs carry out the request and answer rounds of PduExchange: what  *)
(* is sent was asked for, a round is never joined or replaced on its way,  *)
(* and its answers arrive together, with every fault, full frame and       *)
(* interrupted poll and for every number of sockets.                       *)
THEOREM SocketsImplementExchange == Spec => ImplementsExchange
<1>1. Init => Exchange!Init
  BY DEF Init, Exchange!Init, StageOf, RequestOf
<1>2. IInv /\ IInv' /\ [Next]_vars
        => [Exchange!Next]_<<[h \in Slot |-> StageOf(h)], [h \in Slot |-> RequestOf(h)]>>
  BY StepImplements DEF stage, request
<1>3. QED
  BY <1>1, <1>2, Invariance, PTL DEF Spec, ImplementsExchange, Exchange!Spec
=============================================================================

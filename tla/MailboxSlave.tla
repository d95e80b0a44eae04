---------------------------- MODULE MailboxSlave ----------------------------
(***************************************************************************)
(* The mailbox of one slave as the PDUs of task/mailbox_read.rs and        *)
(* task/mailbox_write.rs see it: a sync manager with a buffer of one       *)
(* message for each direction, the full bit of its status register, the    *)
(* repeat request bit of the activation register and the acknowledgement   *)
(* of it in the PDI control register.  The slave is not part of the        *)
(* repository.                                                             *)
(***************************************************************************)
CONSTANTS Message, NoMessage

ASSUME MessageAssumption == NoMessage \notin Message

VARIABLES
  rx,           \* buffer of the sync manager the master writes
  tx,           \* buffer of the sync manager the master reads
  last,         \* the message read last, kept for a repetition
  repeat,       \* repeat request, written by the master
  repeat_ack    \* its acknowledgement, written by the slave

slaveVars == <<rx, tx, last, repeat, repeat_ack>>

\* Bytes in a buffer: the first two of a message are overwritten by the answers
\* of the status registers, so they are told apart from the rest of it.
Bytes == [head : Message \cup {NoMessage}, body : Message \cup {NoMessage}]

Whole(m) == [head |-> m, body |-> m]

Zero == Whole(NoMessage)

SlaveType ==
  /\ rx \in Bytes
  /\ tx \in Message \cup {NoMessage}
  /\ last \in Message \cup {NoMessage}
  /\ repeat \in BOOLEAN
  /\ repeat_ack \in BOOLEAN

SlaveInit ==
  /\ rx = Zero
  /\ tx = NoMessage
  /\ last = NoMessage
  /\ repeat \in BOOLEAN
  /\ repeat_ack = repeat

\* The PDUs the slave answers, with the buffer or the register they address.
PduKind == {"ReadRxStatus", "ReadTxStatus", "WriteRx", "ReadTx",
            "WriteActivation", "ReadPdiControl"}

\* The master's buffer after the slave has executed the PDU.
AnswerBytes(kind, buf) ==
  CASE kind = "ReadTx" -> Whole(tx)
    [] kind = "WriteRx" -> buf
    [] OTHER -> [buf EXCEPT !.head = NoMessage]

\* The full bit, and the repeat or the acknowledgement bit, that it reports.
AnswerFull(kind) == IF kind = "ReadRxStatus" THEN rx # Zero ELSE tx # NoMessage

AnswerBit(kind) == IF kind = "ReadPdiControl" THEN repeat_ack ELSE repeat

\* The slave executes a PDU.  A full buffer is not written, an empty one not read.
Execute(kind, buf, bit) ==
  \/ /\ kind \in {"ReadRxStatus", "ReadTxStatus", "ReadPdiControl"}
     /\ UNCHANGED slaveVars
  \/ /\ kind = "WriteRx"
     /\ rx = Zero
     /\ rx' = buf
     /\ UNCHANGED <<tx, last, repeat, repeat_ack>>
  \/ /\ kind = "ReadTx"
     /\ tx # NoMessage
     /\ last' = tx
     /\ tx' = NoMessage
     /\ UNCHANGED <<rx, repeat, repeat_ack>>
  \/ /\ kind = "WriteActivation"
     /\ repeat' = bit
     /\ UNCHANGED <<rx, tx, last, repeat_ack>>

\* The slave's own software empties the one buffer and fills the other.
TakeRequest ==
  /\ rx # Zero
  /\ rx' = Zero
  /\ UNCHANGED <<tx, last, repeat, repeat_ack>>

PostResponse(m) ==
  /\ tx = NoMessage
  /\ tx' = m
  /\ UNCHANGED <<rx, last, repeat, repeat_ack>>

\* It answers a repeat request with the message read last, unless the one after
\* it waits to be read.
RepeatLast ==
  /\ repeat # repeat_ack
  /\ repeat_ack' = repeat
  /\ tx' = IF tx = NoMessage THEN last ELSE tx
  /\ UNCHANGED <<rx, last, repeat>>
=============================================================================

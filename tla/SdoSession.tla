----------------------------- MODULE SdoSession -----------------------------
(***************************************************************************)
(* read_sdo and write_sdo of task/mod.rs: one call writes a request with   *)
(* the next mailbox count into the mailbox of the slave, waits for a       *)
(* message from it and judges that.  Both halves run a MailboxTask in      *)
(* block_on, which steps it after every completed poll and gives up after  *)
(* a number of steps; the time it passes on is that number in nanoseconds, *)
(* so that the timeouts of the tasks, in milliseconds, are out of reach.   *)
(*                                                                         *)
(* The slave acts on a request once: it knows a copy by its count, except  *)
(* for the count 0.  It answers with the count of the request, and may     *)
(* send emergency messages on its own.                                     *)
(***************************************************************************)
EXTENDS MailboxTask, Sequences, FiniteSets

CONSTANTS
  MaxCalls,         \* calls of read_sdo and write_sdo
  CountLimit,       \* the largest mailbox count, 7 in the code
  StepLimit,        \* steps block_on allows, 100000 in the code
  Refusal,          \* what the slave may answer instead of a result
  MaxQueue,         \* messages the slave holds back
  MaxEmergencies    \* emergency messages it sends

ASSUME CallAssumption == MaxCalls \in Nat /\ StepLimit \in Nat /\ MaxQueue \in Nat

\* Every emergency message makes the calls lag one answer more behind; when
\* they lag CountLimit answers behind, the counts agree again.
ASSUME CountAssumption ==
  CountLimit \in Nat \ {0, 1} /\ MaxEmergencies \in 0 .. CountLimit - 1

SdoKind == {"upload", "download"}

\* What the code makes of a message that is no SDO response of its kind: "other" is
\* an SDO request, another response or another CoE type, "malformed" a message
\* that cannot be parsed.
ErrorOf ==
  [emergency |-> "Emmergency", abort |-> "AbortCode", error |-> "ErrorMailbox",
   unsupported |-> "UnsupportedMailboxProtocol", other |-> "UnexpectedSdoType",
   malformed |-> "Mailbox"]

ASSUME RefusalAssumption == Refusal \subseteq DOMAIN ErrorOf

SdoMessage == [call : 0 .. MaxCalls, kind : SdoKind \cup {"emergency"} \cup Refusal,
               count : 0 .. CountLimit]

\* What the mailbox carries.
ASSUME SdoMessageAssumption == Message = SdoMessage

Emergency == [call |-> 0, kind |-> "emergency", count |-> 0]

VARIABLES
  mailbox_count,    \* of the Slave
  call, kind,       \* number and kind of the current or last call
  phase,            \* where it stands
  steps,            \* count of block_on
  result,           \* what it returned
  queue,            \* slave: messages to send
  seen,             \* slave: count of the last request it acted on
  emergencies,      \* slave: emergency messages sent
  acted             \* history: how often it acted on each call

callVars == <<mailbox_count, call, kind, phase, steps, result>>
deviceVars == <<queue, seen, emergencies, acted>>
sdoVars == <<vars, callVars, deviceVars>>

Call == 1 .. MaxCalls

SdoInit ==
  /\ Init
  /\ mailbox_count = 0
  /\ call = 0
  /\ kind = "upload"
  /\ phase = "idle"
  /\ steps = 0
  /\ result = "none"
  /\ queue = <<>>
  /\ seen = 0
  /\ emergencies = 0
  /\ acted = [c \in Call |-> 0]

----------------------------------------------------------------------------
\* Mutant: the count starts again at 0.
IncrementMbCountZero == IF mailbox_count < CountLimit THEN mailbox_count + 1 ELSE 0

\* increment_mb_count
IncrementMbCount == IF mailbox_count < CountLimit THEN mailbox_count + 1 ELSE 1

\* The beginning of read_sdo or write_sdo up to block_on in write_mailbox.
StartSdo(k) ==
  /\ phase = "idle"
  /\ call < MaxCalls
  /\ mailbox_count' = IncrementMbCount
  /\ call' = call + 1
  /\ kind' = k
  /\ phase' = "write"
  /\ steps' = 0
  /\ result' = "none"
  /\ StartToWrite([call |-> call + 1, kind |-> k, count |-> IncrementMbCount], FALSE)
  /\ UNCHANGED <<slaveVars, deviceVars>>

Running == phase \in {"write", "read"}

\* Mutant: block_on does not count.
BlockOnUncounted ==
  /\ Running
  /\ Busy
  /\ ProcessOneStep
  /\ UNCHANGED <<phase, steps, mailbox_count, call, kind, result, slaveVars, deviceVars>>

\* One turn of block_on.  Its timeout ends in the unwrap of write_sdo or read_sdo.
BlockOn ==
  /\ Running
  /\ Busy
  /\ ProcessOneStep
  /\ IF Busy' /\ steps = StepLimit
     THEN phase' = "panic" /\ UNCHANGED steps
     ELSE /\ steps' = IF Busy' THEN steps + 1 ELSE steps
          /\ UNCHANGED phase
  /\ UNCHANGED <<mailbox_count, call, kind, result, slaveVars, deviceVars>>

\* poll_tx_rx fails: block_on returns the error, which is unwrapped too.
LinkError ==
  /\ Running
  /\ Busy
  /\ phase' = "panic"
  /\ UNCHANGED <<vars, mailbox_count, call, kind, steps, result, deviceVars>>

\* write_mailbox returns, and read_mailbox starts.
WriteReturns ==
  /\ phase = "write"
  /\ ~Busy
  /\ IF task.state = "Complete"
     THEN StartToRead(TRUE) /\ phase' = "read" /\ steps' = 0
     ELSE phase' = "panic" /\ UNCHANGED <<taskVars, steps>>
  /\ UNCHANGED <<mailbox_count, call, kind, result, slaveVars, deviceVars>>

\* Mutant: the count of the answer is not looked at.
JudgeUncounted(m) ==
  CASE m.kind \in DOMAIN ErrorOf -> ErrorOf[m.kind]
    [] m.kind \in SdoKind \ {kind} -> "UnexpectedSdoType"
    [] m.kind = kind -> "Ok"

\* The match on the message at the end of read_sdo and write_sdo.
Judge(m) ==
  CASE m.kind \in DOMAIN ErrorOf -> ErrorOf[m.kind]
    [] m.kind \in SdoKind \ {kind} -> "UnexpectedSdoType"
    [] m.kind = kind -> IF m.count = mailbox_count THEN "Ok" ELSE "CountUnmatch"

\* read_mailbox returns, and the message in the buffer decides.
ReadReturns ==
  /\ phase = "read"
  /\ ~Busy
  /\ IF task.state = "Complete"
     THEN phase' = "idle" /\ result' = Judge(buf.body)
     ELSE phase' = "panic" /\ UNCHANGED result
  /\ UNCHANGED <<mailbox_count, call, kind, steps, vars, deviceVars>>

----------------------------------------------------------------------------
(* The slave, external. *)

\* A copy of the request it acted on last.
Repeated(m) == m.count = seen /\ m.count # 0

ActOn(m) ==
  /\ acted' = [acted EXCEPT ![m.call] = IF @ < MaxCopies THEN @ + 1 ELSE @]
  /\ seen' = m.count
  /\ \E k \in {m.kind} \cup Refusal : queue' = Append(queue, [m EXCEPT !.kind = k])

SlaveActs ==
  /\ TakeRequest
  /\ Len(queue) < MaxQueue
  /\ IF rx = Whole(rx.body) /\ ~Repeated(rx.body)
     THEN ActOn(rx.body)
     ELSE UNCHANGED <<queue, seen, acted>>
  /\ UNCHANGED <<emergencies, taskVars, callVars>>

SlavePosts ==
  /\ queue # <<>>
  /\ PostResponse(Head(queue))
  /\ queue' = Tail(queue)
  /\ UNCHANGED <<seen, emergencies, acted, taskVars, callVars>>

SlaveEmergency ==
  /\ emergencies < MaxEmergencies
  /\ Len(queue) < MaxQueue
  /\ emergencies' = emergencies + 1
  /\ queue' = Append(queue, Emergency)
  /\ UNCHANGED <<seen, acted, slaveVars, taskVars, callVars>>

SlaveRepeats == RepeatLast /\ UNCHANGED <<deviceVars, taskVars, callVars>>

SdoExchange == Exchange /\ UNCHANGED <<callVars, deviceVars>>

CallStep == BlockOn \/ WriteReturns \/ ReadReturns

Device == SlaveActs \/ SlavePosts \/ SlaveEmergency \/ SlaveRepeats

SdoNext ==
  \/ \E k \in SdoKind : StartSdo(k)
  \/ CallStep \/ LinkError \/ SdoExchange \/ Device

SdoSpec == SdoInit /\ [][SdoNext]_sdoVars

\* The caller runs, and every frame comes back.
SdoFairSpec == SdoSpec /\ WF_sdoVars(CallStep) /\ WF_sdoVars(SdoExchange)

----------------------------------------------------------------------------
(* Properties *)

(* A call that returns Ok returns the answer to its own request, and the   *)
(* slave has acted on that request exactly once, although answers of       *)
(* earlier calls that ended in an error may still be in the mailbox, and   *)
(* lost PDUs are sent again.                                               *)
OkIsOwnAnswer ==
  phase = "idle" /\ result = "Ok" => buf = Whole(last) /\ last.call = call /\ acted[call] = 1

(* A request that is written a second time because its working counter was *)
(* wrong does not make the slave act twice: the counts of two calls in a   *)
(* row differ, and none of them is 0.                                      *)
ActedOnce == \A c \in Call : acted[c] <= 1

(* A call ends: with a result or, for every error of the mailbox, in the   *)
(* unwrap of read_sdo or write_sdo.                                        *)
CallEnds == Running ~> ~Running
=============================================================================

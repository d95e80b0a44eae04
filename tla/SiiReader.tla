------------------------------ MODULE SiiReader ------------------------------
(***************************************************************************)
(* task/sii_read.rs: the task that reads four words of the EEPROM of one   *)
(* slave (its slave information interface).  The operators work on the     *)
(* record of a reader; the task that owns it, in SlaveInit, has compared   *)
(* the command of the answer, which is the same as the reader's own, and   *)
(* its working counter.                                                    *)
(*                                                                         *)
(* An EEPROM is a function from word addresses, and what a read operation  *)
(* returns is the data register: four words, of which a slave that reads   *)
(* 4 octets at a time fills the first two.                                 *)
(***************************************************************************)
EXTENDS Integers, Sequences

CONSTANTS
  StepLimit,      \* the largest time of block_on, 100000
  SiiTimeout      \* TIMEOUT_MS * 1000

ASSUME SiiTimeAssumption == StepLimit \in Nat /\ SiiTimeout \in Nat

SiiState == {"Idle", "Error", "Init", "SetOwnership", "CheckOwnership", "SetAddress",
             "SetReadOperation", "Wait", "Read", "Complete"}

\* SiiReader::new; the command is the one of the task that owns the reader.
NewSiiReader ==
  [state |-> "Idle", address |-> 0, read_size |-> 0, data |-> <<0, 0, 0, 0>>]

\* Mutant: the address of the read before is kept.
SiiStartStale(r, address) == [r EXCEPT !.state = "Init"]

\* start
SiiStart(r, address) == [r EXCEPT !.state = "Init", !.address = address]

\* sii_data() tests all eight octets, as u16 keeps the first word.
NotZero(data) == \E i \in 1 .. 4 : data[i] # 0

AsU16(data) == data[1]

----------------------------------------------------------------------------
(* next_pdu *)

SiiOp(r) ==
  IF r.state \in {"SetOwnership", "SetAddress", "SetReadOperation"} THEN "APWR" ELSE "APRD"

SiiRegister(r) ==
  CASE r.state \in {"Init", "SetReadOperation", "Wait"} -> "SiiControl"
    [] r.state \in {"SetOwnership", "CheckOwnership"} -> "SiiAccess"
    [] r.state = "SetAddress" -> "SiiAddress"
    [] r.state = "Read" -> "SiiData"

----------------------------------------------------------------------------
(* recieve_and_process *)

\* What Init and CheckOwnership call an error: CheckSumError, DeviceInfoError,
\* AddressSizeOver, Busy and PermittionDenied.  The assignment of the following
\* state comes after it, so that none of them is ever reported.
OverwrittenError(r, answer) ==
  \/ /\ r.state = "Init"
     /\ \/ answer.check_sum_error \/ answer.device_info_error
        \/ ~answer.address_algorithm /\ r.address >= 256
        \/ answer.busy
  \/ r.state = "CheckOwnership" /\ answer.owner

\* Wait.  The timer compares 100000 with a difference of two values of the step
\* counter of block_on, which stays below it.
WaitDone(r, answer) ==
  CASE answer.command_error -> {[r EXCEPT !.state = "Error"]}
    [] ~answer.command_error /\ ~answer.busy -> {[r EXCEPT !.state = "Read"]}
    [] ~answer.command_error /\ answer.busy ->
         {r} \cup (IF SiiTimeout < StepLimit THEN {[r EXCEPT !.state = "Error"]} ELSE {})

\* The readers that r may become.
SiiRecieved(r, answer) ==
  CASE r.state = "Init" ->
         {[r EXCEPT !.state = "SetOwnership", !.read_size = IF answer.long THEN 8 ELSE 4]}
    [] r.state = "SetOwnership" -> {[r EXCEPT !.state = "CheckOwnership"]}
    [] r.state = "CheckOwnership" -> {[r EXCEPT !.state = "SetAddress"]}
    [] r.state = "SetAddress" -> {[r EXCEPT !.state = "SetReadOperation"]}
    [] r.state = "SetReadOperation" -> {[r EXCEPT !.state = "Wait"]}
    [] r.state = "Wait" -> WaitDone(r, answer)
    [] r.state = "Read" -> {[r EXCEPT !.state = "Complete", !.data = answer]}
    [] OTHER -> {r}
=============================================================================

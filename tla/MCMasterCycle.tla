---------------------------- MODULE MCMasterCycle ----------------------------
(***************************************************************************)
(* Two slaves and applications that use one group of calls each.  The      *)
(* first octet of DlInformation is 4, which is SafeOperational in an AL    *)
(* status; the data of a register are a state, or none.                    *)
(***************************************************************************)
EXTENDS MasterCycle

mcProgram(cs, dc, polled) == [calls |-> cs, dc |-> dc, polled |-> polled]

mcPrograms ==
  {mcProgram({"request_al_state", "change_al_state"}, FALSE, FALSE),
   mcProgram({"read_register", "write_register", "read_al_state", "change_al_state"}, FALSE, FALSE),
   mcProgram({"register", "write_pdo"}, TRUE, FALSE),
   mcProgram({"register", "request_mailbox"}, FALSE, TRUE)}

mcDataBits(d) == CASE d = "DlInformation" -> {2} [] d = "Init" -> {0} [] OTHER -> {}

============================================================================

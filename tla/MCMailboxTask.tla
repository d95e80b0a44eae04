---------------------------- MODULE MCMailboxTask ----------------------------
(***************************************************************************)
(* One slave and two messages.  The timeouts are short but differ, as in   *)
(* the code, and are longer than one exchange.                             *)
(***************************************************************************)
EXTENDS MailboxTask

CONSTANTS m1, m2

MCMessage == {m1, m2}
=============================================================================

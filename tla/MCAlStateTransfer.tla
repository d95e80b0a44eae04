------------------------- MODULE MCAlStateTransfer -------------------------
(***************************************************************************)
(* Two slaves in any states, with one missed PDU or one error of a slave.  *)
(***************************************************************************)
EXTENDS AlStateTransfer

CONSTANTS s1, s2

MCSlave == {s1, s2}

MCSingle == {s1}
=============================================================================

---------------------------- MODULE MCSdoSession ----------------------------
(***************************************************************************)
(* Three calls with counts up to two, so that the count starts again, a    *)
(* slave that sends one emergency message, after which the answers lag one *)
(* call behind, and enough steps for a lost message to be repeated.        *)
(***************************************************************************)
EXTENDS SdoSession
=============================================================================

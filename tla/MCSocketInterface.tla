------------------------- MODULE MCSocketInterface -------------------------
(***************************************************************************)
(* Three sockets, a frame of 40 bytes and three commands.  Two short ones  *)
(* (14 bytes each) fit and a third waits for the next frame; a long one    *)
(* (30) leaves no room for another; a middle one (26) with a short one     *)
(* fills the frame to its last byte.  Without the middle one the frame is  *)
(* never that full.                                                        *)
(***************************************************************************)
EXTENDS SocketInterface, TLC

CONSTANTS short, middle, long

AllCommands == {short, middle, long}

AllLengths == (short :> 2) @@ (middle :> 14) @@ (long :> 18)

SafeCommands == {short, long}

SafeLengths == [c \in SafeCommands |-> AllLengths[c]]
=============================================================================

---------------------------- MODULE MCNetworkInit ----------------------------
EXTENDS NetworkInit

Eeprom(rxOffset, rxSize, txOffset, txSize, protocol) ==
  [a \in 0 .. 31 |->
     CASE a = 8 -> 2 [] a = 10 -> 3 [] a = 12 -> 5
       [] a = 24 -> rxOffset [] a = 25 -> rxSize [] a = 26 -> txOffset [] a = 27 -> txSize
       [] a = 28 -> protocol [] OTHER -> 0]

\* Mailboxes at the begin of the RAM, clocks, more FMMUs than are cleared.
Drive == [eeprom |-> Eeprom(4096, 128, 4224, 128, 4), long |-> TRUE, check_sum_error |-> FALSE,
          loaded |-> TRUE, linked |-> {0, 1}, dc |-> TRUE, dc_range |-> TRUE, lrw |-> TRUE,
          ram |-> 4, fmmu |-> 6, sm |-> 4, al |-> "Operational", err |-> TRUE]

\* Two sync managers, no mailbox.
Terminal == [Drive EXCEPT !.eeprom = Eeprom(0, 0, 0, 0, 0), !.long = FALSE, !.dc = FALSE,
                          !.ram = 1, !.fmmu = 2, !.sm = 2, !.al = "Init", !.err = FALSE,
                          !.linked = {0}]

\* Mailboxes at the end of the RAM, larger than MAX_SM_SIZE.
Gateway == [Terminal EXCEPT !.eeprom = Eeprom(7424, 300, 7724, 300, 4), !.ram = 4, !.sm = 8,
                            !.fmmu = 3, !.al = "PreOperational"]

\* Only a mailbox to read from: the one to write to has size 0.
Sensor == [Drive EXCEPT !.eeprom = Eeprom(4352, 0, 4096, 64, 4), !.al = "Init", !.err = FALSE]

mcBuses ==
  {[slaves |-> <<Drive, Terminal>>, capacity |-> 2],
   [slaves |-> <<Terminal, Gateway>>, capacity |-> 2],
   [slaves |-> <<Terminal, Terminal>>, capacity |-> 1],
   [slaves |-> <<Sensor>>, capacity |-> 2],
   [slaves |-> <<>>, capacity |-> 1],
   [slaves |-> <<[Drive EXCEPT !.ram = 0, !.al = "Init", !.err = FALSE]>>, capacity |-> 1],
   [slaves |-> <<[Terminal EXCEPT !.loaded = FALSE]>>, capacity |-> 1],
   [slaves |-> <<[Drive EXCEPT !.dc_range = FALSE]>>, capacity |-> 1],
   [slaves |-> <<[Gateway EXCEPT !.check_sum_error = TRUE]>>, capacity |-> 1]}
=============================================================================

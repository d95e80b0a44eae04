------------------------------ MODULE MCDcInit ------------------------------
(***************************************************************************)
(* Networks for DcInit: lines of one to three clocks, one of them with     *)
(* clocks about to pass their range, a branch, a slave wired the wrong way *)
(* round, a last slave with something else behind it, networks with slaves *)
(* without clocks that do and do not acknowledge, and no slave at all.     *)
(***************************************************************************)
EXTENDS DcInit

mcAt(ports, times) == [q \in Range(ports) |-> times[CHOOSE i \in DOMAIN ports : ports[i] = q]]

mcDc(clock, ports, times) ==
  [dc |-> TRUE, acks |-> TRUE, clock |-> clock, at |-> mcAt(ports, times)]

mcPlain(acks, ports, times) ==
  [dc |-> FALSE, acks |-> acks, clock |-> 0, at |-> mcAt(ports, times)]

mcLine(a, b, c) ==
  <<mcDc(a, <<0, 1>>, <<0, 16>>), mcDc(b, <<0, 3>>, <<3, 13>>), mcDc(c, <<0>>, <<8>>)>>

mcBuses ==
  {<<>>,
   <<mcDc(5, <<0>>, <<0>>)>>,
   mcLine(7, 40, 12), mcLine(108, 110, 90), mcLine(85, 100, 113),
   <<mcDc(7, <<0, 1, 2>>, <<0, 6, 10>>), mcDc(9, <<0>>, <<3>>), mcDc(2, <<0>>, <<8>>)>>,
   <<mcDc(7, <<0, 1>>, <<12, 0>>), mcDc(3, <<0>>, <<6>>)>>,
   <<mcDc(7, <<0, 1>>, <<0, 16>>), mcDc(3, <<1, 0>>, <<3, 13>>), mcDc(1, <<0>>, <<8>>)>>,
   <<mcDc(7, <<0, 1>>, <<0, 9>>), mcDc(3, <<0, 1>>, <<3, 6>>)>>,
   <<mcPlain(FALSE, <<0, 1>>, <<0, 6>>), mcDc(3, <<0>>, <<3>>)>>,
   <<mcPlain(TRUE, <<0, 1>>, <<0, 6>>), mcDc(3, <<0>>, <<3>>)>>,
   <<mcDc(2, <<0, 1>>, <<0, 12>>), mcPlain(TRUE, <<0, 1>>, <<3, 9>>), mcDc(3, <<0>>, <<6>>)>>,
   <<mcPlain(TRUE, <<0, 1, 2>>, <<0, 6, 10>>), mcPlain(TRUE, <<0>>, <<3>>), mcDc(2, <<0>>, <<8>>)>>,
   <<mcPlain(TRUE, <<0, 1>>, <<0, 6>>), mcPlain(TRUE, <<0>>, <<3>>)>>}

mcDeviations == {<<{1, 4, 5}, {3}, {0, 6}>>}

============================================================================

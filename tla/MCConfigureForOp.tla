-------------------------- MODULE MCConfigureForOp --------------------------
EXTENDS ConfigureForOp

E(object, bits) == [object |-> object, bits |-> bits]
Map(index, fixed, entries) == [index |-> index, is_fixed |-> fixed, entries |-> entries]

\* Objects 0x1C12 and 0x1C13 name the maps 0x1600 and 0x1A00; 0x1601 cannot be changed.
mcOd ==
  (<<7186, 0>> :> 1) @@ (<<7186, 1>> :> 5632) @@ (<<7187, 0>> :> 1) @@ (<<7187, 1>> :> 6656)
    @@ (<<5632, 0>> :> 1) @@ (<<5632, 1>> :> E("word", 16))
    @@ (<<5633, 0>> :> 1) @@ (<<5633, 1>> :> E("fixed", 8))
    @@ (<<6656, 0>> :> 1) @@ (<<6656, 1>> :> E("status", 16))

Drive == [sm |-> [Output |-> 2, Input |-> 3], coe |-> TRUE, mailbox |-> TRUE,
          pdo_start |-> 4352, fmmu |-> 3, clock |-> TRUE, num_sm |-> 4,
          types |-> [Output |-> 3, Input |-> 4], modes |-> {"FreeRun", "Sync0Event"},
          min_cycle |-> 2, od |-> mcOd]

Sensor == [Drive EXCEPT !.types = [Output |-> 0, Input |-> 4], !.fmmu = 2]
Coupler == [Drive EXCEPT !.sm = [Output |-> NoSm, Input |-> NoSm], !.coe = FALSE,
                         !.mailbox = FALSE, !.pdo_start = 0, !.fmmu = 1]
Terminal == [Coupler EXCEPT !.sm = [Output |-> 0, Input |-> 1], !.fmmu = 2]
Gateway == [Drive EXCEPT !.coe = FALSE]

Config(output, input, mode, cycle) ==
  [Output |-> output, Input |-> input, sync_mode |-> mode, cycle_time |-> cycle]

Nothing == Config(<<>>, <<>>, "FreeRun", 4)
Small == Config(<<Map(5632, FALSE, <<E("byte", 8), E("word", 16)>>)>>,
                <<Map(6656, FALSE, <<E("status", 16)>>)>>, "Sync0Event", 4)
Mixed == Config(<<Map(5634, FALSE, <<>>), Map(5633, TRUE, <<E("fixed", 8)>>),
                  Map(5632, FALSE, <<E("half", 4), E("rest", 12)>>)>>,
                <<Map(6656, FALSE, <<E("position", 24)>>)>>, "FreeRun", 2)
InputOnly == Config(<<>>, <<Map(6656, FALSE, <<E("state", 8)>>)>>, "FreeRun", 3)
Ragged == Config(<<>>, <<Map(6656, FALSE, <<E("flags", 12)>>)>>, "FreeRun", 4)
WrongFixed == Config(<<Map(5633, TRUE, <<E("fixed", 16)>>)>>, <<>>, "FreeRun", 4)
Large == Config(<<Map(5632, FALSE, <<E("block", 64), E("end", 64)>>)>>, <<>>, "FreeRun", 4)

mcBuses ==
  {[slaves |-> <<Drive>>, configs |-> {<<Small>>, <<Mixed>>, <<InputOnly>>, <<Nothing>>}],
   [slaves |-> <<Coupler, Sensor, Drive>>,
    configs |-> {<<Nothing, InputOnly, Small>>, <<Nothing, Nothing, Mixed>>}],
   [slaves |-> <<Drive>>,
    configs |-> {<<Ragged>>, <<WrongFixed>>, <<Large>>, <<[Small EXCEPT !.cycle_time = 1]>>,
                 <<[Small EXCEPT !.sync_mode = "Sync1Event"]>>,
                 <<[Small EXCEPT !.sync_mode = "SyncManagerEvent"]>>,
                 <<[Small EXCEPT !.cycle_time = DefaultValue]>>}],
   [slaves |-> <<Drive, Terminal>>, configs |-> {<<Small, Nothing>>}],
   [slaves |-> <<Gateway>>, configs |-> {<<Small>>}],
   [slaves |-> <<[Drive EXCEPT !.clock = FALSE]>>, configs |-> {<<InputOnly>>}],
   [slaves |-> <<[Drive EXCEPT !.num_sm = 3]>>, configs |-> {<<InputOnly>>}],
   [slaves |-> <<[Drive EXCEPT !.types["Output"] = 4]>>, configs |-> {<<InputOnly>>}]}
=============================================================================

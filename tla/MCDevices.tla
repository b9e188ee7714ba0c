----------------------------- MODULE MCDevices -----------------------------
(***************************************************************************)
(* Two segments, of buses 0 to 2 and 1 to 2, three devices to a bus, two   *)
(* functions to a device.  The machines have any set of functions in the  *)
(* places where the walk decides something.                                *)
(***************************************************************************)
EXTENDS Devices

MCRootTables == {<<"MCFG", "FACP", "APIC">>, <<"FACP", "MCFG">>, <<"APIC">>, <<>>}

MCSegments == << [start |-> 0, end |-> 2], [start |-> 1, end |-> 2] >>

MCMachines == SUBSET {<<1, 0, 0, 0>>, <<1, 0, 0, 1>>, <<1, 0, 1, 0>>, <<1, 0, 2, 0>>,
                      <<1, 1, 0, 0>>, <<1, 1, 1, 0>>, <<1, 2, 0, 0>>, <<2, 1, 0, 0>>}

MCControllers == {<<1, 0, 2, 0>>, <<1, 1, 0, 0>>}

Core(t, l, i, e) == [type |-> t, length |-> l, id |-> i, enabled |-> e]

MCCores == {<<>>, <<Core(0, 8, 3, TRUE), Core(1, 12, 9, TRUE), Core(0, 8, 5, FALSE)>>,
            <<Core(0, 8, 1, TRUE), Core(0, 8, 2, TRUE), Core(0, 8, 3, TRUE)>>,
            <<Core(0, 8, 4, TRUE), Core(1, 0, 0, TRUE)>>}
=============================================================================

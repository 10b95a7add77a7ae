-------------------------- MODULE DeviceLifecycle --------------------------
(***************************************************************************)
(* What the controllers promise about ERdmaDevice objects to those who     *)
(* read them (the agents on the nodes, and users): one object per node     *)
(* name; its devices sit on different network cards and never change; a    *)
(* device that was reported ready stays ready as long as the object lives; *)
(* and an object under deletion is not touched again.                      *)
(***************************************************************************)
EXTENDS FiniteSets

CONSTANTS Nodes, None

VARIABLE dev   \* [Nodes -> [owner, inst, jumbo, devices, ready, deleting] or None]

DistinctCards(devices) == \A d, f \in devices : d.card = f.card => d = f

Init == dev = [n \in Nodes |-> None]

Others(n) == \A m \in Nodes \ {n} : dev'[m] = dev[m]

Publish(n) ==
    /\ dev[n] = None /\ dev'[n] # None
    /\ dev'[n].devices # {} /\ DistinctCards(dev'[n].devices)
    /\ dev'[n].ready = {} /\ ~dev'[n].deleting
    /\ Others(n)

Progress(n) ==
    /\ dev[n] # None /\ ~dev[n].deleting /\ dev'[n] # None
    /\ dev[n].ready \subseteq dev'[n].ready /\ dev'[n].ready \subseteq dev[n].devices
    /\ dev'[n] = [dev[n] EXCEPT !.ready = dev'[n].ready]
    /\ Others(n)

StartDelete(n) ==
    /\ dev[n] # None /\ ~dev[n].deleting
    /\ dev'[n] = [dev[n] EXCEPT !.deleting = TRUE]
    /\ Others(n)

Retire(n) ==
    /\ dev[n] # None /\ dev'[n] = None
    /\ Others(n)

Next == \E n \in Nodes : Publish(n) \/ Progress(n) \/ StartDelete(n) \/ Retire(n)

Spec == Init /\ [][Next]_dev
=============================================================================

------------------------------ MODULE Removal ------------------------------
(***************************************************************************)
(* RemoveERdmaDevices (internal/controller/node_controller.go), which both *)
(* reconcilers call: list the ERdmaDevices of a node name in the cache,    *)
(* clear the finalizers of each with CreateOrPatch, delete each by name.   *)
(* An ERdmaDevice has the name and the nodename label of its node, so the  *)
(* list has at most one entry.  The last argument of the two steps says    *)
(* whether the call returns without an error.                              *)
(***************************************************************************)
EXTENDS Cluster

\* CreateOrPatch reads the cache again.  An object that has left it would be
\* created with a resource version, which the API server refuses; one that has
\* changed since the list gives a patch with the old version, a conflict; one
\* without finalizers gives no patch at all.
PatchNothing(n, listed) == crCache[n] # NoCR /\ crCache[n].rv = listed /\ ~crCache[n].deleting
PatchFinalizers(n, listed) == crCache[n] # NoCR /\ crCache[n].rv = listed /\ crCache[n].deleting

\* Clearing the last finalizer of an object that is being deleted removes it.
RemovePatch(n, listed, ok) ==
    /\ UNCHANGED <<node, nodeLog, nodeCache, aged, crCache, rev, eni, churn, userDeletes>>
    /\ \/ ok /\ NoFault /\ PatchNothing(n, listed) /\ UNCHANGED cr
       \/ /\ ok /\ NoFault /\ PatchFinalizers(n, listed) /\ cr[n] # NoCR
          /\ cr' = IF cr[n].deleting THEN [cr EXCEPT ![n] = NoCR] ELSE cr
       \/ ~ok /\ NoFault /\ PatchFinalizers(n, listed) /\ cr[n] = NoCR /\ UNCHANGED cr
       \/ ~ok /\ NoFault /\ (crCache[n] # NoCR => crCache[n].rv # listed) /\ UNCHANGED cr
       \/ ~ok /\ Fault /\ UNCHANGED cr

\* Delete carries no precondition: it takes whatever object bears the name.
RemoveDelete(n, ok) ==
    /\ UNCHANGED <<node, nodeLog, nodeCache, aged, crCache, rev, eni, churn, userDeletes>>
    /\ \/ /\ ok /\ NoFault /\ cr[n] # NoCR
          /\ cr' = IF cr[n].deleting THEN cr ELSE [cr EXCEPT ![n] = NoCR]
       \/ ~ok /\ NoFault /\ cr[n] = NoCR /\ UNCHANGED cr
       \/ ~ok /\ Fault /\ UNCHANGED cr
=============================================================================

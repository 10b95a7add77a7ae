------------------------ MODULE ERdmaDeviceController ------------------------
(***************************************************************************)
(* The ERdmaDevice reconciler (internal/controller/                        *)
(* erdmadevice_controller.go) and EriClient.EnsureEriForInstance.  dq is   *)
(* its work queue, dDelay the items waiting for a timer, dw the reconcile  *)
(* its one worker is in: snap is the object it read, todo the devices left *)
(* to treat with what their ENIs looked like, out the new statuses.        *)
(***************************************************************************)
EXTENDS Removal

VARIABLES dq, dDelay, dw

deviceCtlVars == <<dq, dDelay, dw>>

DevicePCs == {"idle", "describe", "ensure", "update", "rmList", "rmPatch", "rmDelete"}

DeviceIdle == [pc |-> "idle", n |-> CHOOSE n \in Nodes : TRUE, snap |-> NoCR,
               todo |-> {}, out |-> {}, rv |-> 0]

DeviceControllerInit == dq = {} /\ dDelay = {} /\ dw = DeviceIdle

-----------------------------------------------------------------------------

\* For(&ERdmaDevice{}) has no predicate: every change of the object, its own
\* status updates included, reaches the work queue.
DeliverDevice(n) ==
    /\ crCache[n] # cr[n]
    /\ crCache' = [crCache EXCEPT ![n] = cr[n]]
    /\ dq' = dq \cup {n}
    /\ UNCHANGED <<node, nodeLog, nodeCache, aged, cr, rev, eni, budget, dDelay, dw>>

\* The informer's periodic resync shows every cached object again.
Resync(n) ==
    /\ crCache[n] # NoCR
    /\ dq' = dq \cup {n}
    /\ UNCHANGED <<clusterVars, dDelay, dw>>

DeviceTimer(n) ==
    /\ n \in dDelay
    /\ dDelay' = dDelay \ {n}
    /\ dq' = dq \cup {n}
    /\ UNCHANGED <<clusterVars, dw>>

DeviceDone  == dw' = DeviceIdle /\ UNCHANGED dDelay
DeviceRetry == dw' = DeviceIdle /\ dDelay' = dDelay \cup {dw.n}

-----------------------------------------------------------------------------

NonReady(status) == \E s \in status : s.st # "Ready"

\* As many statuses as devices, all of them Ready.
Configured(obj) == Cardinality(obj.status) = Cardinality(obj.spec) /\ ~NonReady(obj.status)

DeviceGet(n) ==
    /\ dw.pc = "idle" /\ n \in dq
    /\ dq' = dq \ {n}
    /\ LET obj == crCache[n] IN
       \/ /\ obj = NoCR
          /\ UNCHANGED dw
       \/ /\ obj # NoCR /\ obj.deleting
          /\ dw' = [DeviceIdle EXCEPT !.pc = "rmList", !.n = n]
       \/ /\ obj # NoCR /\ ~obj.deleting /\ Configured(obj)
          /\ UNCHANGED dw
       \/ /\ obj # NoCR /\ ~obj.deleting /\ ~Configured(obj)
          /\ dw' = [DeviceIdle EXCEPT !.pc = "describe", !.n = n, !.snap = obj]
    /\ UNCHANGED <<clusterVars, dDelay>>

Seen(d) == [dev |-> d, st |-> eni[d.id].st, rdma |-> eni[d.id].rdma]

\* EnsureEriForInstance looks at all ENIs once, and then acts on what it saw.
DeviceDescribe ==
    /\ dw.pc = "describe"
    /\ \/ /\ NoFault
          /\ dw' = [dw EXCEPT !.pc = "ensure", !.todo = {Seen(d) : d \in dw.snap.spec}]
          /\ UNCHANGED dDelay
       \/ Fault /\ DeviceRetry
    /\ UNCHANGED <<k8sVars, eni, churn, userDeletes, dq>>

\* The status reported for a device, if any, and what is next.
AfterEnsure(v) == IF dw.todo = {v} THEN "update" ELSE "ensure"

Report(v, s) ==
    dw' = [dw EXCEPT !.pc = AfterEnsure(v), !.todo = @ \ {v},
                     !.out = @ \cup {[dev |-> v.dev, st |-> s]}]

ReportNothing(v) == dw' = [dw EXCEPT !.pc = AfterEnsure(v), !.todo = @ \ {v}]

\* Mistake: the traffic mode is not looked at.
SeenReadyInAnyMode(v) == v.st = "InUse"

SeenReady(v) == v.st = "InUse" /\ v.rdma
SeenDetached(v) == ~v.dev.primary /\ v.st = "Available"
SeenUnconverted(v) == v.dev.primary /\ v.st = "InUse" /\ ~v.rdma

\* AttachNetworkInterface is accepted for an ENI that is still Available; a
\* failed call may have been accepted too.
Attached(d) == [eni EXCEPT ![d.id].st = "Attaching", ![d.id].inst = d.inst, ![d.id].card = d.card]

\* Mistake: the status is one the API does not know.
EnsureAttachOddly(v) == LET d == v.dev IN
    eni[d.id].st = "Available" /\ eni' = Attached(d) /\ NoFault /\ Report(v, "Attaching")

EnsureAttach(v) == LET d == v.dev IN
    \/ eni[d.id].st = "Available" /\ eni' = Attached(d) /\ NoFault /\ Report(v, "Pending")
    \/ eni[d.id].st = "Available" /\ eni' = Attached(d) /\ Fault /\ Report(v, "Failed")
    \/ eni[d.id].st # "Available" /\ UNCHANGED eni /\ NoFault /\ Report(v, "Failed")
    \/ Fault /\ UNCHANGED eni /\ Report(v, "Failed")

\* ConvertPrimaryENI: modify the traffic mode, then tag, best effort.
Converted(d, tags) ==
    [eni EXCEPT ![d.id].rdma = TRUE, ![d.id].qp = d.qp,
                ![d.id].excluded = tags \/ @,
                ![d.id].instTag = IF tags THEN d.inst ELSE @]

EnsureConvert(v) == LET d == v.dev IN
    \/ eni' = Converted(d, TRUE) /\ NoFault /\ Report(v, "Ready")
    \/ eni' = Converted(d, FALSE) /\ Fault /\ Report(v, "Ready")
    \/ eni' \in {eni, Converted(d, FALSE)} /\ Fault /\ Report(v, "Failed")

DeviceEnsure ==
    /\ dw.pc = "ensure"
    /\ UNCHANGED dDelay
    /\ \E v \in dw.todo :
         \/ SeenReady(v) /\ Report(v, "Ready") /\ UNCHANGED eni /\ NoFault
         \/ SeenDetached(v) /\ EnsureAttach(v)
         \/ SeenUnconverted(v) /\ EnsureConvert(v)
         \/ /\ v.st # "gone" /\ ~SeenReady(v) /\ ~SeenDetached(v) /\ ~SeenUnconverted(v)
            /\ ReportNothing(v) /\ UNCHANGED eni /\ NoFault
    /\ UNCHANGED <<k8sVars, churn, userDeletes, dq>>

\* An ENI that was not there ends it with an error, whatever was done for the
\* devices before it.
DeviceMissing ==
    /\ dw.pc = "ensure" /\ \E v \in dw.todo : v.st = "gone"
    /\ NoFault /\ DeviceRetry
    /\ UNCHANGED <<k8sVars, eni, churn, userDeletes, dq>>

\* Mistake: the status is written whatever became of the object.
DeviceUpdateBlind ==
    /\ dw.pc = "update" /\ cr[dw.n] # NoCR
    /\ rev' = [rev EXCEPT ![dw.n] = @ + 1]
    /\ cr' = [cr EXCEPT ![dw.n] = [@ EXCEPT !.status = dw.out, !.rv = rev[dw.n] + 1]]
    /\ NoFault /\ DeviceDone
    /\ UNCHANGED <<node, nodeLog, nodeCache, aged, crCache, eni, churn, userDeletes, dq>>

\* Mistake: a status that is not Ready is not looked at again.
DeviceUpdateOnce ==
    /\ dw.pc = "update" /\ cr[dw.n] # NoCR /\ cr[dw.n].rv = dw.snap.rv
    /\ IF dw.out = cr[dw.n].status
       THEN UNCHANGED <<cr, rev>>
       ELSE /\ rev' = [rev EXCEPT ![dw.n] = @ + 1]
            /\ cr' = [cr EXCEPT ![dw.n] = [@ EXCEPT !.status = dw.out, !.rv = rev[dw.n] + 1]]
    /\ NoFault /\ DeviceDone
    /\ UNCHANGED <<node, nodeLog, nodeCache, aged, crCache, eni, churn, userDeletes, dq>>

\* Status().Update: refused unless the object is still the one that was read;
\* an update that changes nothing makes no new version.
DeviceUpdate ==
    /\ dw.pc = "update"
    /\ LET n    == dw.n
           same == cr[n] # NoCR /\ cr[n].rv = dw.snap.rv
       IN  \/ /\ same
              /\ IF dw.out = cr[n].status
                 THEN UNCHANGED <<cr, rev>>
                 ELSE /\ rev' = [rev EXCEPT ![n] = @ + 1]
                      /\ cr' = [cr EXCEPT ![n] = [@ EXCEPT !.status = dw.out, !.rv = rev[n] + 1]]
              /\ \/ NoFault /\ NonReady(dw.out) /\ DeviceRetry
                 \/ NoFault /\ ~NonReady(dw.out) /\ DeviceDone
                 \/ Fault /\ DeviceRetry
           \/ ~same /\ NoFault /\ DeviceRetry /\ UNCHANGED <<cr, rev>>
           \/ Fault /\ DeviceRetry /\ UNCHANGED <<cr, rev>>
    /\ UNCHANGED <<node, nodeLog, nodeCache, aged, crCache, eni, churn, userDeletes, dq>>

-----------------------------------------------------------------------------
(* RemoveERdmaDevices, for an ERdmaDevice that is being deleted *)

DeviceRmList ==
    /\ dw.pc = "rmList"
    /\ IF crCache[dw.n] = NoCR
       THEN DeviceDone
       ELSE dw' = [dw EXCEPT !.pc = "rmPatch", !.rv = crCache[dw.n].rv] /\ UNCHANGED dDelay
    /\ UNCHANGED <<clusterVars, dq>>

DeviceRmPatch ==
    /\ dw.pc = "rmPatch"
    /\ \/ RemovePatch(dw.n, dw.rv, TRUE) /\ dw' = [dw EXCEPT !.pc = "rmDelete"] /\ UNCHANGED dDelay
       \/ RemovePatch(dw.n, dw.rv, FALSE) /\ DeviceRetry
    /\ UNCHANGED dq

DeviceRmDelete ==
    /\ dw.pc = "rmDelete"
    /\ \/ RemoveDelete(dw.n, TRUE) /\ DeviceDone
       \/ RemoveDelete(dw.n, FALSE) /\ DeviceRetry
    /\ UNCHANGED dq

DeviceWorker ==
    \/ DeviceDescribe \/ DeviceEnsure \/ DeviceMissing \/ DeviceUpdate
    \/ DeviceRmList \/ DeviceRmPatch \/ DeviceRmDelete
=============================================================================

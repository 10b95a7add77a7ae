-------------------------- MODULE ErdmaController --------------------------
(***************************************************************************)
(* The controller process: the Node and the ERdmaDevice reconciler side by *)
(* side over one cluster, with restarts (a crash, or another replica       *)
(* winning the leader election) at any point between two API calls.        *)
(***************************************************************************)
EXTENDS NodeController, ERdmaDeviceController

CONSTANT MaxCrashes    \* bound: restarts

ASSUME CrashAssumption == MaxCrashes \in Nat

VARIABLE crashes

vars == <<clusterVars, nodeCtlVars, deviceCtlVars, crashes>>

Init == ClusterInit /\ NodeControllerInit /\ DeviceControllerInit /\ crashes = 0

\* Changes of the Node objects, by kubelets, administrators, cloud providers.
NodeChange ==
    /\ \E n \in Nodes : \/ CreateNode(n) \/ SetReady(n) \/ SetNotReady(n) \/ Relabel(n)
                        \/ SetProviderID(n) \/ MarkNodeDeleting(n) \/ DeleteNode(n)
    /\ UNCHANGED <<nodeCtlVars, deviceCtlVars, crashes>>

\* What the rest of Kubernetes and ECS do on their own.
Timeout(n)     == WaitTimeout(n) /\ UNCHANGED <<nodeCtlVars, deviceCtlVars, crashes>>
Collect(n)     == CollectGarbage(n) /\ UNCHANGED <<nodeCtlVars, deviceCtlVars, crashes>>
Delete(n)      == UserDelete(n) /\ UNCHANGED <<nodeCtlVars, deviceCtlVars, crashes>>
DeleteEnds(n)  == FinishDelete(n) /\ UNCHANGED <<nodeCtlVars, deviceCtlVars, crashes>>
DeleteEni(e)   == DeleteENI(e) /\ UNCHANGED <<nodeCtlVars, deviceCtlVars, crashes>>
AttachEnds(e)  == FinishAttach(e) /\ UNCHANGED <<nodeCtlVars, deviceCtlVars, crashes>>
AttachBreaks(e) == AttachFails(e) /\ UNCHANGED <<nodeCtlVars, deviceCtlVars, crashes>>

\* The Node reconciler.
NodeEvent(n)   == DeliverNode(n) /\ UNCHANGED <<deviceCtlVars, crashes>>
NodeRequeue(n) == NodeTimer(n) /\ UNCHANGED <<deviceCtlVars, crashes>>
NodeStart(n)   == NodeGet(n) /\ UNCHANGED <<deviceCtlVars, crashes>>
NodeStep       == NodeWorker /\ UNCHANGED <<deviceCtlVars, crashes>>

\* The ERdmaDevice reconciler.
DeviceEvent(n)   == DeliverDevice(n) /\ UNCHANGED <<nodeCtlVars, crashes>>
DeviceResync(n)  == Resync(n) /\ UNCHANGED <<nodeCtlVars, crashes>>
DeviceRequeue(n) == DeviceTimer(n) /\ UNCHANGED <<nodeCtlVars, crashes>>
DeviceStart(n)   == DeviceGet(n) /\ UNCHANGED <<nodeCtlVars, crashes>>
DeviceStep       == DeviceWorker /\ UNCHANGED <<nodeCtlVars, crashes>>

\* Queues, markers and the reconciles in progress are lost; the caches are
\* filled anew, and every object in them is announced as created.
Restart ==
    /\ crashes < MaxCrashes
    /\ crashes' = crashes + 1
    /\ nodeCache' = node
    /\ nodeLog' = [n \in Nodes |-> <<>>]
    /\ crCache' = cr
    /\ nq' = {n \in Nodes : Exists(node[n]) /\ node[n].own}
    /\ dq' = {n \in Nodes : cr[n] # NoCR}
    /\ nDelay' = {} /\ nw' = NodeIdle /\ tagged' = {}
    /\ dDelay' = {} /\ dw' = DeviceIdle
    /\ UNCHANGED <<node, aged, cr, rev, eni, budget>>

Next ==
    \/ NodeChange
    \/ \E n \in Nodes : Timeout(n) \/ Collect(n) \/ Delete(n) \/ DeleteEnds(n)
    \/ \E e \in ENIs : AttachEnds(e) \/ AttachBreaks(e) \/ DeleteEni(e)
    \/ \E n \in Nodes : NodeEvent(n) \/ NodeRequeue(n) \/ NodeStart(n)
    \/ NodeStep
    \/ \E n \in Nodes : DeviceEvent(n) \/ DeviceResync(n) \/ DeviceRequeue(n) \/ DeviceStart(n)
    \/ DeviceStep
    \/ Restart

Spec == Init /\ [][Next]_vars

\* Informers deliver, timers fire, the work queues are first in first out,
\* workers do not stop in the middle, and time and the cloud move on.
Fairness ==
    /\ \A n \in Nodes :
         /\ WF_vars(Timeout(n)) /\ WF_vars(Collect(n)) /\ WF_vars(DeleteEnds(n))
         /\ WF_vars(NodeEvent(n)) /\ WF_vars(NodeRequeue(n)) /\ SF_vars(NodeStart(n))
         /\ WF_vars(DeviceEvent(n)) /\ WF_vars(DeviceResync(n)) /\ WF_vars(DeviceRequeue(n))
         /\ SF_vars(DeviceStart(n))
    /\ \A e \in ENIs : WF_vars(AttachEnds(e))
    /\ WF_vars(NodeStep) /\ WF_vars(DeviceStep)

FairSpec == Spec /\ Fairness

-----------------------------------------------------------------------------
(* Safety *)

NodeWork == [pc : NodePCs, n : Nodes, uid : Nat, inst : Instances \cup {NoInst},
             eris : SUBSET DeviceRec, need : SUBSET Nat, qp : Nat, jumbo : BOOLEAN,
             pending : SUBSET ENIs, rv : Nat]

DeviceWork == [pc : DevicePCs, n : Nodes, snap : CRRec \cup {NoCR},
               todo : SUBSET [dev : DeviceRec, st : EniStates, rdma : BOOLEAN],
               out : SUBSET StatusRec, rv : Nat]

\* The values the queues, caches, objects and reconciles in progress range over.
TypeOK ==
    /\ node \in [Nodes -> NodeRec] /\ nodeCache \in [Nodes -> NodeRec]
    /\ nodeLog \in [Nodes -> Seq(NodeRec)]
    /\ aged \in [Nodes -> Nat] /\ rev \in [Nodes -> Nat]
    /\ cr \in [Nodes -> CRRec \cup {NoCR}] /\ crCache \in [Nodes -> CRRec \cup {NoCR}]
    /\ eni \in [ENIs -> EniRec]
    /\ churn \in 0 .. MaxChurn /\ userDeletes \in 0 .. MaxUserDeletes
    /\ faults \in 0 .. MaxFaults /\ crashes \in 0 .. MaxCrashes
    /\ nq \subseteq Nodes /\ nDelay \subseteq Nodes /\ nw \in NodeWork /\ tagged \subseteq ENIs
    /\ dq \subseteq Nodes /\ dDelay \subseteq Nodes /\ dw \in DeviceWork

\* However often SelectERIs runs, fails half way or is cut off by a restart,
\* the controller creates at most one ENI per network card but the first (the
\* primary ENI serves that one), and none for an instance without ERDMA.
CreatedWithinCards ==
    \A i \in Instances :
        IF SupportsErdma(InstanceType[i])
        THEN Cardinality(TaggedIds(i)) <= CardCount(InstanceType[i]) - 1
        ELSE TaggedIds(i) = {}

\* A marker in taggedENIs means that the ENI has its tags, unless the tagging
\* call the marker was stored for is still under way.
MarkerMeansTagged ==
    \A e \in tagged :
        eni[e].excluded \/ (nw.pc = "backfill" /\ e \in nw.pending)

\* An ENI the controller created is only ever attached to the instance it was
\* created for, through whichever ERdmaDevice it is listed.
AttachedToItsInstance ==
    \A e \in ENIs :
        (eni[e].creator /\ eni[e].st \in {"Attaching", "InUse"}) => eni[e].inst = eni[e].instTag

\* A device reported Ready is an RDMA interface in use.
ReadyMeansInUse ==
    \A n \in Nodes : cr[n] # NoCR =>
        \A s \in cr[n].status :
            s.st = "Ready" => eni[s.dev.id].st = "InUse" /\ eni[s.dev.id].rdma

\* Something will look again at an ERdmaDevice that lists a device which is
\* not Ready: a queue, a timer, the worker, or an event still to come.
NonReadyIsWatched ==
    \A n \in Nodes : (cr[n] # NoCR /\ NonReady(cr[n].status)) =>
        n \in dq \cup dDelay \/ (dw.pc # "idle" /\ dw.n = n) \/ crCache[n] # cr[n]

\* The Node reconciler deletes by name, on the word of its caches: it still only
\* deletes the ERdmaDevice of a Node that is gone, replaced or being deleted.
DeletesOnlyOrphans ==
    [][ \A n \in Nodes :
          (nw.pc = "rmDelete" /\ nw # nw' /\ cr[n] # NoCR /\ cr'[n] = NoCR)
              => OwnerGone(n) \/ node[n].phase = "deleting" ]_vars

\* A Node (as the cache shows it) that the Node reconciler is to provision, and
\* whether it is going to: a queue, a timer, or the worker on its way to Create.
ToProvision(v) ==
    /\ v.phase \in {"ready", "notready"} /\ v.own
    /\ InstanceIDFromNode(v) # NoInst /\ SupportsErdma(InstanceType[v.inst])

Attended(n) ==
    \/ n \in nq \cup nDelay
    \/ nw.n = n /\ nw.pc \in {"list", "select", "lookup", "create", "tag", "jumbo", "createCR"}

\* No wake-up is lost: whatever event the predicates drop, and however old the
\* Node that the worker has read, a Node to provision is let go of only when the
\* cache lists an ERdmaDevice of its instance or its own now exists.
LetGoOnlyWithDevice ==
    [][ \A n \in Nodes :
          (ToProvision(nodeCache[n])' /\ ~Attended(n)' /\ (ToProvision(nodeCache[n]) => Attended(n)))
              => \/ Listed(nodeCache[n].inst)
                 \/ cr'[n] # NoCR /\ cr'[n].inst = nodeCache[n].inst ]_vars

-----------------------------------------------------------------------------
(* The inductive invariant behind CreatedWithinCards and                   *)
(* AttachedToItsInstance.                                                  *)

\* A device that may be attached to, or tagged for, instance i.
DeviceOf(d, i) ==
    /\ d.inst = i
    /\ eni[d.id].st # "free"
    /\ eni[d.id].creator => eni[d.id].instTag = i

\* The primary ENIs stay where they are, and are never the controller's own.
PrimaryHeld ==
    \A i \in Instances : LET p == eni[PrimaryENI[i]] IN
        p.st = "InUse" /\ p.inst = i /\ p.card = 0 /\ ~p.creator

\* Every copy of an ERdmaDevice lists devices of its own instance.
ListedDevices ==
    /\ \A n \in Nodes : cr[n] # NoCR => \A d \in cr[n].spec : DeviceOf(d, cr[n].inst)
    /\ \A n \in Nodes : crCache[n] # NoCR => \A d \in crCache[n].spec : DeviceOf(d, crCache[n].inst)
    /\ dw.pc \in {"describe", "ensure", "update"} =>
          /\ dw.snap # NoCR
          /\ \A d \in dw.snap.spec : DeviceOf(d, dw.snap.inst)
          /\ \A v \in dw.todo : v.dev \in dw.snap.spec

\* What the Node reconciler holds while it provisions an instance: the ENIs
\* still to be created and those that exist fit on the cards together.
Provisioning ==
    /\ nw.pc \in {"list", "select", "lookup", "create", "tag", "jumbo", "createCR", "backfill"} =>
          nw.inst \in Instances
    /\ nw.pc \in {"lookup", "create", "tag", "jumbo", "createCR"} =>
          /\ SupportsErdma(InstanceType[nw.inst])
          /\ nw.need \subseteq 1 .. CardCount(InstanceType[nw.inst]) - 1
          /\ \A d \in nw.eris : DeviceOf(d, nw.inst)
    /\ nw.pc = "create" =>
          /\ nw.need # {}
          /\ Cardinality(TaggedIds(nw.inst)) + Cardinality(nw.need)
                <= CardCount(InstanceType[nw.inst]) - 1
    /\ nw.pc = "backfill" =>
          \A e \in nw.pending : eni[e].creator => eni[e].instTag = nw.inst

Inductive ==
    /\ TypeOK
    /\ PrimaryHeld /\ ListedDevices /\ Provisioning
    /\ AttachedToItsInstance /\ CreatedWithinCards

-----------------------------------------------------------------------------
(* Liveness *)

\* A Node the controller is responsible for and can find the instance of.
Serviceable(n) ==
    /\ node[n].phase = "ready" /\ node[n].own
    /\ InstanceIDFromNode(node[n]) # NoInst
    /\ SupportsErdma(InstanceType[node[n].inst])

Provisioned(n) == cr[n] # NoCR /\ cr[n].uid = node[n].uid /\ Configured(cr[n])

\* The Node registers at most once.
NeverReplaced(n) == \E u \in 1 .. MaxChurn : [](node[n].uid \in {0, u})

\* A Node that stays serviceable, and has not replaced another of its name,
\* ends up with an ERdmaDevice whose devices are all Ready: no error, lost
\* event, delayed cache or slow attachment leaves it behind for good.
NodeProvisioned ==
    \A n \in Nodes :
        (NeverReplaced(n) /\ <>[]Serviceable(n)) => <>[]Provisioned(n)

\* What the comment in SelectERIs and the message of backfillEriTags promise:
\* an ENI whose tagging failed is tagged by a later reconcile.
ListedGetsTagged ==
    \A e \in ENIs :
        LET listed == \E n \in Nodes : cr[n] # NoCR /\ e \in {d.id : d \in cr[n].spec}
        IN  listed ~> (eni[e].excluded \/ ~listed)

-----------------------------------------------------------------------------
(* The life of an ERdmaDevice, as its readers may rely on it *)

PublicView(obj) ==
    [ owner    |-> obj.uid,
      inst     |-> obj.inst,
      jumbo    |-> obj.jumbo,
      devices  |-> obj.spec,
      ready    |-> {s.dev : s \in {x \in obj.status : x.st = "Ready"}},
      deleting |-> obj.deleting ]

PublicRec == [owner : Nat, inst : Instances, jumbo : BOOLEAN, devices : SUBSET DeviceRec,
              ready : SUBSET DeviceRec, deleting : BOOLEAN]

ASSUME NoObjectAssumption == NoCR \notin CRRec \cup PublicRec

Lifecycle == INSTANCE DeviceLifecycle
    WITH None <- NoCR, dev <- [n \in Nodes |-> IF cr[n] = NoCR THEN NoCR ELSE PublicView(cr[n])]

\* The controllers implement DeviceLifecycle.
LifecycleRefined == Lifecycle!Spec
=============================================================================

------------------------------ MODULE Cluster ------------------------------
(***************************************************************************)
(* What the two reconcilers of the controller share: the Kubernetes API    *)
(* server (Node and ERdmaDevice objects), the informer caches that lag     *)
(* behind it, and the ECS side (instances and their ENIs).  None of this   *)
(* is the repository's code; it is modelled from how the code uses it.     *)
(*                                                                         *)
(* A Node is [phase, uid, inst, own, prov]: own says that its labels match *)
(* the configured node selector, prov that it bears a provider ID.  An     *)
(* ERdmaDevice has the name of its node and is                             *)
(*   [uid, inst, jumbo, spec, status, deleting, rv]                        *)
(* where uid and inst are its owner reference and instance label, spec the *)
(* set of its devices, status the statuses reported for some of them, and  *)
(* deleting says that a foreground deletion (with its finalizer) is        *)
(* under way.  rv is its resource version.                                 *)
(***************************************************************************)
EXTENDS EriSelection, Sequences

CONSTANTS
    Nodes,            \* node names
    Instances,        \* ECS instances
    ENIs,             \* identifiers of ENIs, numbers
    PrimaryENI,       \* the primary ENI of each instance
    InstanceType,     \* the type of each instance
    Jumbo,            \* instances with jumbo frames enabled
    IpResolvable,     \* instances that their internal IP identifies
    ManagedNonOwned,  \* configuration: manage ENIs the controller did not create
    NodeKinds,        \* how Nodes may register: records [phase, own, prov]
    MaxChurn,         \* bound: changes of Node objects
    MaxLag,           \* bound: undelivered Node events per node
    MaxUserDeletes,   \* bound: ERdmaDevices and ENIs deleted by a user
    MaxFaults,        \* bound: failed API calls
    NoCR, NoInst      \* no object, no instance

ASSUME NodesAssumption == Nodes # {}

ASSUME EniAssumption ==
    /\ IsFiniteSet(ENIs) /\ ENIs \subseteq Nat
    /\ PrimaryENI \in [Instances -> ENIs]
    /\ \A i, j \in Instances : PrimaryENI[i] = PrimaryENI[j] => i = j

ASSUME InstanceAssumption ==
    /\ NoInst \notin Instances
    /\ \A i \in Instances :
          InstanceType[i] \in [eriQuantity : Nat \cup {Nil}, networkCards : Nat \cup {Nil},
                               queuePairs : Nat, gpus : Nat \cup {Nil}]

ASSUME ConfigAssumption ==
    /\ ManagedNonOwned \in BOOLEAN
    /\ NodeKinds \subseteq [phase : {"ready", "notready"}, own : BOOLEAN, prov : BOOLEAN]
    /\ Jumbo \subseteq Instances /\ IpResolvable \subseteq Instances
    /\ MaxChurn \in Nat /\ MaxLag \in Nat /\ MaxUserDeletes \in Nat /\ MaxFaults \in Nat

VARIABLES
    node,       \* Node objects
    nodeLog,    \* versions of each Node the informer has not delivered yet
    nodeCache,  \* Node objects in the informer cache
    aged,       \* incarnations of each Node older than the ready timeout
    cr,         \* ERdmaDevice objects
    crCache,    \* ERdmaDevice objects in the informer cache
    rev,        \* last resource version given to the ERdmaDevice of a node
    eni,        \* ENIs
    churn, userDeletes, faults   \* how much of the bounds is used up

k8sVars == <<node, nodeLog, nodeCache, aged, cr, crCache, rev>>
budget  == <<churn, userDeletes, faults>>
clusterVars == <<k8sVars, eni, budget>>

-----------------------------------------------------------------------------
(* Types *)

Phases == {"absent", "notready", "ready", "deleting"}
NodeRec == [phase : Phases, uid : Nat, inst : Instances \cup {NoInst},
            own : BOOLEAN, prov : BOOLEAN]

EniStates == {"free", "Available", "Attaching", "InUse", "gone"}
EniRec == [st : EniStates, inst : Instances \cup {NoInst}, card : Nat \cup {NoCard},
           rdma : BOOLEAN, qp : Nat, creator : BOOLEAN,
           instTag : Instances \cup {NoInst}, excluded : BOOLEAN]

DeviceRec == [id : ENIs, primary : BOOLEAN, card : Nat, qp : Nat,
              inst : Instances \cup {NoInst}]
Statuses == {"Ready", "Pending", "Failed"}

StatusRec == [dev : DeviceRec, st : Statuses]

CRRec == [uid : Nat, inst : Instances, jumbo : BOOLEAN, spec : SUBSET DeviceRec,
          status : SUBSET StatusRec, deleting : BOOLEAN, rv : Nat]

-----------------------------------------------------------------------------
(* Kubernetes *)

AbsentNode == [phase |-> "absent", uid |-> 0, inst |-> NoInst, own |-> FALSE, prov |-> FALSE]

\* A change of a Node object becomes visible to the controller later, in order.
ChangeNode(n, new) ==
    /\ churn < MaxChurn /\ Len(nodeLog[n]) < MaxLag
    /\ node' = [node EXCEPT ![n] = new]
    /\ nodeLog' = [nodeLog EXCEPT ![n] = Append(@, new)]
    /\ churn' = churn + 1
    /\ UNCHANGED <<nodeCache, aged, cr, crCache, rev, eni, userDeletes, faults>>

\* A Node registers (again): uid is fresh, its instance is no other node's.
CreateNode(n) ==
    /\ node[n].phase = "absent"
    /\ \E i \in Instances, k \in NodeKinds :
         /\ \A m \in Nodes : node[m].phase # "absent" => node[m].inst # i
         /\ ChangeNode(n, [phase |-> k.phase, uid |-> churn + 1, inst |-> i,
                           own |-> k.own, prov |-> k.prov])

SetReady(n) ==
    /\ node[n].phase = "notready"
    /\ ChangeNode(n, [node[n] EXCEPT !.phase = "ready"])

SetNotReady(n) ==
    /\ node[n].phase = "ready"
    /\ ChangeNode(n, [node[n] EXCEPT !.phase = "notready"])

Relabel(n) ==
    /\ node[n].phase # "absent"
    /\ ChangeNode(n, [node[n] EXCEPT !.own = ~@])

SetProviderID(n) ==
    /\ node[n].phase # "absent" /\ ~node[n].prov
    /\ ChangeNode(n, [node[n] EXCEPT !.prov = TRUE])

\* A deletion with finalizers first sets the deletion timestamp.
MarkNodeDeleting(n) ==
    /\ node[n].phase \in {"ready", "notready"}
    /\ ChangeNode(n, [node[n] EXCEPT !.phase = "deleting"])

DeleteNode(n) ==
    /\ node[n].phase # "absent"
    /\ ChangeNode(n, [AbsentNode EXCEPT !.own = node[n].own])

\* The ready timeout of the current incarnation elapses (which only matters, and
\* is only modelled, while the Node is not ready).
WaitTimeout(n) ==
    /\ node[n].phase = "notready" /\ aged[n] # node[n].uid
    /\ aged' = [aged EXCEPT ![n] = node[n].uid]
    /\ UNCHANGED <<node, nodeLog, nodeCache, cr, crCache, rev, eni, budget>>

\* Garbage collection: the owner of the ERdmaDevice no longer exists.
OwnerGone(n) == cr[n] # NoCR /\ (node[n].phase = "absent" \/ node[n].uid # cr[n].uid)

CollectGarbage(n) ==
    /\ OwnerGone(n)
    /\ cr' = [cr EXCEPT ![n] = NoCR]
    /\ UNCHANGED <<node, nodeLog, nodeCache, aged, crCache, rev, eni, budget>>

\* Somebody deletes the ERdmaDevice, at once or in the foreground ...
UserDelete(n) ==
    /\ userDeletes < MaxUserDeletes /\ cr[n] # NoCR /\ ~cr[n].deleting
    /\ userDeletes' = userDeletes + 1
    /\ \/ cr' = [cr EXCEPT ![n] = NoCR] /\ rev' = rev
       \/ /\ rev' = [rev EXCEPT ![n] = @ + 1]
          /\ cr' = [cr EXCEPT ![n] = [@ EXCEPT !.deleting = TRUE, !.rv = rev[n] + 1]]
    /\ UNCHANGED <<node, nodeLog, nodeCache, aged, crCache, eni, churn, faults>>

\* ... and the foreground deletion ends.
FinishDelete(n) ==
    /\ cr[n] # NoCR /\ cr[n].deleting
    /\ cr' = [cr EXCEPT ![n] = NoCR]
    /\ UNCHANGED <<node, nodeLog, nodeCache, aged, crCache, rev, eni, budget>>

-----------------------------------------------------------------------------
(* ECS *)

\* An ENI as DescribeNetworkInterfaces shows it.
Describe(e) ==
    [id |-> e, primary |-> \E i \in Instances : PrimaryENI[i] = e, rdma |-> eni[e].rdma,
     qp |-> eni[e].qp, card |-> eni[e].card, creator |-> eni[e].creator, inst |-> eni[e].inst]

\* The ENIs of an instance, those that are still being attached included.
DescribeByInstance(i) ==
    {Describe(e) : e \in {x \in ENIs : eni[x].st \in {"InUse", "Attaching"} /\ eni[x].inst = i}}

TaggedIds(i) ==
    {e \in ENIs : eni[e].st \notin {"free", "gone"} /\ eni[e].creator /\ eni[e].instTag = i}
DescribeByTag(i) == {Describe(e) : e \in TaggedIds(i)}

FreeENI == [st |-> "free", inst |-> NoInst, card |-> NoCard, rdma |-> FALSE, qp |-> 0,
            creator |-> FALSE, instTag |-> NoInst, excluded |-> FALSE]

\* The primary ENI an instance starts with, and the same pre-bound as an ERI.
PrimaryOf(i) == [FreeENI EXCEPT !.st = "InUse", !.inst = i, !.card = 0]
PreboundOf(i, q) == [PrimaryOf(i) EXCEPT !.rdma = TRUE, !.qp = q]

\* An ENI that was asked to attach does so, or falls back to Available.
FinishAttach(e) ==
    /\ eni[e].st = "Attaching"
    /\ eni' = [eni EXCEPT ![e].st = "InUse"]
    /\ UNCHANGED <<k8sVars, budget>>

AttachFails(e) ==
    /\ faults < MaxFaults /\ eni[e].st = "Attaching"
    /\ faults' = faults + 1
    /\ eni' = [eni EXCEPT ![e].st = "Available", ![e].inst = NoInst, ![e].card = NoCard]
    /\ UNCHANGED <<k8sVars, churn, userDeletes>>

\* Somebody deletes a detached ENI.
DeleteENI(e) ==
    /\ userDeletes < MaxUserDeletes /\ eni[e].st = "Available"
    /\ userDeletes' = userDeletes + 1
    /\ eni' = [eni EXCEPT ![e].st = "gone"]
    /\ UNCHANGED <<k8sVars, churn, faults>>

\* One more API call fails.
Fault == faults < MaxFaults /\ faults' = faults + 1
NoFault == UNCHANGED faults

ClusterInit ==
    /\ node = [n \in Nodes |-> AbsentNode]
    /\ nodeLog = [n \in Nodes |-> <<>>]
    /\ nodeCache = node
    /\ aged = [n \in Nodes |-> 0]
    /\ cr = [n \in Nodes |-> NoCR]
    /\ crCache = cr
    /\ rev = [n \in Nodes |-> 0]
    /\ eni \in { [e \in ENIs |-> IF \E i \in Instances : PrimaryENI[i] = e
                                 THEN f[CHOOSE i \in Instances : PrimaryENI[i] = e]
                                 ELSE FreeENI] :
                 f \in {g \in [Instances -> UNION {{PrimaryOf(i), PreboundOf(i, 1)} : i \in Instances}] :
                           \A i \in Instances :
                               g[i].inst = i /\ (g[i].rdma => SupportsErdma(InstanceType[i]))} }
    /\ churn = 0 /\ userDeletes = 0 /\ faults = 0
=============================================================================

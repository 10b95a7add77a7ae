----------------------- MODULE ErdmaControllerProofs -----------------------
(***************************************************************************)
(* Theorems about ErdmaController, for any number of nodes, instances,     *)
(* cards and ENIs, and any number of failures and restarts.                *)
(*                                                                         *)
(* First the types, and Inductive: which interface may be where, and that  *)
(* the two reconcilers never disagree about it.  Then what follows for the *)
(* ERdmaDevice objects: their statuses are true, nobody forgets one that   *)
(* is not Ready, the Node reconciler deletes orphans only, the objects     *)
(* live as DeviceLifecycle says, and no Node is let go of without one.     *)
(***************************************************************************)
EXTENDS ErdmaController, EriSelectionProofs

USE DEF k8sVars, budget, clusterVars, nodeCtlVars, deviceCtlVars

-----------------------------------------------------------------------------
(* Type correctness *)

LEMMA IdleTypes == NodeIdle \in NodeWork /\ DeviceIdle \in DeviceWork
<1>1. (CHOOSE n \in Nodes : TRUE) \in Nodes
  BY NodesAssumption
<1>2. NodeIdle \in NodeWork
  BY <1>1 DEF NodeIdle, NodeWork, NodePCs
<1>3. DeviceIdle \in DeviceWork
  BY <1>1 DEF DeviceIdle, DeviceWork, DevicePCs
<1>. QED
  BY <1>2, <1>3

LEMMA IdlePCs == NodeIdle.pc = "idle" /\ DeviceIdle.pc = "idle"
BY DEF NodeIdle, DeviceIdle

LEMMA BlankTypes ==
    /\ AbsentNode \in NodeRec
    /\ FreeENI \in EniRec
    /\ \A i \in Instances : PrimaryOf(i) \in EniRec /\ PreboundOf(i, 1) \in EniRec
BY DEF AbsentNode, NodeRec, Phases, FreeENI, EniRec, EniStates, NoCard, PrimaryOf, PreboundOf

LEMMA InitType == Init => TypeOK
<1> SUFFICES ASSUME Init PROVE TypeOK
  OBVIOUS
<1>1. eni \in [ENIs -> EniRec]
  <2>1. PICK f \in [Instances -> UNION {{PrimaryOf(i), PreboundOf(i, 1)} : i \in Instances}] :
           eni = [e \in ENIs |-> IF \E i \in Instances : PrimaryENI[i] = e
                                 THEN f[CHOOSE i \in Instances : PrimaryENI[i] = e]
                                 ELSE FreeENI]
    BY DEF Init, ClusterInit
  <2>2. \A i \in Instances : f[i] \in EniRec
    BY BlankTypes
  <2>. QED
    BY <2>1, <2>2, BlankTypes
<1>. QED
  BY <1>1, IdleTypes, BlankTypes, ConfigAssumption, CrashAssumption
     DEF Init, ClusterInit, NodeControllerInit, DeviceControllerInit, TypeOK

LEMMA NodeChangeType == TypeOK /\ NodeChange => TypeOK'
<1> SUFFICES ASSUME TypeOK, NodeChange PROVE TypeOK'
  OBVIOUS
<1>1. ASSUME NEW n \in Nodes, NEW new \in NodeRec, ChangeNode(n, new),
             UNCHANGED <<nodeCtlVars, deviceCtlVars, crashes>>
      PROVE  TypeOK'
  BY <1>1, ConfigAssumption DEF ChangeNode, TypeOK
<1>2. PICK n \in Nodes : \/ CreateNode(n) \/ SetReady(n) \/ SetNotReady(n) \/ Relabel(n)
                         \/ SetProviderID(n) \/ MarkNodeDeleting(n) \/ DeleteNode(n)
  BY DEF NodeChange
<1>3. node[n] \in NodeRec /\ churn + 1 \in Nat
  BY DEF TypeOK
<1>4. \E new \in NodeRec : ChangeNode(n, new)
  BY <1>2, <1>3, BlankTypes, ConfigAssumption
     DEF CreateNode, SetReady, SetNotReady, Relabel, SetProviderID, MarkNodeDeleting,
         DeleteNode, NodeRec, Phases
<1>. QED
  BY <1>1, <1>4 DEF NodeChange

LEMMA CRTypes ==
    ASSUME NEW c \in CRRec, NEW v \in Nat, NEW s \in SUBSET StatusRec
    PROVE  /\ [c EXCEPT !.deleting = TRUE, !.rv = v] \in CRRec
           /\ [c EXCEPT !.status = s, !.rv = v] \in CRRec
BY DEF CRRec

LEMMA ObjectType ==
    ASSUME TypeOK, NEW n \in Nodes
    PROVE  /\ Timeout(n) => TypeOK'
           /\ Collect(n) => TypeOK'
           /\ Delete(n) => TypeOK'
           /\ DeleteEnds(n) => TypeOK'
<1>1. Timeout(n) => TypeOK'
  BY DEF Timeout, WaitTimeout, TypeOK, NodeRec
<1>2. Collect(n) => TypeOK'
  BY DEF Collect, CollectGarbage, TypeOK
<1>3. ASSUME Delete(n) PROVE TypeOK'
  <2>0. cr[n] \in CRRec /\ rev \in [Nodes -> Nat]
    BY <1>3 DEF Delete, UserDelete, TypeOK
  <2>1. [cr[n] EXCEPT !.deleting = TRUE, !.rv = rev[n] + 1] \in CRRec
    <3>1. rev[n] + 1 \in Nat
      BY <2>0
    <3>. QED
      BY <2>0, <3>1, CRTypes
  <2>2. cr' \in [Nodes -> CRRec \cup {NoCR}]
    BY <1>3, <2>1 DEF Delete, UserDelete, TypeOK
  <2>3. rev' \in [Nodes -> Nat]
    <3>1. rev' = rev \/ rev' = [rev EXCEPT ![n] = @ + 1]
      BY <1>3 DEF Delete, UserDelete
    <3>. QED
      BY <2>0, <3>1
  <2>4. userDeletes' \in 0 .. MaxUserDeletes
    BY <1>3, ConfigAssumption DEF Delete, UserDelete, TypeOK
  <2>. QED
    BY <1>3, <2>2, <2>3, <2>4 DEF Delete, UserDelete, TypeOK
<1>4. DeleteEnds(n) => TypeOK'
  BY DEF DeleteEnds, FinishDelete, TypeOK
<1>. QED
  BY <1>1, <1>2, <1>3, <1>4

LEMMA EniChangeType ==
    ASSUME TypeOK, NEW e \in ENIs
    PROVE  /\ AttachEnds(e) => TypeOK'
           /\ AttachBreaks(e) => TypeOK'
           /\ DeleteEni(e) => TypeOK'
<1>1. \A s \in EniStates : [eni[e] EXCEPT !.st = s] \in EniRec
  BY DEF TypeOK, EniRec
<1>2. [eni[e] EXCEPT !.st = "Available", !.inst = NoInst, !.card = NoCard] \in EniRec
  BY DEF TypeOK, EniRec, EniStates
<1>3. AttachEnds(e) => TypeOK'
  <2>1. AttachEnds(e) => eni' = [eni EXCEPT ![e] = [eni[e] EXCEPT !.st = "InUse"]]
    BY DEF AttachEnds, FinishAttach
  <2>. QED
    BY <1>1, <2>1 DEF AttachEnds, FinishAttach, TypeOK, EniStates
<1>4. AttachBreaks(e) => TypeOK'
  <2>1. AttachBreaks(e) =>
          eni' = [eni EXCEPT ![e] = [eni[e] EXCEPT !.st = "Available", !.inst = NoInst,
                                                   !.card = NoCard]]
    BY DEF AttachBreaks, AttachFails, TypeOK, EniRec
  <2>2. AttachBreaks(e) => eni' \in [ENIs -> EniRec]
    BY <1>2, <2>1 DEF TypeOK
  <2>. QED
    BY <2>2, ConfigAssumption DEF AttachBreaks, AttachFails, TypeOK
<1>5. DeleteEni(e) => TypeOK'
  <2>1. DeleteEni(e) => eni' = [eni EXCEPT ![e] = [eni[e] EXCEPT !.st = "gone"]]
    BY DEF DeleteEni, DeleteENI
  <2>2. DeleteEni(e) => eni' \in [ENIs -> EniRec]
    BY <1>1, <2>1 DEF TypeOK, EniStates
  <2>. QED
    BY <2>2, ConfigAssumption DEF DeleteEni, DeleteENI, TypeOK
<1>. QED
  BY <1>3, <1>4, <1>5

LEMMA FaultType == ASSUME TypeOK, NoFault \/ Fault PROVE faults' \in 0 .. MaxFaults
BY ConfigAssumption DEF TypeOK, NoFault, Fault

LEMMA QueueType ==
    ASSUME TypeOK, NEW n \in Nodes
    PROVE  /\ NodeEvent(n) => TypeOK'
           /\ NodeRequeue(n) => TypeOK'
           /\ DeviceEvent(n) => TypeOK'
           /\ DeviceResync(n) => TypeOK'
           /\ DeviceRequeue(n) => TypeOK'
           /\ DeviceStart(n) => TypeOK'
<1>1. NodeEvent(n) => TypeOK'
  BY DEF NodeEvent, DeliverNode, TypeOK
<1>2. NodeRequeue(n) => TypeOK'
  BY DEF NodeRequeue, NodeTimer, TypeOK
<1>3. DeviceEvent(n) => TypeOK'
  BY DEF DeviceEvent, DeliverDevice, TypeOK
<1>4. DeviceResync(n) => TypeOK'
  BY DEF DeviceResync, Resync, TypeOK
<1>5. DeviceRequeue(n) => TypeOK'
  BY DEF DeviceRequeue, DeviceTimer, TypeOK
<1>6. DeviceStart(n) => TypeOK'
  <2>1. [DeviceIdle EXCEPT !.pc = "rmList", !.n = n] \in DeviceWork
    BY IdleTypes DEF DeviceWork, DevicePCs
  <2>2. crCache[n] # NoCR =>
          [DeviceIdle EXCEPT !.pc = "describe", !.n = n, !.snap = crCache[n]] \in DeviceWork
    BY IdleTypes DEF DeviceWork, DevicePCs, TypeOK
  <2>. QED
    BY <2>1, <2>2 DEF DeviceStart, DeviceGet, TypeOK
<1>. QED
  BY <1>1, <1>2, <1>3, <1>4, <1>5, <1>6

LEMMA NodeStartType == ASSUME TypeOK, NEW n \in Nodes, NodeStart(n) PROVE TypeOK'
<1>1. [NodeIdle EXCEPT !.pc = "rmList", !.n = n] \in NodeWork
  BY IdleTypes DEF NodeWork, NodePCs
<1>2. nodeCache[n] \in NodeRec /\ InstanceIDFromNode(nodeCache[n]) \in Instances \cup {NoInst}
  BY DEF TypeOK, InstanceIDFromNode, NodeRec
<1>3. [NodeIdle EXCEPT !.pc = "list", !.n = n, !.uid = nodeCache[n].uid,
                       !.inst = InstanceIDFromNode(nodeCache[n])] \in NodeWork
  BY IdleTypes, <1>2 DEF NodeWork, NodePCs, NodeRec
<1>4. faults' \in 0 .. MaxFaults
  BY FaultType DEF NodeStart, NodeGet
<1>5. nw' \in NodeWork /\ nDelay' \subseteq Nodes /\ nq' \subseteq Nodes
  BY <1>1, <1>3 DEF NodeStart, NodeGet, TypeOK
<1>. QED
  BY <1>4, <1>5 DEF NodeStart, NodeGet, TypeOK

\* The two ways a reconcile ends keep the types of the work queue.
LEMMA EndTypes ==
    ASSUME TypeOK
    PROVE  /\ NodeDone \/ NodeRetry => nw' \in NodeWork /\ nDelay' \subseteq Nodes
           /\ DeviceDone \/ DeviceRetry => dw' \in DeviceWork /\ dDelay' \subseteq Nodes
BY IdleTypes DEF TypeOK, NodeDone, NodeRetry, DeviceDone, DeviceRetry, NodeWork, DeviceWork

\* Tagging changes tags only.
LEMMA TagType ==
    ASSUME TypeOK, NEW ids, NEW i \in Instances, EnsureEriTags(ids, i)
    PROVE  eni' \in [ENIs -> EniRec] /\ faults' \in 0 .. MaxFaults
<1>1. faults' \in 0 .. MaxFaults
  BY FaultType DEF EnsureEriTags
<1>2. \A e \in ENIs : [eni[e] EXCEPT !.excluded = TRUE, !.instTag = i] \in EniRec
  BY DEF TypeOK, EniRec
<1>. QED
  BY <1>1, <1>2 DEF EnsureEriTags, TypeOK

LEMMA EriType ==
    ASSUME TypeOK, NEW e \in ENIs, NEW q \in Nat
    PROVE  toEri(Describe(e), q) \in DeviceRec
BY DEF TypeOK, EniRec, DeviceRec, toEri, Describe, eniCardIndex, NoCard

\* The facts about the Node worker's state that its types rest on.
LEMMA ProvisioningTypes ==
    ASSUME Inductive
    PROVE  /\ nw \in NodeWork /\ nw.n \in Nodes /\ nw.qp \in Nat
           /\ nw.pc \in {"list", "select", "lookup", "create", "tag", "jumbo", "createCR", "backfill"} =>
                 nw.inst \in Instances
BY DEF Inductive, TypeOK, Provisioning, NodeWork

LEMMA NodeListType == ASSUME Inductive, NodeStep, NodeList PROVE TypeOK'
<1> DEFINE pending == {d.id : d \in CachedDevicesOf(nw.inst)} \ tagged
<1>1. CachedDevicesOf(nw.inst) \subseteq DeviceRec
  BY DEF CachedDevicesOf, Inductive, TypeOK, CRRec
<1>2. pending \subseteq ENIs
  BY <1>1 DEF DeviceRec
<1>3. /\ [nw EXCEPT !.pc = "select"] \in NodeWork
      /\ [nw EXCEPT !.pc = "backfill", !.pending = pending] \in NodeWork
  BY <1>2, ProvisioningTypes DEF NodeWork, NodePCs
<1>4. nw' \in NodeWork /\ nDelay' \subseteq Nodes /\ tagged' \subseteq ENIs
  BY <1>2, <1>3, EndTypes DEF NodeList, Inductive, TypeOK
<1>. QED
  BY <1>4 DEF NodeStep, NodeList, Inductive, TypeOK

LEMMA NodeBackfillType == ASSUME Inductive, NodeStep, NodeBackfill PROVE TypeOK'
<1>1. nw.inst \in Instances
  BY ProvisioningTypes DEF NodeBackfill
<1>2. eni' \in [ENIs -> EniRec] /\ faults' \in 0 .. MaxFaults
  BY <1>1, TagType DEF NodeBackfill, Inductive
<1>3. nw' \in NodeWork /\ nDelay' \subseteq Nodes
  BY EndTypes DEF NodeBackfill, Inductive
<1>4. tagged' \subseteq ENIs
  BY DEF NodeBackfill, Inductive, TypeOK
<1>. QED
  BY <1>2, <1>3, <1>4 DEF NodeStep, NodeBackfill, Inductive, TypeOK

\* The ENIs of an instance, as they are described, become devices.
LEMMA DescribedType ==
    ASSUME TypeOK, NEW i, NEW q \in Nat,
           NEW x \in DescribeByInstance(i) \cup DescribeByTag(i)
    PROVE  /\ \E e \in ENIs : x = Describe(e)
           /\ toEri(x, q) \in DeviceRec
BY EriType DEF DescribeByInstance, DescribeByTag, TaggedIds

\* They are finitely many, and each has a number of queue pairs.
LEMMA DescribedCounted ==
    ASSUME TypeOK, NEW i
    PROVE  Counted(DescribeByInstance(i))
<1> DEFINE attached == {e \in ENIs : eni[e].st \in {"InUse", "Attaching"} /\ eni[e].inst = i}
<1>1. IsFiniteSet(attached)
  BY EniAssumption, FS_Subset
<1>2. DescribeByInstance(i) = {Describe(e) : e \in attached}
  BY DEF DescribeByInstance
<1>3. IsFiniteSet(DescribeByInstance(i))
  <2> DEFINE f == [e \in attached |-> Describe(e)]
  <2> HIDE DEF attached
  <2>1. f \in Surjection(attached, DescribeByInstance(i))
    BY <1>2 DEF Surjection
  <2>. QED
    BY <1>1, <2>1, FS_Surjection
<1>4. \A e \in ENIs : Describe(e).qp \in Nat
  BY DEF Describe, TypeOK, EniRec
<1>. QED
  BY <1>2, <1>3, <1>4 DEF Counted

LEMMA NodeSelectType == ASSUME Inductive, NodeStep, NodeSelect PROVE TypeOK'
<1> DEFINE i == nw.inst
           type == InstanceType[i]
<1>1. i \in Instances
  BY ProvisioningTypes DEF NodeSelect
<1>2. faults' \in 0 .. MaxFaults
  BY FaultType DEF NodeSelect, Inductive
<1>3. ASSUME SupportsErdma(type),
             NEW r \in SelectEriFromExist(DescribeByInstance(i), QueuePairCount(type),
                                          CardCount(type), ManagedNonOwned)
      PROVE  [nw EXCEPT !.pc = "lookup", !.eris = r.eris, !.need = r.need, !.qp = r.qp]
                \in NodeWork
  <2>1. CardCount(type) \in Nat \ {0} /\ QueuePairCount(type) \in Nat
    BY <1>1, <1>3, CardCountType, InstanceAssumption
  <2>2. PlanFrom(r, DescribeByInstance(i), CardCount(type))
    BY <2>1, <1>3, SelectType, DescribedCounted DEF Inductive
  <2>3. r.eris \subseteq DeviceRec /\ r.qp \in Nat
    BY <2>2, DescribedType DEF Inductive, PlanFrom
  <2>4. r.need \subseteq Nat
    BY <2>1, <2>2 DEF PlanFrom
  <2>. QED
    BY <2>3, <2>4, ProvisioningTypes DEF NodeWork, NodePCs
<1>4. nw' \in NodeWork /\ nDelay' \subseteq Nodes
  BY <1>3, EndTypes DEF NodeSelect, Inductive, TypeOK
<1>. QED
  BY <1>2, <1>4 DEF NodeStep, NodeSelect, Inductive, TypeOK

LEMMA NodeLookupType == ASSUME Inductive, NodeStep, NodeLookup PROVE TypeOK'
<1> DEFINE i == nw.inst
           tag == DescribeByTag(i)
           need == nw.need \ ReusedCards(tag, nw.need)
<1>1. i \in Instances /\ nw.need \subseteq Nat /\ nw.qp \in Nat
  BY ProvisioningTypes DEF NodeLookup, NodeWork
<1>2. faults' \in 0 .. MaxFaults
  BY FaultType DEF NodeLookup, Inductive
<1>3. ASSUME NEW reused \in ReuseTagged(tag, nw.need, nw.qp, i)
      PROVE  [nw EXCEPT !.pc = AfterCreate(need), !.need = need, !.eris = @ \cup reused]
                \in NodeWork
  <2>1. ASSUME NEW d \in reused PROVE d \in DeviceRec
    <3>0. ReusedFrom(reused, tag, nw.need, nw.qp, i)
      BY <1>3, ReuseResult
    <3>1. PICK x \in tag, c \in nw.need : d = [toEri(x, nw.qp) EXCEPT !.inst = i, !.card = c]
      BY <3>0 DEF ReusedFrom
    <3>2. toEri(x, nw.qp) \in DeviceRec
      BY <1>1, DescribedType DEF Inductive
    <3>. QED
      BY <1>1, <3>1, <3>2 DEF DeviceRec
  <2>2. AfterCreate(need) \in NodePCs
    BY DEF AfterCreate, NodePCs
  <2>. QED
    BY <1>1, <2>1, <2>2, ProvisioningTypes DEF NodeWork
<1>4. nw' \in NodeWork /\ nDelay' \subseteq Nodes
  BY <1>3, EndTypes DEF NodeLookup, Inductive, TypeOK
<1>. QED
  BY <1>2, <1>4 DEF NodeStep, NodeLookup, Inductive, TypeOK

LEMMA NodeCreateEniType == ASSUME Inductive, NodeStep, NodeCreateEni PROVE TypeOK'
<1> DEFINE i == nw.inst
           card == Min(nw.need)
           need == nw.need \ {card}
<1>1. i \in Instances /\ nw.need \subseteq Nat /\ nw.qp \in Nat /\ card \in nw.need
  BY ProvisioningTypes, MinIsLeast DEF NodeCreateEni, NodeWork, Inductive, Provisioning
<1>2. faults' \in 0 .. MaxFaults
  BY FaultType DEF NodeCreateEni, Inductive
<1>3. NewENI(i, nw.qp) \in EniRec
  BY <1>1, BlankTypes DEF NewENI, EniRec, EniStates
<1>4. eni' \in [ENIs -> EniRec]
  BY <1>3 DEF NodeCreateEni, Inductive, TypeOK
<1>5. ASSUME NEW e \in ENIs
      PROVE  [nw EXCEPT !.pc = AfterCreate(need), !.need = need,
                        !.eris = @ \cup {CreatedEri(e, card, i)}] \in NodeWork
  <2>1. CreatedEri(e, card, i) \in DeviceRec
    BY <1>1 DEF CreatedEri, DeviceRec
  <2>2. AfterCreate(need) \in NodePCs
    BY DEF AfterCreate, NodePCs
  <2>. QED
    BY <1>1, <2>1, <2>2, ProvisioningTypes DEF NodeWork
<1>6. nw' \in NodeWork /\ nDelay' \subseteq Nodes
  BY <1>5, EndTypes DEF NodeCreateEni, Inductive, TypeOK
<1>. QED
  BY <1>2, <1>4, <1>6 DEF NodeStep, NodeCreateEni, Inductive, TypeOK

LEMMA NodeTagType == ASSUME Inductive, NodeStep, NodeTag PROVE TypeOK'
<1>1. nw.inst \in Instances
  BY ProvisioningTypes DEF NodeTag
<1>2. eni' \in [ENIs -> EniRec] /\ faults' \in 0 .. MaxFaults
  BY <1>1, TagType DEF NodeTag, Inductive
<1>3. nw' \in NodeWork
  BY ProvisioningTypes DEF NodeTag, NodeWork, NodePCs
<1>. QED
  BY <1>2, <1>3 DEF NodeStep, NodeTag, Inductive, TypeOK

LEMMA NodeJumboType == ASSUME Inductive, NodeStep, NodeJumbo PROVE TypeOK'
<1>1. \A j \in BOOLEAN : [nw EXCEPT !.pc = "createCR", !.jumbo = j] \in NodeWork
  BY ProvisioningTypes DEF NodeWork, NodePCs
<1>2. (nw.inst \in Jumbo) \in BOOLEAN
  OBVIOUS
<1>3. nw' \in NodeWork
  BY <1>1, <1>2, Zenon DEF NodeJumbo
<1>4. faults' \in 0 .. MaxFaults
  BY FaultType DEF NodeJumbo, Inductive
<1>. QED
  BY <1>3, <1>4 DEF NodeStep, NodeJumbo, Inductive, TypeOK

LEMMA NodeCreateCRType == ASSUME Inductive, NodeStep, NodeCreateCR PROVE TypeOK'
<1>1. nw.inst \in Instances /\ nw.n \in Nodes /\ nw \in NodeWork /\ rev \in [Nodes -> Nat]
  BY ProvisioningTypes DEF NodeCreateCR, Inductive, TypeOK
<1>2. NewCR \in CRRec
  <2>1. rev[nw.n] + 1 \in Nat
    BY <1>1
  <2>. QED
    BY <1>1, <2>1 DEF NewCR, CRRec, NodeWork
<1>3. cr' \in [Nodes -> CRRec \cup {NoCR}]
  BY <1>2 DEF NodeCreateCR, Inductive, TypeOK
<1>4. rev' \in [Nodes -> Nat]
  <2>1. rev' = rev \/ rev' = [rev EXCEPT ![nw.n] = @ + 1]
    BY DEF NodeCreateCR
  <2>. QED
    BY <1>1, <2>1
<1>5. faults' \in 0 .. MaxFaults
  BY FaultType DEF NodeCreateCR, Inductive
<1>6. [NodeIdle EXCEPT !.pc = "poll", !.n = nw.n] \in NodeWork
  BY <1>1, IdleTypes DEF NodeWork, NodePCs
<1>7. nw' \in NodeWork /\ nDelay' \subseteq Nodes
  BY <1>6, EndTypes DEF NodeCreateCR, Inductive, TypeOK
<1>. QED
  BY <1>3, <1>4, <1>5, <1>7 DEF NodeStep, NodeCreateCR, Inductive, TypeOK

LEMMA RemoveTypes ==
    ASSUME TypeOK, NEW n \in Nodes, NEW v, NEW ok,
           RemovePatch(n, v, ok) \/ RemoveDelete(n, ok)
    PROVE  cr' \in [Nodes -> CRRec \cup {NoCR}] /\ faults' \in 0 .. MaxFaults
<1>1. faults' \in 0 .. MaxFaults
  BY FaultType DEF RemovePatch, RemoveDelete
<1>2. cr' = cr \/ cr' = [cr EXCEPT ![n] = NoCR]
  BY DEF RemovePatch, RemoveDelete
<1>. QED
  BY <1>1, <1>2 DEF TypeOK

LEMMA NodeRmTypes ==
    ASSUME Inductive, NodeStep, NodePoll \/ NodeRmList \/ NodeRmPatch \/ NodeRmDelete
    PROVE  TypeOK'
<1>1. nw \in NodeWork /\ nw.n \in Nodes
  BY ProvisioningTypes
<1>2. CASE NodePoll
  BY <1>2, EndTypes DEF NodePoll, NodeStep, Inductive, TypeOK
<1>3. CASE NodeRmList
  <2>1. crCache[nw.n] # NoCR =>
           [nw EXCEPT !.pc = "rmPatch", !.rv = crCache[nw.n].rv] \in NodeWork
    <3>1. crCache[nw.n] # NoCR => crCache[nw.n].rv \in Nat
      BY <1>1 DEF Inductive, TypeOK, CRRec
    <3>. QED
      BY <1>1, <3>1 DEF NodeWork, NodePCs
  <2>2. nw' \in NodeWork /\ nDelay' \subseteq Nodes
    BY <1>3, <2>1, EndTypes DEF NodeRmList, Inductive, TypeOK
  <2>. QED
    BY <1>3, <2>2 DEF NodeRmList, NodeStep, Inductive, TypeOK
<1>4. CASE NodeRmPatch
  <2>1. [nw EXCEPT !.pc = "rmDelete"] \in NodeWork
    BY <1>1 DEF NodeWork, NodePCs
  <2>2. nw' \in NodeWork /\ nDelay' \subseteq Nodes
    BY <1>4, <2>1, EndTypes DEF NodeRmPatch, Inductive, TypeOK
  <2>3. cr' \in [Nodes -> CRRec \cup {NoCR}] /\ faults' \in 0 .. MaxFaults
    BY <1>1, <1>4, RemoveTypes DEF NodeRmPatch, Inductive
  <2>. QED
    BY <1>4, <2>2, <2>3 DEF NodeRmPatch, RemovePatch, NodeStep, Inductive, TypeOK
<1>5. CASE NodeRmDelete
  <2>1. nw' \in NodeWork /\ nDelay' \subseteq Nodes
    BY <1>5, EndTypes DEF NodeRmDelete, Inductive
  <2>2. cr' \in [Nodes -> CRRec \cup {NoCR}] /\ faults' \in 0 .. MaxFaults
    BY <1>1, <1>5, RemoveTypes DEF NodeRmDelete, Inductive
  <2>. QED
    BY <1>5, <2>1, <2>2 DEF NodeRmDelete, RemoveDelete, NodeStep, Inductive, TypeOK
<1>. QED
  BY <1>2, <1>3, <1>4, <1>5

\* The devices the worker treats are those of the object it read.
LEMMA DeviceWorkTypes ==
    ASSUME Inductive
    PROVE  /\ dw \in DeviceWork /\ dw.n \in Nodes
           /\ dw.pc \in {"describe", "ensure", "update"} => dw.snap \in CRRec
BY DEF Inductive, TypeOK, ListedDevices, DeviceWork

LEMMA DeviceDescribeType == ASSUME Inductive, DeviceStep, DeviceDescribe PROVE TypeOK'
<1>1. dw \in DeviceWork /\ dw.snap \in CRRec
  BY DeviceWorkTypes DEF DeviceDescribe
<1>2. \A d \in dw.snap.spec :
         Seen(d) \in [dev : DeviceRec, st : EniStates, rdma : BOOLEAN]
  <2>1. TAKE d \in dw.snap.spec
  <2>2. d \in DeviceRec
    BY <1>1 DEF CRRec
  <2>3. eni[d.id] \in EniRec
    BY <2>2 DEF DeviceRec, Inductive, TypeOK
  <2>. QED
    BY <2>2, <2>3 DEF Seen, EniRec
<1>3. [dw EXCEPT !.pc = "ensure", !.todo = {Seen(d) : d \in dw.snap.spec}] \in DeviceWork
  <2> DEFINE seen == {Seen(d) : d \in dw.snap.spec}
  <2>1. seen \subseteq [dev : DeviceRec, st : EniStates, rdma : BOOLEAN]
    BY <1>2
  <2> HIDE DEF seen
  <2>2. [dw EXCEPT !.pc = "ensure", !.todo = seen] \in DeviceWork
    BY <1>1, <2>1 DEF DeviceWork, DevicePCs
  <2>. QED
    BY <2>2 DEF seen
<1>4. faults' \in 0 .. MaxFaults
  BY FaultType DEF DeviceDescribe, Inductive
<1>5. dw' \in DeviceWork /\ dDelay' \subseteq Nodes
  BY <1>3, EndTypes DEF DeviceDescribe, Inductive, TypeOK
<1>. QED
  BY <1>4, <1>5 DEF DeviceStep, DeviceDescribe, Inductive, TypeOK

LEMMA ReportType ==
    ASSUME dw \in DeviceWork, NEW v \in dw.todo, NEW s \in Statuses,
           Report(v, s) \/ ReportNothing(v)
    PROVE  dw' \in DeviceWork
<1>1. [dev |-> v.dev, st |-> s] \in StatusRec
  BY DEF DeviceWork, StatusRec
<1>2. AfterEnsure(v) \in DevicePCs
  BY DEF AfterEnsure, DevicePCs
<1>3. [dw EXCEPT !.pc = AfterEnsure(v), !.todo = @ \ {v}] \in DeviceWork
  BY <1>2 DEF DeviceWork
<1>4. [dw EXCEPT !.pc = AfterEnsure(v), !.todo = @ \ {v},
                 !.out = @ \cup {[dev |-> v.dev, st |-> s]}] \in DeviceWork
  BY <1>1, <1>2 DEF DeviceWork
<1>. QED
  BY <1>3, <1>4 DEF Report, ReportNothing

\* What attaching and converting do to an ENI.
LEMMA EnsureTypes ==
    ASSUME TypeOK, NEW d \in DeviceRec
    PROVE  /\ Attached(d) \in [ENIs -> EniRec]
           /\ \A tags \in BOOLEAN : Converted(d, tags) \in [ENIs -> EniRec]
<1>1. d.id \in ENIs /\ d.inst \in Instances \cup {NoInst} /\ d.card \in Nat /\ d.qp \in Nat
  BY DEF DeviceRec
<1>2. eni \in [ENIs -> EniRec] /\ eni[d.id] \in EniRec
  BY <1>1 DEF TypeOK
<1>3. [eni[d.id] EXCEPT !.st = "Attaching", !.inst = d.inst, !.card = d.card] \in EniRec
  BY <1>1, <1>2 DEF EniRec, EniStates
<1>4. Attached(d) = [eni EXCEPT ![d.id] = [eni[d.id] EXCEPT !.st = "Attaching",
                                                !.inst = d.inst, !.card = d.card]]
  BY <1>1, <1>2 DEF Attached, EniRec
<1>5. ASSUME NEW tags \in BOOLEAN PROVE Converted(d, tags) \in [ENIs -> EniRec]
  <2> DEFINE x == eni[d.id]
             t == IF tags THEN d.inst ELSE x.instTag
             y == [x EXCEPT !.rdma = TRUE, !.qp = d.qp, !.excluded = tags \/ @, !.instTag = t]
  <2>1. t \in Instances \cup {NoInst}
    BY <1>1, <1>2 DEF EniRec
  <2>2. (tags \/ x.excluded) \in BOOLEAN
    OBVIOUS
  <2>3. y \in EniRec
    BY <1>1, <1>2, <2>1, <2>2 DEF EniRec
  <2>4. Converted(d, tags) = [eni EXCEPT ![d.id] = y]
    BY <1>1, <1>2 DEF Converted, EniRec
  <2>. QED
    BY <1>1, <1>2, <2>3, <2>4
<1>. QED
  BY <1>1, <1>2, <1>3, <1>4, <1>5

LEMMA DeviceEnsureType == ASSUME Inductive, DeviceStep, DeviceEnsure PROVE TypeOK'
<1>1. PICK v \in dw.todo :
         \/ SeenReady(v) /\ Report(v, "Ready") /\ UNCHANGED eni /\ NoFault
         \/ SeenDetached(v) /\ EnsureAttach(v)
         \/ SeenUnconverted(v) /\ EnsureConvert(v)
         \/ ReportNothing(v) /\ UNCHANGED eni /\ NoFault
  BY DEF DeviceEnsure
<1>2. dw \in DeviceWork /\ v.dev \in DeviceRec
  BY DeviceWorkTypes DEF DeviceWork
<1>3. faults' \in 0 .. MaxFaults
  BY <1>1, FaultType DEF EnsureAttach, EnsureConvert, Inductive
<1>4. eni' \in [ENIs -> EniRec]
  <2>1. \/ eni' = eni \/ eni' = Attached(v.dev)
        \/ \E tags \in BOOLEAN : eni' = Converted(v.dev, tags)
    BY <1>1 DEF EnsureAttach, EnsureConvert
  <2>. QED
    BY <1>2, <2>1, EnsureTypes DEF Inductive, TypeOK
<1>5. dw' \in DeviceWork
  <2>1. \E s \in Statuses : Report(v, s) \/ ReportNothing(v)
    BY <1>1 DEF EnsureAttach, EnsureConvert, Statuses
  <2>. QED
    BY <1>2, <2>1, ReportType
<1>. QED
  BY <1>3, <1>4, <1>5 DEF DeviceStep, DeviceEnsure, Inductive, TypeOK

LEMMA DeviceMissingType == ASSUME Inductive, DeviceStep, DeviceMissing PROVE TypeOK'
<1>1. faults' \in 0 .. MaxFaults
  BY FaultType DEF DeviceMissing, Inductive
<1>2. dw' \in DeviceWork /\ dDelay' \subseteq Nodes
  BY EndTypes DEF DeviceMissing, Inductive
<1>. QED
  BY <1>1, <1>2 DEF DeviceStep, DeviceMissing, Inductive, TypeOK

LEMMA DeviceUpdateType == ASSUME Inductive, DeviceStep, DeviceUpdate PROVE TypeOK'
<1> DEFINE n == dw.n
           new == [cr[n] EXCEPT !.status = dw.out, !.rv = rev[n] + 1]
<1>1. n \in Nodes /\ dw.out \in SUBSET StatusRec /\ rev \in [Nodes -> Nat]
  BY DeviceWorkTypes DEF DeviceWork, Inductive, TypeOK
<1>2. cr[n] # NoCR => new \in CRRec
  <2>1. rev[n] + 1 \in Nat
    BY <1>1
  <2>2. cr[n] # NoCR => cr[n] \in CRRec
    BY <1>1 DEF Inductive, TypeOK
  <2>. QED
    BY <1>1, <2>1, <2>2, CRTypes
<1>3. cr' \in [Nodes -> CRRec \cup {NoCR}]
  <2>1. cr' = cr \/ (cr[n] # NoCR /\ cr' = [cr EXCEPT ![n] = new])
    BY DEF DeviceUpdate
  <2>. QED
    BY <1>1, <1>2, <2>1 DEF Inductive, TypeOK
<1>4. rev' \in [Nodes -> Nat]
  <2>1. rev' = rev \/ rev' = [rev EXCEPT ![n] = @ + 1]
    BY DEF DeviceUpdate
  <2>. QED
    BY <1>1, <2>1
<1>5. faults' \in 0 .. MaxFaults
  BY FaultType DEF DeviceUpdate, Inductive
<1>6. dw' \in DeviceWork /\ dDelay' \subseteq Nodes
  BY EndTypes DEF DeviceUpdate, Inductive
<1>. QED
  BY <1>3, <1>4, <1>5, <1>6 DEF DeviceStep, DeviceUpdate, Inductive, TypeOK

LEMMA DeviceRmTypes ==
    ASSUME Inductive, DeviceStep, DeviceRmList \/ DeviceRmPatch \/ DeviceRmDelete
    PROVE  TypeOK'
<1>1. dw \in DeviceWork /\ dw.n \in Nodes
  BY DeviceWorkTypes
<1>2. CASE DeviceRmList
  <2>1. crCache[dw.n] # NoCR =>
           [dw EXCEPT !.pc = "rmPatch", !.rv = crCache[dw.n].rv] \in DeviceWork
    <3>1. crCache[dw.n] # NoCR => crCache[dw.n].rv \in Nat
      BY <1>1 DEF Inductive, TypeOK, CRRec
    <3>. QED
      BY <1>1, <3>1 DEF DeviceWork, DevicePCs
  <2>2. dw' \in DeviceWork /\ dDelay' \subseteq Nodes
    BY <1>2, <2>1, EndTypes DEF DeviceRmList, Inductive, TypeOK
  <2>. QED
    BY <1>2, <2>2 DEF DeviceRmList, DeviceStep, Inductive, TypeOK
<1>3. CASE DeviceRmPatch
  <2>1. [dw EXCEPT !.pc = "rmDelete"] \in DeviceWork
    BY <1>1 DEF DeviceWork, DevicePCs
  <2>2. dw' \in DeviceWork /\ dDelay' \subseteq Nodes
    BY <1>3, <2>1, EndTypes DEF DeviceRmPatch, Inductive, TypeOK
  <2>3. cr' \in [Nodes -> CRRec \cup {NoCR}] /\ faults' \in 0 .. MaxFaults
    BY <1>1, <1>3, RemoveTypes DEF DeviceRmPatch, Inductive
  <2>. QED
    BY <1>3, <2>2, <2>3 DEF DeviceRmPatch, RemovePatch, DeviceStep, Inductive, TypeOK
<1>4. CASE DeviceRmDelete
  <2>1. dw' \in DeviceWork /\ dDelay' \subseteq Nodes
    BY <1>4, EndTypes DEF DeviceRmDelete, Inductive
  <2>2. cr' \in [Nodes -> CRRec \cup {NoCR}] /\ faults' \in 0 .. MaxFaults
    BY <1>1, <1>4, RemoveTypes DEF DeviceRmDelete, Inductive
  <2>. QED
    BY <1>4, <2>1, <2>2 DEF DeviceRmDelete, RemoveDelete, DeviceStep, Inductive, TypeOK
<1>. QED
  BY <1>2, <1>3, <1>4

LEMMA RestartType == ASSUME TypeOK, Restart PROVE TypeOK'
<1>1. crashes' \in 0 .. MaxCrashes
  BY CrashAssumption DEF Restart, TypeOK
<1>2. nodeLog' \in [Nodes -> Seq(NodeRec)]
  BY DEF Restart
<1>. QED
  BY <1>1, <1>2, IdleTypes DEF Restart, TypeOK

LEMMA StepType == ASSUME Inductive, Next PROVE TypeOK'
<1>1. TypeOK
  BY DEF Inductive
<1>2. CASE NodeChange
  BY <1>1, <1>2, NodeChangeType
<1>3. CASE \E n \in Nodes : Timeout(n) \/ Collect(n) \/ Delete(n) \/ DeleteEnds(n)
  BY <1>1, <1>3, ObjectType
<1>4. CASE \E e \in ENIs : AttachEnds(e) \/ AttachBreaks(e) \/ DeleteEni(e)
  BY <1>1, <1>4, EniChangeType
<1>5. CASE \E n \in Nodes : NodeEvent(n) \/ NodeRequeue(n) \/ NodeStart(n)
  BY <1>1, <1>5, QueueType, NodeStartType
<1>6. CASE NodeStep
  BY <1>6, NodeListType, NodeBackfillType, NodeSelectType, NodeLookupType, NodeCreateEniType,
     NodeTagType, NodeJumboType, NodeCreateCRType, NodeRmTypes DEF NodeStep, NodeWorker
<1>7. CASE \E n \in Nodes : DeviceEvent(n) \/ DeviceResync(n) \/ DeviceRequeue(n) \/ DeviceStart(n)
  BY <1>1, <1>7, QueueType
<1>8. CASE DeviceStep
  BY <1>8, DeviceDescribeType, DeviceEnsureType, DeviceMissingType, DeviceUpdateType,
     DeviceRmTypes DEF DeviceStep, DeviceWorker
<1>9. CASE Restart
  BY <1>1, <1>9, RestartType
<1>. QED
  BY <1>2, <1>3, <1>4, <1>5, <1>6, <1>7, <1>8, <1>9 DEF Next

-----------------------------------------------------------------------------
(* The ENIs the controller created *)

\* What every step but the creation of an ENI does to all of them: none appears,
\* comes back or changes hands.
EniKept ==
    \A e \in ENIs :
        /\ eni'[e].creator = eni[e].creator
        /\ eni[e].creator => eni'[e].instTag = eni[e].instTag
        /\ (eni'[e].st = "free") <=> (eni[e].st = "free")
        /\ eni[e].st = "gone" => eni'[e].st = "gone"

LEMMA TaggedFinite ==
    \A i \in Instances : IsFiniteSet(TaggedIds(i)) /\ Cardinality(TaggedIds(i)) \in Nat
BY EniAssumption, FS_Subset, FS_CardinalityType DEF TaggedIds

LEMMA KeptTags ==
    ASSUME EniKept, NEW i \in Instances
    PROVE  /\ TaggedIds(i)' \subseteq TaggedIds(i)
           /\ Cardinality(TaggedIds(i)') <= Cardinality(TaggedIds(i))
           /\ Cardinality(TaggedIds(i)') \in Nat
<1>1. TaggedIds(i)' \subseteq TaggedIds(i)
  BY DEF TaggedIds, EniKept
<1>. QED
  BY <1>1, TaggedFinite, FS_Subset, FS_CardinalityType

LEMMA KeptCreated ==
    ASSUME CreatedWithinCards, EniKept
    PROVE  CreatedWithinCards'
<1> SUFFICES ASSUME NEW i \in Instances
             PROVE  IF SupportsErdma(InstanceType[i])
                    THEN Cardinality(TaggedIds(i)') <= CardCount(InstanceType[i]) - 1
                    ELSE TaggedIds(i)' = {}
  BY DEF CreatedWithinCards
<1>1. CASE SupportsErdma(InstanceType[i])
  <2>1. CardCount(InstanceType[i]) \in Nat
    BY <1>1, CardCountType, InstanceAssumption
  <2>. QED
    BY <1>1, <2>1, KeptTags, TaggedFinite DEF CreatedWithinCards
<1>2. CASE ~SupportsErdma(InstanceType[i])
  BY <1>2, KeptTags DEF CreatedWithinCards
<1>. QED
  BY <1>1, <1>2

\* What every step does to the ENIs that exist.
EniSteady ==
    \A e \in ENIs : eni[e].st # "free" =>
        /\ eni'[e].st # "free" /\ eni'[e].creator = eni[e].creator
        /\ eni[e].creator => eni'[e].instTag = eni[e].instTag

LEMMA KeptIsSteady == EniKept => EniSteady
BY DEF EniKept, EniSteady

\* DeviceOf, for the ENIs of either state of a step.
Fits(enis, d, i) ==
    /\ d.inst = i
    /\ enis[d.id].st # "free"
    /\ enis[d.id].creator => enis[d.id].instTag = i

LEMMA KeptDevice ==
    ASSUME EniSteady, NEW d \in DeviceRec, NEW i, Fits(eni, d, i)
    PROVE  Fits(eni', d, i)
<1>1. d.id \in ENIs
  BY DEF DeviceRec
<1>. QED
  BY <1>1 DEF Fits, EniSteady

\* The part of the invariant that only speaks of the ENIs.
EniInv == PrimaryHeld /\ AttachedToItsInstance

LEMMA SameEni ==
    ASSUME UNCHANGED eni, EniInv
    PROVE  EniKept /\ EniInv'
BY DEF EniKept, EniInv, PrimaryHeld, AttachedToItsInstance

LEMMA EniChangeKeeps ==
    ASSUME TypeOK, EniInv, NEW e \in ENIs, AttachEnds(e) \/ AttachBreaks(e) \/ DeleteEni(e)
    PROVE  EniKept /\ EniInv'
<1>1. eni \in [ENIs -> EniRec] /\ eni[e].st \in {"Attaching", "Available"}
  BY DEF TypeOK, AttachEnds, AttachBreaks, DeleteEni, FinishAttach, AttachFails, DeleteENI
<1>2. /\ \A x \in ENIs \ {e} : eni'[x] = eni[x]
      /\ eni'[e].creator = eni[e].creator /\ eni'[e].instTag = eni[e].instTag
      /\ eni'[e].st \in {"InUse", "Available", "gone"}
      /\ eni'[e].st = "InUse" => eni[e].st = "Attaching" /\ eni'[e].inst = eni[e].inst
  BY <1>1 DEF AttachEnds, AttachBreaks, DeleteEni, FinishAttach, AttachFails, DeleteENI, EniRec
<1>3. EniKept
  BY <1>1, <1>2 DEF EniKept
<1>4. PrimaryHeld'
  <2>1. \A i \in Instances : PrimaryENI[i] \in ENIs \ {e}
    BY <1>1, EniAssumption DEF EniInv, PrimaryHeld
  <2>. QED
    BY <1>2, <2>1 DEF EniInv, PrimaryHeld
<1>5. AttachedToItsInstance'
  BY <1>2 DEF EniInv, AttachedToItsInstance
<1>. QED
  BY <1>3, <1>4, <1>5 DEF EniInv

\* Tagging the ENIs of an instance with that instance.
LEMMA TagKeeps ==
    ASSUME TypeOK, EniInv, NEW ids, NEW i \in Instances, EnsureEriTags(ids, i),
           \A e \in ids : e \in ENIs /\ eni[e].creator => eni[e].instTag = i
    PROVE  EniKept /\ EniInv'
<1>1. eni \in [ENIs -> EniRec]
  BY DEF TypeOK
<1>2. ASSUME NEW e \in ENIs
      PROVE  /\ eni'[e].creator = eni[e].creator /\ eni'[e].st = eni[e].st
             /\ eni'[e].inst = eni[e].inst /\ eni'[e].card = eni[e].card
             /\ eni[e].creator => eni'[e].instTag = eni[e].instTag
  <2>1. \/ eni'[e] = eni[e]
        \/ e \in ids /\ eni'[e] = [eni[e] EXCEPT !.excluded = TRUE, !.instTag = i]
    BY DEF EnsureEriTags
  <2>2. eni[e] \in EniRec
    BY <1>1
  <2>. QED
    BY <2>1, <2>2 DEF EniRec
<1>3. EniKept
  BY <1>2 DEF EniKept
<1>4. PrimaryHeld'
  <2>1. \A i0 \in Instances : PrimaryENI[i0] \in ENIs
    BY EniAssumption
  <2>. QED
    BY <1>2, <2>1 DEF EniInv, PrimaryHeld
<1>5. AttachedToItsInstance'
  BY <1>2 DEF EniInv, AttachedToItsInstance
<1>. QED
  BY <1>3, <1>4, <1>5 DEF EniInv

\* Attaching and converting the ENI of a device of its instance.
LEMMA EnsureKeeps ==
    ASSUME TypeOK, EniInv, NEW d \in DeviceRec, DeviceOf(d, d.inst),
           \/ eni[d.id].st = "Available" /\ eni' = Attached(d)
           \/ \E tags \in BOOLEAN : eni' = Converted(d, tags)
    PROVE  EniKept /\ EniInv'
<1> DEFINE x == d.id
<1>1. x \in ENIs /\ eni \in [ENIs -> EniRec] /\ eni[x] \in EniRec
  BY DEF DeviceRec, TypeOK
<1>2. CASE eni[x].st = "Available" /\ eni' = Attached(d)
  <2>1. /\ \A e \in ENIs \ {x} : eni'[e] = eni[e]
        /\ eni'[x].creator = eni[x].creator /\ eni'[x].instTag = eni[x].instTag
        /\ eni'[x].st = "Attaching" /\ eni'[x].inst = d.inst
    BY <1>1, <1>2 DEF Attached, EniRec
  <2>2. EniKept
    BY <1>2, <2>1 DEF EniKept
  <2>3. PrimaryHeld'
    <3>1. \A i \in Instances : PrimaryENI[i] \in ENIs \ {x}
      BY <1>2, EniAssumption DEF EniInv, PrimaryHeld
    <3>. QED
      BY <2>1, <3>1 DEF EniInv, PrimaryHeld
  <2>4. AttachedToItsInstance'
    BY <2>1 DEF EniInv, AttachedToItsInstance, DeviceOf
  <2>. QED
    BY <2>2, <2>3, <2>4 DEF EniInv
<1>3. CASE \E tags \in BOOLEAN : eni' = Converted(d, tags)
  <2>1. PICK tags \in BOOLEAN : eni' = Converted(d, tags)
    BY <1>3
  <2>2. /\ \A e \in ENIs \ {x} : eni'[e] = eni[e]
        /\ eni'[x].creator = eni[x].creator /\ eni'[x].st = eni[x].st
        /\ eni'[x].inst = eni[x].inst /\ eni'[x].card = eni[x].card
        /\ eni'[x].instTag \in {eni[x].instTag, d.inst}
    BY <1>1, <2>1 DEF Converted, EniRec
  <2>3. eni[x].creator => eni'[x].instTag = eni[x].instTag
    BY <2>2 DEF DeviceOf
  <2>4. EniKept
    BY <2>2, <2>3 DEF EniKept
  <2>5. PrimaryHeld'
    <3>1. \A i \in Instances : PrimaryENI[i] \in ENIs
      BY EniAssumption
    <3>. QED
      BY <2>2, <3>1 DEF EniInv, PrimaryHeld
  <2>6. AttachedToItsInstance'
    BY <2>2, <2>3 DEF EniInv, AttachedToItsInstance
  <2>. QED
    BY <2>4, <2>5, <2>6 DEF EniInv
<1>. QED
  BY <1>2, <1>3

-----------------------------------------------------------------------------
(* The copies of the ERdmaDevices, and the two workers *)

\* What ListedDevices says of one copy of an ERdmaDevice.
AllFit(enis, c) == c # NoCR => \A d \in c.spec : Fits(enis, d, c.inst)

LEMMA KeptListed ==
    ASSUME EniSteady, NEW c \in CRRec \cup {NoCR}, AllFit(eni, c)
    PROVE  AllFit(eni', c)
<1>1. c # NoCR => c.spec \subseteq DeviceRec
  BY DEF CRRec
<1>. QED
  BY <1>1, KeptDevice DEF AllFit

\* An object changes in its status and its deletion mark only, or disappears.
SameSpec(new, old) == new = NoCR \/ (old # NoCR /\ new.spec = old.spec /\ new.inst = old.inst)

Copies == /\ \A n \in Nodes : AllFit(eni, cr[n]) /\ AllFit(eni, crCache[n])
          /\ dw.pc \in {"describe", "ensure", "update"} =>
                /\ dw.snap # NoCR
                /\ AllFit(eni, dw.snap)
                /\ \A v \in dw.todo : v.dev \in dw.snap.spec

LEMMA CopiesAreListed == Copies <=> ListedDevices
BY DEF Copies, ListedDevices, AllFit, Fits, DeviceOf

LEMMA KeptObjects ==
    ASSUME TypeOK, Copies, EniSteady,
           \A n \in Nodes : SameSpec(cr'[n], cr[n]),
           \A n \in Nodes : SameSpec(crCache'[n], crCache[n]) \/ SameSpec(crCache'[n], cr[n])
    PROVE  \A n \in Nodes : AllFit(eni', cr'[n]) /\ AllFit(eni', crCache'[n])
<1> SUFFICES ASSUME NEW n \in Nodes
             PROVE  AllFit(eni', cr'[n]) /\ AllFit(eni', crCache'[n])
  OBVIOUS
<1>1. cr[n] \in CRRec \cup {NoCR} /\ crCache[n] \in CRRec \cup {NoCR}
  BY DEF TypeOK
<1>2. AllFit(eni', cr[n]) /\ AllFit(eni', crCache[n])
  BY <1>1, KeptListed DEF Copies
<1>. QED
  BY <1>2 DEF SameSpec, AllFit

\* A step that leaves the Node worker alone, or sends it where it holds nothing.
LEMMA KeptProvisioning ==
    ASSUME TypeOK, Provisioning, EniKept,
           nw' = nw \/ nw'.pc \in {"idle", "poll", "rmList", "rmPatch", "rmDelete"}
    PROVE  Provisioning'
<1>1. CASE nw'.pc \in {"idle", "poll", "rmList", "rmPatch", "rmDelete"}
  BY <1>1 DEF Provisioning
<1>2. CASE nw' = nw
  <2>1. nw.eris \subseteq DeviceRec /\ nw.pending \subseteq ENIs /\ nw.need \subseteq Nat
    BY DEF TypeOK, NodeWork
  <2>2. nw.pc \in {"lookup", "create", "tag", "jumbo", "createCR"} =>
           \A d \in nw.eris : Fits(eni', d, nw.inst)
    BY <2>1, KeptDevice, KeptIsSteady DEF Provisioning, DeviceOf, Fits
  <2>3. nw.pc = "create" =>
           Cardinality(TaggedIds(nw.inst)') + Cardinality(nw.need)
              <= CardCount(InstanceType[nw.inst]) - 1
    <3> SUFFICES ASSUME nw.pc = "create"
                 PROVE  Cardinality(TaggedIds(nw.inst)') + Cardinality(nw.need)
                           <= CardCount(InstanceType[nw.inst]) - 1
      OBVIOUS
    <3>1. nw.inst \in Instances /\ SupportsErdma(InstanceType[nw.inst])
      BY DEF Provisioning
    <3>2. CardCount(InstanceType[nw.inst]) \in Nat
      BY <3>1, CardCountType, InstanceAssumption
    <3>3. Cardinality(nw.need) \in Nat
      <4>1. nw.need \subseteq 1 .. CardCount(InstanceType[nw.inst]) - 1
        BY DEF Provisioning
      <4>2. IsFiniteSet(1 .. CardCount(InstanceType[nw.inst]) - 1)
        BY <3>2, FS_Interval
      <4>. QED
        BY <4>1, <4>2, FS_Subset, FS_CardinalityType
    <3>4. /\ Cardinality(TaggedIds(nw.inst)') <= Cardinality(TaggedIds(nw.inst))
          /\ Cardinality(TaggedIds(nw.inst)') \in Nat /\ Cardinality(TaggedIds(nw.inst)) \in Nat
      BY <3>1, <1>2, KeptTags, TaggedFinite
    <3>5. Cardinality(TaggedIds(nw.inst)) + Cardinality(nw.need)
             <= CardCount(InstanceType[nw.inst]) - 1
      BY DEF Provisioning
    <3>. QED
      BY <3>2, <3>3, <3>4, <3>5
  <2>4. nw.pc = "backfill" => \A e \in nw.pending : eni'[e].creator => eni'[e].instTag = nw.inst
    BY <2>1 DEF Provisioning, EniKept
  <2>. QED
    BY <1>2, <2>2, <2>3, <2>4 DEF Provisioning, DeviceOf, Fits
<1>. QED
  BY <1>1, <1>2

\* The same for the ERdmaDevice worker.
LEMMA KeptCopies ==
    ASSUME TypeOK, Copies, EniSteady,
           \A n \in Nodes : SameSpec(cr'[n], cr[n]),
           \A n \in Nodes : SameSpec(crCache'[n], crCache[n]) \/ SameSpec(crCache'[n], cr[n]),
           dw' = dw \/ dw'.pc \in {"idle", "rmList", "rmPatch", "rmDelete"}
    PROVE  Copies'
<1>1. \A n \in Nodes : AllFit(eni', cr'[n]) /\ AllFit(eni', crCache'[n])
  BY KeptObjects
<1>2. CASE dw'.pc \in {"idle", "rmList", "rmPatch", "rmDelete"}
  BY <1>1, <1>2 DEF Copies
<1>3. CASE dw' = dw
  <2>1. dw.snap \in CRRec \cup {NoCR}
    BY DEF TypeOK, DeviceWork
  <2>2. dw.pc \in {"describe", "ensure", "update"} => AllFit(eni', dw.snap)
    BY <2>1, KeptListed DEF Copies
  <2>. QED
    BY <1>1, <1>3, <2>2 DEF Copies
<1>. QED
  BY <1>2, <1>3

LEMMA Together ==
    ASSUME TypeOK', EniInv', Copies', Provisioning', CreatedWithinCards'
    PROVE  Inductive'
<1>1. ListedDevices'
  BY CopiesAreListed DEF Copies, ListedDevices, AllFit, Fits, DeviceOf
<1>. QED
  BY <1>1 DEF Inductive, EniInv

LEMMA Apart == ASSUME Inductive PROVE TypeOK /\ EniInv /\ Copies /\ Provisioning /\ CreatedWithinCards
BY CopiesAreListed DEF Inductive, EniInv

-----------------------------------------------------------------------------
(* The steps *)

\* Steps of the environment, of the informers and of the timers.
LEMMA OutsideStep ==
    ASSUME Inductive, TypeOK',
           \/ NodeChange
           \/ \E n \in Nodes : Timeout(n) \/ Collect(n) \/ Delete(n) \/ DeleteEnds(n)
           \/ \E e \in ENIs : AttachEnds(e) \/ AttachBreaks(e) \/ DeleteEni(e)
           \/ \E n \in Nodes : NodeEvent(n) \/ NodeRequeue(n)
           \/ \E n \in Nodes : DeviceEvent(n) \/ DeviceResync(n) \/ DeviceRequeue(n)
           \/ Restart
    PROVE  Inductive'
<1>1. TypeOK /\ EniInv /\ Copies /\ Provisioning /\ CreatedWithinCards
  BY Apart
<1>2. EniKept /\ EniInv'
  <2>1. CASE UNCHANGED eni
    BY <1>1, <2>1, SameEni
  <2>2. CASE \E e \in ENIs : AttachEnds(e) \/ AttachBreaks(e) \/ DeleteEni(e)
    BY <1>1, <2>2, EniChangeKeeps
  <2>3. \/ UNCHANGED eni
        \/ \E e \in ENIs : AttachEnds(e) \/ AttachBreaks(e) \/ DeleteEni(e)
    BY DEF NodeChange, CreateNode, SetReady, SetNotReady, Relabel, SetProviderID,
           MarkNodeDeleting, DeleteNode, ChangeNode, Timeout, WaitTimeout, Collect,
           CollectGarbage, Delete, UserDelete, DeleteEnds, FinishDelete, NodeEvent, DeliverNode,
           NodeRequeue, NodeTimer, DeviceEvent, DeliverDevice, DeviceResync, Resync,
           DeviceRequeue, DeviceTimer, Restart
  <2>. QED
    BY <2>1, <2>2, <2>3
<1>3. \A n \in Nodes : SameSpec(cr'[n], cr[n])
  <2>1. CASE cr' = cr
    BY <2>1 DEF SameSpec
  <2>2. ASSUME NEW n \in Nodes, Collect(n) \/ Delete(n) \/ DeleteEnds(n)
        PROVE  \A m \in Nodes : SameSpec(cr'[m], cr[m])
    <3>1. cr \in [Nodes -> CRRec \cup {NoCR}]
      BY <1>1 DEF TypeOK
    <3>2. \/ cr' = [cr EXCEPT ![n] = NoCR]
          \/ cr[n] # NoCR /\ cr' = [cr EXCEPT ![n] = [@ EXCEPT !.deleting = TRUE, !.rv = rev[n] + 1]]
      BY <2>2 DEF Collect, CollectGarbage, Delete, UserDelete, DeleteEnds, FinishDelete
    <3>. QED
      BY <3>1, <3>2 DEF SameSpec, CRRec
  <2>3. cr' = cr \/ \E n \in Nodes : Collect(n) \/ Delete(n) \/ DeleteEnds(n)
    BY DEF NodeChange, CreateNode, SetReady, SetNotReady, Relabel, SetProviderID,
           MarkNodeDeleting, DeleteNode, ChangeNode, Timeout, WaitTimeout, AttachEnds,
           FinishAttach, AttachBreaks, AttachFails, DeleteEni, DeleteENI, NodeEvent, DeliverNode,
           NodeRequeue, NodeTimer, DeviceEvent, DeliverDevice, DeviceResync, Resync,
           DeviceRequeue, DeviceTimer, Restart
  <2>. QED
    BY <2>1, <2>2, <2>3
<1>4. \A n \in Nodes : SameSpec(crCache'[n], crCache[n]) \/ SameSpec(crCache'[n], cr[n])
  <2>1. crCache \in [Nodes -> CRRec \cup {NoCR}]
    BY <1>1 DEF TypeOK
  <2>2. \/ crCache' = crCache \/ crCache' = cr
        \/ \E n \in Nodes : crCache' = [crCache EXCEPT ![n] = cr[n]]
    BY DEF NodeChange, CreateNode, SetReady, SetNotReady, Relabel, SetProviderID,
           MarkNodeDeleting, DeleteNode, ChangeNode, Timeout, WaitTimeout, Collect,
           CollectGarbage, Delete, UserDelete, DeleteEnds, FinishDelete, AttachEnds,
           FinishAttach, AttachBreaks, AttachFails, DeleteEni, DeleteENI, NodeEvent, DeliverNode,
           NodeRequeue, NodeTimer, DeviceEvent, DeliverDevice, DeviceResync, Resync,
           DeviceRequeue, DeviceTimer, Restart
  <2>. QED
    BY <2>1, <2>2 DEF SameSpec
<1>5. (nw' = nw \/ nw'.pc = "idle") /\ (dw' = dw \/ dw'.pc = "idle")
  BY DEF NodeChange, Timeout, Collect, Delete, DeleteEnds, AttachEnds, AttachBreaks, DeleteEni,
         NodeEvent, DeliverNode, NodeRequeue, NodeTimer, DeviceEvent, DeliverDevice,
         DeviceResync, Resync, DeviceRequeue, DeviceTimer, Restart, NodeIdle, DeviceIdle
<1>6. Provisioning'
  BY <1>1, <1>2, <1>5, KeptProvisioning
<1>7. Copies'
  BY <1>1, <1>2, <1>3, <1>4, <1>5, KeptCopies, KeptIsSteady
<1>8. CreatedWithinCards'
  BY <1>1, <1>2, KeptCreated
<1>. QED
  BY <1>2, <1>6, <1>7, <1>8, Together

\* A step of the Node reconciler that creates neither an ENI nor an object.
LEMMA NodeFrame ==
    ASSUME Inductive, TypeOK', EniKept, EniInv', Provisioning',
           \A n \in Nodes : SameSpec(cr'[n], cr[n]), UNCHANGED <<crCache, dw>>
    PROVE  Inductive'
<1>1. TypeOK /\ Copies /\ CreatedWithinCards
  BY Apart
<1>2. \A n \in Nodes : SameSpec(crCache'[n], crCache[n])
  BY DEF SameSpec
<1>3. Copies'
  BY <1>1, <1>2, KeptCopies, KeptIsSteady
<1>. QED
  BY <1>1, <1>3, KeptCreated, Together

LEMMA SameObjects == ASSUME UNCHANGED cr PROVE \A n \in Nodes : SameSpec(cr'[n], cr[n])
BY DEF SameSpec

LEMMA NodeStartStep == ASSUME Inductive, TypeOK', NEW n \in Nodes, NodeStart(n) PROVE Inductive'
<1>1. TypeOK /\ EniInv /\ Provisioning
  BY Apart
<1>2. EniKept /\ EniInv'
  BY <1>1, SameEni DEF NodeStart, NodeGet
<1>3. nodeCache[n] \in NodeRec /\ NodeIdle \in NodeWork
  BY <1>1, IdleTypes DEF TypeOK
<1>4. \/ nw' = nw \/ nw'.pc = "rmList"
      \/ nw'.pc = "list" /\ nw'.inst \in Instances
  BY <1>3 DEF NodeStart, NodeGet, NodeWork, InstanceIDFromNode, NodeRec
<1>5. Provisioning'
  <2>1. CASE nw' = nw \/ nw'.pc = "rmList"
    BY <1>1, <1>2, <2>1, KeptProvisioning
  <2>2. CASE nw'.pc = "list" /\ nw'.inst \in Instances
    BY <2>2 DEF Provisioning
  <2>. QED
    BY <1>4, <2>1, <2>2
<1>. QED
  BY <1>2, <1>5, NodeFrame, SameObjects DEF NodeStart, NodeGet

LEMMA NodeListStep == ASSUME Inductive, TypeOK', NodeStep, NodeList PROVE Inductive'
<1> DEFINE pending == {d.id : d \in CachedDevicesOf(nw.inst)} \ tagged
<1>1. TypeOK /\ EniInv /\ Provisioning /\ Copies /\ nw \in NodeWork /\ nw.inst \in Instances
  BY Apart, ProvisioningTypes DEF NodeList
<1>2. EniKept /\ EniInv' /\ UNCHANGED eni
  BY <1>1, SameEni DEF NodeList
<1>3. \A e \in pending : eni[e].creator => eni[e].instTag = nw.inst
  BY <1>1 DEF CachedDevicesOf, Copies, AllFit, Fits
<1>4. \/ nw'.pc = "idle"
      \/ nw'.pc = "select" /\ nw'.inst = nw.inst
      \/ nw'.pc = "backfill" /\ nw'.inst = nw.inst /\ nw'.pending = pending
  <2>1. \/ nw' = NodeIdle \/ nw' = [nw EXCEPT !.pc = "select"]
        \/ nw' = [nw EXCEPT !.pc = "backfill", !.pending = pending]
    BY DEF NodeList, NodeDone
  <2> HIDE DEF pending
  <2>. QED
    BY <1>1, <2>1, IdlePCs DEF NodeWork
<1>5. Provisioning'
  BY <1>1, <1>2, <1>3, <1>4 DEF Provisioning
<1>. QED
  BY <1>2, <1>5, NodeFrame, SameObjects DEF NodeList, NodeStep

LEMMA NodeBackfillStep == ASSUME Inductive, TypeOK', NodeStep, NodeBackfill PROVE Inductive'
<1>1. TypeOK /\ EniInv /\ Provisioning /\ nw.inst \in Instances
  BY Apart, ProvisioningTypes DEF NodeBackfill
<1>2. \A e \in nw.pending : eni[e].creator => eni[e].instTag = nw.inst
  BY <1>1 DEF Provisioning, NodeBackfill
<1>3. EniKept /\ EniInv'
  BY <1>1, <1>2, TagKeeps DEF NodeBackfill
<1>4. Provisioning'
  BY <1>1, <1>3, KeptProvisioning DEF NodeBackfill, NodeDone, NodeIdle
<1>. QED
  BY <1>3, <1>4, NodeFrame, SameObjects DEF NodeBackfill, NodeStep

LEMMA NodeRmSteps ==
    ASSUME Inductive, TypeOK', NodeStep, NodePoll \/ NodeRmList \/ NodeRmPatch \/ NodeRmDelete
    PROVE  Inductive'
<1>1. TypeOK /\ EniInv /\ Provisioning /\ nw \in NodeWork /\ nw.n \in Nodes
  BY Apart, ProvisioningTypes
<1>2. EniKept /\ EniInv'
  BY <1>1, SameEni DEF NodePoll, NodeRmList, NodeRmPatch, NodeRmDelete, RemovePatch, RemoveDelete
<1>3. nw'.pc \in {"idle", "rmPatch", "rmDelete"}
  <2>1. \/ nw' = NodeIdle \/ nw' = [nw EXCEPT !.pc = "rmDelete"]
        \/ nw' = [nw EXCEPT !.pc = "rmPatch", !.rv = crCache[nw.n].rv]
    BY DEF NodePoll, NodeRmList, NodeRmPatch, NodeRmDelete, NodeDone, NodeRetry
  <2>. QED
    BY <1>1, <2>1, IdlePCs DEF NodeWork
<1>4. Provisioning'
  BY <1>1, <1>2, <1>3, KeptProvisioning
<1>5. cr' = cr \/ cr' = [cr EXCEPT ![nw.n] = NoCR]
  BY DEF NodePoll, NodeRmList, NodeRmPatch, NodeRmDelete, RemovePatch, RemoveDelete
<1>6. \A n \in Nodes : SameSpec(cr'[n], cr[n])
  BY <1>1, <1>5 DEF SameSpec, TypeOK
<1>7. UNCHANGED <<crCache, dw>>
  BY DEF NodePoll, NodeRmList, NodeRmPatch, NodeRmDelete, RemovePatch, RemoveDelete, NodeStep
<1>. QED
  BY <1>2, <1>4, <1>6, <1>7, NodeFrame

LEMMA NodeTagStep == ASSUME Inductive, TypeOK', NodeStep, NodeTag PROVE Inductive'
<1>1. TypeOK /\ EniInv /\ Provisioning /\ nw \in NodeWork /\ nw.inst \in Instances
  BY Apart, ProvisioningTypes DEF NodeTag
<1>2. nw.eris \subseteq DeviceRec /\ \A d \in nw.eris : Fits(eni, d, nw.inst)
  BY <1>1 DEF Provisioning, NodeTag, DeviceOf, Fits, NodeWork
<1>3. \A e \in {d.id : d \in nw.eris} : eni[e].creator => eni[e].instTag = nw.inst
  BY <1>2 DEF Fits
<1>4. EniKept /\ EniInv'
  BY <1>1, <1>3, TagKeeps DEF NodeTag
<1>5. \A d \in nw.eris : Fits(eni', d, nw.inst)
  BY <1>2, <1>4, KeptDevice, KeptIsSteady
<1>6. nw'.pc = "jumbo" /\ nw'.inst = nw.inst /\ nw'.eris = nw.eris /\ nw'.need = nw.need
  BY <1>1 DEF NodeTag, NodeWork
<1>7. Provisioning'
  BY <1>1, <1>5, <1>6 DEF Provisioning, NodeTag, DeviceOf, Fits
<1>. QED
  BY <1>4, <1>7, NodeFrame, SameObjects DEF NodeTag, NodeStep

LEMMA NodeJumboStep == ASSUME Inductive, TypeOK', NodeStep, NodeJumbo PROVE Inductive'
<1>1. TypeOK /\ EniInv /\ Provisioning /\ nw \in NodeWork
  BY Apart, ProvisioningTypes
<1>2. EniKept /\ EniInv' /\ UNCHANGED eni
  BY <1>1, SameEni DEF NodeJumbo
<1>3. nw'.pc = "createCR" /\ nw'.inst = nw.inst /\ nw'.eris = nw.eris /\ nw'.need = nw.need
  BY <1>1 DEF NodeJumbo, NodeWork
<1>4. Provisioning'
  BY <1>1, <1>2, <1>3 DEF Provisioning, NodeJumbo, DeviceOf
<1>. QED
  BY <1>2, <1>4, NodeFrame, SameObjects DEF NodeJumbo, NodeStep

LEMMA NodeCreateCRStep == ASSUME Inductive, TypeOK', NodeStep, NodeCreateCR PROVE Inductive'
<1>1. /\ TypeOK /\ EniInv /\ Provisioning /\ Copies /\ CreatedWithinCards
      /\ nw.inst \in Instances /\ nw.n \in Nodes
  BY Apart, ProvisioningTypes DEF NodeCreateCR
<1>2. EniKept /\ EniInv' /\ UNCHANGED eni
  BY <1>1, SameEni DEF NodeCreateCR
<1>3. nw'.pc \in {"idle", "poll"}
  <2>1. nw' = NodeIdle \/ nw' = [NodeIdle EXCEPT !.pc = "poll", !.n = nw.n]
    BY DEF NodeCreateCR, NodeRetry
  <2>. QED
    BY <2>1, IdlePCs, IdleTypes DEF NodeWork
<1>4. Provisioning'
  BY <1>1, <1>2, <1>3, KeptProvisioning
<1>5. AllFit(eni, NewCR)
  BY <1>1 DEF NewCR, AllFit, Fits, DeviceOf, Provisioning, NodeCreateCR
<1>6. cr' = cr \/ cr' = [cr EXCEPT ![nw.n] = NewCR]
  BY DEF NodeCreateCR
<1>7. cr \in [Nodes -> CRRec \cup {NoCR}]
  BY <1>1 DEF TypeOK
<1>8. \A n \in Nodes : AllFit(eni, cr'[n])
  BY <1>1, <1>5, <1>6, <1>7 DEF Copies
<1>9. Copies'
  BY <1>1, <1>2, <1>8 DEF Copies, NodeCreateCR, NodeStep
<1>. QED
  BY <1>1, <1>2, <1>4, <1>9, KeptCreated, Together

LEMMA NodeSelectStep == ASSUME Inductive, TypeOK', NodeStep, NodeSelect PROVE Inductive'
<1> DEFINE i == nw.inst
           type == InstanceType[i]
           exist == DescribeByInstance(i)
<1>1. TypeOK /\ EniInv /\ Provisioning /\ nw \in NodeWork /\ i \in Instances
  BY Apart, ProvisioningTypes DEF NodeSelect
<1>2. EniKept /\ EniInv' /\ UNCHANGED eni
  BY <1>1, SameEni DEF NodeSelect
<1>3. CASE nw' = NodeIdle
  <2>1. Provisioning'
    BY <1>1, <1>2, <1>3, IdlePCs, KeptProvisioning
  <2>. QED
    BY <1>2, <2>1, NodeFrame, SameObjects DEF NodeSelect, NodeStep
<1>4. ASSUME SupportsErdma(type),
             NEW r \in SelectEriFromExist(exist, QueuePairCount(type), CardCount(type),
                                          ManagedNonOwned),
             nw' = [nw EXCEPT !.pc = "lookup", !.eris = r.eris, !.need = r.need, !.qp = r.qp]
      PROVE  Inductive'
  <2>1. CardCount(type) \in Nat \ {0} /\ QueuePairCount(type) \in Nat
    BY <1>1, <1>4, CardCountType, InstanceAssumption
  <2>2. Describe(PrimaryENI[i]) \in exist /\ Describe(PrimaryENI[i]).primary
    <3>1. PrimaryENI[i] \in {x \in ENIs : eni[x].st \in {"InUse", "Attaching"} /\ eni[x].inst = i}
      BY <1>1, EniAssumption DEF EniInv, PrimaryHeld
    <3>. QED
      BY <1>1, <3>1 DEF DescribeByInstance, Describe
  <2>3. NeedsNone0(r, CardCount(type))
    BY <1>1, <1>4, <2>1, <2>2, SelectNeed, DescribedCounted
  <2>4. PlanFrom(r, exist, CardCount(type))
    BY <1>1, <1>4, <2>1, SelectType, DescribedCounted
  <2>5. ASSUME NEW d \in r.eris PROVE Fits(eni, d, i)
    <3>1. PICK x \in exist : d = toEri(x, r.qp)
      BY <2>4 DEF PlanFrom
    <3>2. PICK e \in ENIs : /\ x = Describe(e) /\ eni[e].inst = i
                           /\ eni[e].st \in {"InUse", "Attaching"}
      BY <3>1 DEF DescribeByInstance
    <3>3. d.id = e /\ d.inst = i
      BY <3>1, <3>2 DEF toEri, Describe
    <3>. QED
      BY <1>1, <3>2, <3>3 DEF Fits, EniInv, AttachedToItsInstance
  <2>6. nw'.pc = "lookup" /\ nw'.inst = i /\ nw'.eris = r.eris /\ nw'.need = r.need
    BY <1>1, <1>4 DEF NodeWork
  <2>7. Provisioning'
    BY <1>1, <1>2, <1>4, <2>3, <2>5, <2>6 DEF Provisioning, DeviceOf, Fits, NeedsNone0
  <2>. QED
    BY <1>2, <2>7, NodeFrame, SameObjects DEF NodeSelect, NodeStep
<1>. QED
  BY <1>3, <1>4 DEF NodeSelect, NodeRetry, NodeDone

\* DescribeNetworkInterfaces shows every tagged ENI once.
LEMMA TagCount ==
    ASSUME NEW i \in Instances
    PROVE  Cardinality(DescribeByTag(i)) = Cardinality(TaggedIds(i))
<1> DEFINE f == [e \in TaggedIds(i) |-> Describe(e)]
<1>1. f \in [TaggedIds(i) -> DescribeByTag(i)]
  BY DEF DescribeByTag
<1>2. f \in Injection(TaggedIds(i), DescribeByTag(i))
  <2>1. ASSUME NEW a \in TaggedIds(i), NEW b \in TaggedIds(i), f[a] = f[b] PROVE a = b
    <3>1. f[a].id = a /\ f[b].id = b
      BY DEF Describe
    <3>. QED
      BY <2>1, <3>1
  <2> HIDE DEF f
  <2>. QED
    BY <1>1, <2>1 DEF Injection, IsInjective
<1>3. f \in Surjection(TaggedIds(i), DescribeByTag(i))
  <2>1. \A t \in DescribeByTag(i) : \E e \in TaggedIds(i) : f[e] = t
    BY DEF DescribeByTag
  <2> HIDE DEF f
  <2>. QED
    BY <1>1, <2>1 DEF Surjection
<1>4. ExistsBijection(TaggedIds(i), DescribeByTag(i))
  BY <1>2, <1>3 DEF ExistsBijection, Bijection
<1>. QED
  BY <1>4, TaggedFinite, FS_Bijection

\* The cards of an instance other than the first.
LEMMA CardBound ==
    ASSUME NEW c \in Nat \ {0}, NEW S, S \subseteq 1 .. c - 1
    PROVE  IsFiniteSet(S) /\ Cardinality(S) \in Nat /\ Cardinality(S) <= c - 1 /\ S \subseteq Nat
<1>1. IsFiniteSet(1 .. c - 1) /\ Cardinality(1 .. c - 1) = c - 1
  <2>1. IsFiniteSet(1 .. c - 1)
    BY FS_Interval
  <2>2. Cardinality(1 .. c - 1) = IF 1 > c - 1 THEN 0 ELSE (c - 1) - 1 + 1
    BY FS_Interval
  <2>. QED
    BY <2>1, <2>2
<1>2. IsFiniteSet(S) /\ Cardinality(S) <= Cardinality(1 .. c - 1)
  BY <1>1, FS_Subset
<1>3. Cardinality(S) \in Nat
  BY <1>2, FS_CardinalityType
<1>4. S \subseteq Nat
  OBVIOUS
<1>. QED
  BY <1>1, <1>2, <1>3, <1>4

LEMMA NodeLookupStep == ASSUME Inductive, TypeOK', NodeStep, NodeLookup PROVE Inductive'
<1> DEFINE i == nw.inst
           c == CardCount(InstanceType[i])
           tag == DescribeByTag(i)
           need == nw.need \ ReusedCards(tag, nw.need)
<1>1. TypeOK /\ EniInv /\ Provisioning /\ nw \in NodeWork /\ i \in Instances
  BY Apart, ProvisioningTypes DEF NodeLookup
<1>2. EniKept /\ EniInv' /\ UNCHANGED eni
  BY <1>1, SameEni DEF NodeLookup
<1>3. CASE nw' = NodeIdle
  <2>1. Provisioning'
    BY <1>1, <1>2, <1>3, IdlePCs, KeptProvisioning
  <2>. QED
    BY <1>2, <2>1, NodeFrame, SameObjects DEF NodeLookup, NodeStep
<1>4. ASSUME NEW reused \in ReuseTagged(tag, nw.need, nw.qp, i),
             nw' = [nw EXCEPT !.pc = AfterCreate(need), !.need = need, !.eris = @ \cup reused]
      PROVE  Inductive'
  <2>1. /\ SupportsErdma(InstanceType[i])
        /\ nw.need \subseteq 1 .. c - 1
        /\ \A d \in nw.eris : Fits(eni, d, i)
    BY <1>1 DEF Provisioning, NodeLookup, DeviceOf, Fits
  <2>2. c \in Nat \ {0}
    BY <1>1, <2>1, CardCountType, InstanceAssumption
  <2>3. /\ IsFiniteSet(nw.need) /\ Cardinality(nw.need) \in Nat
        /\ Cardinality(nw.need) <= c - 1 /\ nw.need \subseteq Nat
    <3> HIDE DEF c
    <3>. QED  BY <2>1, <2>2, CardBound
  <2>4. Cardinality(tag) \in Nat /\ Cardinality(tag) = Cardinality(TaggedIds(i))
    BY <1>1, TagCount, TaggedFinite
  <2>5. need # {} => Cardinality(TaggedIds(i)) + Cardinality(need) <= c - 1
    <3>1. need # {} => Cardinality(tag) + Cardinality(need) <= Cardinality(nw.need)
      BY <2>3, <2>4, LowestLeaves DEF ReusedCards
    <3>2. Cardinality(need) \in Nat
      BY <2>3, FS_Subset, FS_CardinalityType
    <3> HIDE DEF c, need, tag
    <3>. QED
      BY <2>2, <2>3, <2>4, <3>1, <3>2
  <2>6. ASSUME NEW d \in reused PROVE Fits(eni, d, i)
    <3>1. ReusedFrom(reused, tag, nw.need, nw.qp, i)
      BY <1>4, ReuseResult
    <3>2. PICK x \in tag, k \in nw.need : d = [toEri(x, nw.qp) EXCEPT !.inst = i, !.card = k]
      BY <3>1 DEF ReusedFrom
    <3>3. PICK e \in TaggedIds(i) : x = Describe(e)
      BY <3>2 DEF DescribeByTag
    <3>4. d.id = e /\ d.inst = i
      BY <3>2, <3>3 DEF toEri, Describe
    <3>. QED
      BY <3>3, <3>4 DEF Fits, TaggedIds
  <2>7. /\ nw'.pc = AfterCreate(need) /\ nw'.inst = i /\ nw'.need = need
        /\ nw'.eris = nw.eris \cup reused
    BY <1>1, <1>4 DEF NodeWork
  <2>8. nw'.pc \in {"tag", "create"} /\ (nw'.pc = "create" => need # {})
    BY <2>7 DEF AfterCreate
  <2>9. TaggedIds(i)' = TaggedIds(nw.inst)
    BY <1>2, <2>7 DEF TaggedIds
  <2>10. Provisioning'
    <3>1. need \subseteq 1 .. c - 1
      BY <2>1
    <3>2. \A d \in nw'.eris : Fits(eni, d, i)
      BY <2>1, <2>6, <2>7
    <3> HIDE DEF need
    <3>. QED
      BY <1>1, <1>2, <2>1, <2>5, <2>7, <2>8, <2>9, <3>1, <3>2 DEF Provisioning, DeviceOf, Fits
  <2>. QED
    BY <1>2, <2>10, NodeFrame, SameObjects DEF NodeLookup, NodeStep
<1>. QED
  BY <1>3, <1>4 DEF NodeLookup, NodeRetry

\* The one step that makes an ENI.
LEMMA CreationKeeps ==
    ASSUME TypeOK, EniInv, NEW e \in ENIs, NEW i \in Instances, NEW q,
           Unused(e), eni' = [eni EXCEPT ![e] = NewENI(i, q)]
    PROVE  /\ EniSteady /\ EniInv'
           /\ Cardinality(TaggedIds(i)') = Cardinality(TaggedIds(i)) + 1
           /\ \A j \in Instances \ {i} : TaggedIds(j)' = TaggedIds(j)
           /\ \A j : Fits(eni', CreatedEri(e, j, i), i)
<1>1. eni \in [ENIs -> EniRec] /\ eni[e].st = "free"
  BY DEF TypeOK, Unused
<1>2. /\ \A x \in ENIs \ {e} : eni'[x] = eni[x]
      /\ eni'[e].st = "Available" /\ eni'[e].creator /\ eni'[e].instTag = i
  BY <1>1 DEF NewENI, FreeENI
<1>3. EniSteady
  BY <1>1, <1>2 DEF EniSteady
<1>4. PrimaryHeld'
  <2>1. \A j \in Instances : PrimaryENI[j] \in ENIs \ {e}
    BY <1>1, EniAssumption DEF EniInv, PrimaryHeld
  <2>. QED
    BY <1>2, <2>1 DEF EniInv, PrimaryHeld
<1>5. AttachedToItsInstance'
  BY <1>2 DEF EniInv, AttachedToItsInstance
<1>6. TaggedIds(i)' = TaggedIds(i) \cup {e} /\ e \notin TaggedIds(i)
  BY <1>1, <1>2 DEF TaggedIds
<1>7. Cardinality(TaggedIds(i) \cup {e}) = Cardinality(TaggedIds(i)) + 1
  BY <1>6, TaggedFinite, FS_AddElement
<1>8. \A j \in Instances \ {i} : TaggedIds(j)' = TaggedIds(j)
  BY <1>1, <1>2 DEF TaggedIds
<1>9. \A j : Fits(eni', CreatedEri(e, j, i), i)
  BY <1>2 DEF Fits, CreatedEri
<1>. QED
  BY <1>3, <1>4, <1>5, <1>6, <1>7, <1>8, <1>9 DEF EniInv

LEMMA NodeCreateEniStep == ASSUME Inductive, TypeOK', NodeStep, NodeCreateEni PROVE Inductive'
<1> DEFINE i == nw.inst
           c == CardCount(InstanceType[i])
           card == Min(nw.need)
           need == nw.need \ {card}
<1>1. /\ TypeOK /\ EniInv /\ Provisioning /\ Copies /\ CreatedWithinCards
      /\ nw \in NodeWork /\ i \in Instances
  BY Apart, ProvisioningTypes DEF NodeCreateEni
<1>2. CASE UNCHANGED eni /\ nw' = NodeIdle
  <2>1. EniKept /\ EniInv'
    BY <1>1, <1>2, SameEni
  <2>2. Provisioning'
    BY <1>1, <1>2, <2>1, IdlePCs, KeptProvisioning
  <2>. QED
    BY <2>1, <2>2, NodeFrame, SameObjects DEF NodeCreateEni, NodeStep
<1>3. ASSUME NEW e \in ENIs, Unused(e), eni' = [eni EXCEPT ![e] = NewENI(i, nw.qp)],
             \/ nw' = NodeIdle
             \/ nw' = [nw EXCEPT !.pc = AfterCreate(need), !.need = need,
                                 !.eris = @ \cup {CreatedEri(e, card, i)}]
      PROVE  Inductive'
  <2>1. /\ SupportsErdma(InstanceType[i])
        /\ nw.need \subseteq 1 .. c - 1 /\ nw.need # {}
        /\ \A d \in nw.eris : Fits(eni, d, i)
        /\ Cardinality(TaggedIds(i)) + Cardinality(nw.need) <= c - 1
    BY <1>1 DEF Provisioning, NodeCreateEni, DeviceOf, Fits
  <2>2. c \in Nat \ {0}
    BY <1>1, <2>1, CardCountType, InstanceAssumption
  <2>3. IsFiniteSet(nw.need) /\ Cardinality(nw.need) \in Nat /\ nw.need \subseteq Nat
    <3> HIDE DEF c
    <3>. QED  BY <2>1, <2>2, CardBound
  <2>4. card \in nw.need
    BY <2>1, <2>3, MinIsLeast
  <2>5. Cardinality(need) = Cardinality(nw.need) - 1 /\ Cardinality(nw.need) # 0
    <3> HIDE DEF card
    <3>. QED  BY <2>1, <2>3, <2>4, FS_RemoveElement, FS_EmptySet
  <2>6. /\ EniSteady /\ EniInv'
        /\ \A j \in Instances \ {i} : TaggedIds(j)' = TaggedIds(j)
        /\ Fits(eni', CreatedEri(e, card, i), i)
    BY <1>1, <1>3, CreationKeeps
  <2>7. ASSUME NEW t, t = i PROVE Cardinality(TaggedIds(t)') = Cardinality(TaggedIds(i)) + 1
    BY <1>1, <1>3, <2>7, CreationKeeps
  <2>8. Cardinality(TaggedIds(i)) \in Nat
    BY <1>1, TaggedFinite
  <2>9. Copies'
    <3>1. /\ \A n \in Nodes : SameSpec(cr'[n], cr[n]) /\ SameSpec(crCache'[n], crCache[n])
          /\ dw' = dw
      BY DEF NodeCreateEni, NodeStep, SameSpec
    <3>. QED
      BY <1>1, <2>6, <3>1, KeptCopies
  <2>10. CreatedWithinCards'
    <3> SUFFICES ASSUME NEW j \in Instances
                 PROVE  IF SupportsErdma(InstanceType[j])
                        THEN Cardinality(TaggedIds(j)') <= CardCount(InstanceType[j]) - 1
                        ELSE TaggedIds(j)' = {}
      BY DEF CreatedWithinCards
    <3>1. CASE j # i
      BY <2>6, <3>1, <1>1 DEF CreatedWithinCards
    <3>2. CASE j = i
      <4>1. Cardinality(TaggedIds(j)') = Cardinality(TaggedIds(i)) + 1
        BY <2>7, <3>2
      <4>2. Cardinality(TaggedIds(i)) + 1 <= c - 1
        <5> HIDE DEF c
        <5>. QED  BY <2>1, <2>2, <2>3, <2>5, <2>8
      <4>. QED
        BY <2>1, <3>2, <4>1, <4>2
    <3>. QED
      BY <3>1, <3>2
  <2>11. Provisioning'
    <3>1. CASE nw' = NodeIdle
      BY <3>1, IdlePCs DEF Provisioning
    <3>2. CASE nw' = [nw EXCEPT !.pc = AfterCreate(need), !.need = need,
                                !.eris = @ \cup {CreatedEri(e, card, i)}]
      <4>1. /\ nw'.pc = AfterCreate(need) /\ nw'.inst = i /\ nw'.need = need
            /\ nw'.eris = nw.eris \cup {CreatedEri(e, card, i)}
        BY <1>1, <3>2 DEF NodeWork
      <4>2. nw'.pc \in {"tag", "create"} /\ (nw'.pc = "create" => need # {})
        BY <4>1 DEF AfterCreate
      <4>3. nw.eris \subseteq DeviceRec
        BY <1>1 DEF NodeWork
      <4>4. \A d \in nw'.eris : Fits(eni', d, i)
        BY <2>1, <2>6, <4>1, <4>3, KeptDevice
      <4>5. TaggedIds(nw.inst)' = {x \in ENIs : eni'[x].st \notin {"free", "gone"}
                                        /\ eni'[x].creator /\ eni'[x].instTag = i}
        BY <4>1 DEF TaggedIds
      <4>6. Cardinality(TaggedIds(nw.inst)') = Cardinality(TaggedIds(i)) + 1
        <5>1. PICK t : t = i
          OBVIOUS
        <5>2. TaggedIds(t)' = TaggedIds(nw.inst)'
          BY <4>5, <5>1 DEF TaggedIds
        <5>. QED
          BY <2>7, <5>1, <5>2
      <4>7. Cardinality(TaggedIds(nw.inst)') + Cardinality(need) <= c - 1
        <5> HIDE DEF c, need
        <5>. QED  BY <2>1, <2>2, <2>3, <2>5, <2>8, <4>6
      <4>8. need \subseteq 1 .. c - 1
        BY <2>1
      <4> HIDE DEF need
      <4>. QED
        BY <1>1, <2>1, <4>1, <4>2, <4>4, <4>7, <4>8 DEF Provisioning, DeviceOf, Fits
    <3>. QED
      BY <1>3, <3>1, <3>2
  <2>. QED
    BY <2>6, <2>9, <2>10, <2>11, Together
<1>. QED
  BY <1>2, <1>3 DEF NodeCreateEni, NodeRetry

\* A step of the ERdmaDevice reconciler.
LEMMA DeviceFrame ==
    ASSUME Inductive, TypeOK', EniKept, EniInv', UNCHANGED nw, Copies'
    PROVE  Inductive'
<1>1. TypeOK /\ Provisioning /\ CreatedWithinCards
  BY Apart
<1>. QED
  BY <1>1, KeptProvisioning, KeptCreated, Together

LEMMA DeviceStartStep == ASSUME Inductive, TypeOK', NEW n \in Nodes, DeviceStart(n) PROVE Inductive'
<1>1. TypeOK /\ EniInv /\ Copies
  BY Apart
<1>2. EniKept /\ EniInv' /\ UNCHANGED eni
  BY <1>1, SameEni DEF DeviceStart, DeviceGet
<1>3. \/ dw' = dw \/ dw'.pc = "rmList"
      \/ /\ dw'.pc = "describe" /\ dw'.snap = crCache[n] /\ crCache[n] # NoCR /\ dw'.todo = {}
  <2>1. DeviceIdle \in DeviceWork /\ DeviceIdle.todo = {}
    BY IdleTypes DEF DeviceIdle
  <2>2. \/ dw' = dw \/ dw' = [DeviceIdle EXCEPT !.pc = "rmList", !.n = n]
        \/ /\ crCache[n] # NoCR
           /\ dw' = [DeviceIdle EXCEPT !.pc = "describe", !.n = n, !.snap = crCache[n]]
    BY DEF DeviceStart, DeviceGet
  <2>. QED
    BY <2>1, <2>2 DEF DeviceWork
<1>4. UNCHANGED <<cr, crCache, nw>>
  BY DEF DeviceStart, DeviceGet
<1>5. Copies'
  BY <1>1, <1>2, <1>3, <1>4 DEF Copies
<1>. QED
  BY <1>2, <1>4, <1>5, DeviceFrame

LEMMA DeviceDescribeStep == ASSUME Inductive, TypeOK', DeviceStep, DeviceDescribe PROVE Inductive'
<1>1. TypeOK /\ EniInv /\ Copies /\ dw \in DeviceWork
  BY Apart, DeviceWorkTypes
<1>2. EniKept /\ EniInv' /\ UNCHANGED eni
  BY <1>1, SameEni DEF DeviceDescribe
<1>3. \/ dw'.pc = "idle"
      \/ dw'.pc = "ensure" /\ dw'.snap = dw.snap /\ dw'.todo = {Seen(d) : d \in dw.snap.spec}
  <2> DEFINE seen == {Seen(d) : d \in dw.snap.spec}
  <2>1. dw' = DeviceIdle \/ dw' = [dw EXCEPT !.pc = "ensure", !.todo = seen]
    BY DEF DeviceDescribe, DeviceRetry
  <2> HIDE DEF seen
  <2>2. dw'.pc = "idle" \/ (dw'.pc = "ensure" /\ dw'.snap = dw.snap /\ dw'.todo = seen)
    BY <1>1, <2>1, IdlePCs DEF DeviceWork
  <2>. QED
    BY <2>2 DEF seen
<1>4. UNCHANGED <<cr, crCache, nw>> /\ dw.pc = "describe"
  BY DEF DeviceDescribe, DeviceStep
<1>5. \A v \in {Seen(d) : d \in dw.snap.spec} : v.dev \in dw.snap.spec
  BY DEF Seen
<1>6. Copies'
  BY <1>1, <1>2, <1>3, <1>4, <1>5 DEF Copies
<1>. QED
  BY <1>2, <1>4, <1>6, DeviceFrame

LEMMA DeviceEnsureStep == ASSUME Inductive, TypeOK', DeviceStep, DeviceEnsure PROVE Inductive'
<1>1. /\ TypeOK /\ EniInv /\ Copies /\ dw \in DeviceWork /\ dw.pc = "ensure"
      /\ dw.snap \in CRRec
  BY Apart, DeviceWorkTypes DEF DeviceEnsure
<1>2. PICK v \in dw.todo :
         \/ SeenReady(v) /\ Report(v, "Ready") /\ UNCHANGED eni /\ NoFault
         \/ SeenDetached(v) /\ EnsureAttach(v)
         \/ SeenUnconverted(v) /\ EnsureConvert(v)
         \/ ReportNothing(v) /\ UNCHANGED eni /\ NoFault
  BY DEF DeviceEnsure
<1>3. v.dev \in dw.snap.spec /\ v.dev \in DeviceRec
  BY <1>1 DEF Copies, DeviceWork
<1>4. DeviceOf(v.dev, v.dev.inst)
  BY <1>1, <1>3 DEF Copies, AllFit, Fits, DeviceOf
<1>5. EniKept /\ EniInv'
  <2>1. \/ UNCHANGED eni
        \/ eni[v.dev.id].st = "Available" /\ eni' = Attached(v.dev)
        \/ \E tags \in BOOLEAN : eni' = Converted(v.dev, tags)
    BY <1>2 DEF EnsureAttach, EnsureConvert
  <2>2. CASE UNCHANGED eni
    BY <1>1, <2>2, SameEni
  <2>3. CASE ~UNCHANGED eni
    BY <1>1, <1>3, <1>4, <2>1, <2>3, EnsureKeeps
  <2>. QED
    BY <2>2, <2>3
<1>6. dw'.snap = dw.snap /\ dw'.todo \subseteq dw.todo /\ dw'.pc \in {"ensure", "update"}
  <2>1. (\E s : Report(v, s)) \/ ReportNothing(v)
    BY <1>2 DEF EnsureAttach, EnsureConvert
  <2>2. AfterEnsure(v) \in {"ensure", "update"}
    BY DEF AfterEnsure
  <2>. QED
    BY <1>1, <2>1, <2>2 DEF Report, ReportNothing, DeviceWork
<1>7. UNCHANGED <<cr, crCache, nw>>
  BY DEF DeviceEnsure, DeviceStep
<1>8. Copies'
  <2>1. \A n \in Nodes : AllFit(eni', cr'[n]) /\ AllFit(eni', crCache'[n])
    BY <1>1, <1>5, <1>7, KeptObjects, KeptIsSteady DEF SameSpec
  <2>2. AllFit(eni', dw.snap)
    BY <1>1, <1>5, KeptListed, KeptIsSteady DEF Copies
  <2>. QED
    BY <1>1, <1>6, <2>1, <2>2 DEF Copies
<1>. QED
  BY <1>5, <1>7, <1>8, DeviceFrame

LEMMA DeviceOtherSteps ==
    ASSUME Inductive, TypeOK', DeviceStep,
           DeviceMissing \/ DeviceUpdate \/ DeviceRmList \/ DeviceRmPatch \/ DeviceRmDelete
    PROVE  Inductive'
<1>1. TypeOK /\ EniInv /\ Copies /\ dw \in DeviceWork /\ dw.n \in Nodes
  BY Apart, DeviceWorkTypes
<1>2. EniKept /\ EniInv'
  BY <1>1, SameEni
     DEF DeviceMissing, DeviceUpdate, DeviceRmList, DeviceRmPatch, DeviceRmDelete, RemovePatch,
         RemoveDelete
<1>3. UNCHANGED <<crCache, nw>>
  BY DEF DeviceMissing, DeviceUpdate, DeviceRmList, DeviceRmPatch, DeviceRmDelete, RemovePatch,
         RemoveDelete, DeviceStep
<1>4. dw'.pc \in {"idle", "rmPatch", "rmDelete"}
  <2>1. \/ dw' = DeviceIdle \/ dw' = [dw EXCEPT !.pc = "rmDelete"]
        \/ dw' = [dw EXCEPT !.pc = "rmPatch", !.rv = crCache[dw.n].rv]
    BY DEF DeviceMissing, DeviceUpdate, DeviceRmList, DeviceRmPatch, DeviceRmDelete, DeviceDone,
           DeviceRetry
  <2>. QED
    BY <1>1, <2>1, IdlePCs DEF DeviceWork
<1>5. \A n \in Nodes : SameSpec(cr'[n], cr[n])
  <2>1. \/ cr' = cr \/ cr' = [cr EXCEPT ![dw.n] = NoCR]
        \/ /\ cr[dw.n] # NoCR
           /\ cr' = [cr EXCEPT ![dw.n] = [@ EXCEPT !.status = dw.out, !.rv = rev[dw.n] + 1]]
    BY DEF DeviceMissing, DeviceUpdate, DeviceRmList, DeviceRmPatch, DeviceRmDelete, RemovePatch,
           RemoveDelete
  <2>2. cr \in [Nodes -> CRRec \cup {NoCR}]
    BY <1>1 DEF TypeOK
  <2> DEFINE new == [cr[dw.n] EXCEPT !.status = dw.out, !.rv = rev[dw.n] + 1]
  <2>3. cr[dw.n] # NoCR => SameSpec(new, cr[dw.n])
    <3>1. ASSUME NEW c \in CRRec, c # NoCR, NEW o, NEW v
          PROVE  SameSpec([c EXCEPT !.status = o, !.rv = v], c)
      BY <3>1 DEF SameSpec, CRRec
    <3>2. cr[dw.n] # NoCR => cr[dw.n] \in CRRec
      BY <1>1, <2>2
    <3>. QED
      BY <3>1, <3>2
  <2>4. \/ cr' = cr \/ cr' = [cr EXCEPT ![dw.n] = NoCR]
        \/ cr[dw.n] # NoCR /\ cr' = [cr EXCEPT ![dw.n] = new]
    BY <2>1
  <2> HIDE DEF new
  <2>. QED
    BY <1>1, <2>2, <2>3, <2>4 DEF SameSpec
<1>6. Copies'
  BY <1>1, <1>2, <1>3, <1>4, <1>5, KeptCopies, KeptIsSteady DEF SameSpec
<1>. QED
  BY <1>2, <1>3, <1>6, DeviceFrame

-----------------------------------------------------------------------------
(* The theorems *)

LEMMA InitInductive == Init => Inductive
<1> SUFFICES ASSUME Init PROVE Inductive
  OBVIOUS
<1>1. TypeOK
  BY InitType
<1>2. PICK f \in [Instances -> UNION {{PrimaryOf(i), PreboundOf(i, 1)} : i \in Instances}] :
         /\ \A i \in Instances : f[i].inst = i
         /\ eni = [e \in ENIs |-> IF \E i \in Instances : PrimaryENI[i] = e
                                  THEN f[CHOOSE i \in Instances : PrimaryENI[i] = e]
                                  ELSE FreeENI]
  BY DEF Init, ClusterInit
<1>3. \A i \in Instances : f[i].st = "InUse" /\ f[i].inst = i /\ f[i].card = 0 /\ ~f[i].creator
  <2>1. ASSUME NEW i \in Instances
        PROVE  \A p \in {PrimaryOf(i), PreboundOf(i, 1)} :
                  p.st = "InUse" /\ p.card = 0 /\ ~p.creator
    BY DEF PrimaryOf, PreboundOf, FreeENI
  <2>. QED
    BY <1>2, <2>1
<1>4. ASSUME NEW i \in Instances PROVE eni[PrimaryENI[i]] = f[i]
  <2>1. (CHOOSE j \in Instances : PrimaryENI[j] = PrimaryENI[i]) = i
    BY EniAssumption
  <2>2. PrimaryENI[i] \in ENIs
    BY EniAssumption
  <2>. QED
    BY <1>2, <2>1, <2>2
<1>5. \A e \in ENIs : ~eni[e].creator
  <2>1. TAKE e \in ENIs
  <2>2. CASE \E i \in Instances : PrimaryENI[i] = e
    BY <1>3, <1>4, <2>2
  <2>3. CASE ~\E i \in Instances : PrimaryENI[i] = e
    BY <1>2, <2>3 DEF FreeENI
  <2>. QED
    BY <2>2, <2>3
<1>6. PrimaryHeld
  BY <1>3, <1>4 DEF PrimaryHeld
<1>7. AttachedToItsInstance
  BY <1>5 DEF AttachedToItsInstance
<1>8. CreatedWithinCards
  <2>1. \A i \in Instances : TaggedIds(i) = {}
    BY <1>5 DEF TaggedIds
  <2>2. ASSUME NEW i \in Instances, SupportsErdma(InstanceType[i])
        PROVE  0 <= CardCount(InstanceType[i]) - 1
    <3>1. CardCount(InstanceType[i]) \in Nat \ {0}
      BY <2>2, CardCountType, InstanceAssumption
    <3>. QED
      BY <3>1
  <2>. QED
    BY <2>1, <2>2, FS_EmptySet DEF CreatedWithinCards
<1>9. Provisioning /\ ListedDevices
  BY IdlePCs DEF Init, ClusterInit, NodeControllerInit, DeviceControllerInit, Provisioning,
                 ListedDevices
<1>. QED
  BY <1>1, <1>6, <1>7, <1>8, <1>9 DEF Inductive

\* Every step of the controller and of its environment preserves Inductive.
LEMMA StepInductive == Inductive /\ [Next]_vars => Inductive'
<1> SUFFICES ASSUME Inductive, [Next]_vars PROVE Inductive'
  OBVIOUS
<1>1. CASE UNCHANGED vars
  <2>1. TypeOK' <=> TypeOK
    BY <1>1 DEF vars, TypeOK
  <2>2. PrimaryHeld' <=> PrimaryHeld
    BY <1>1 DEF vars, PrimaryHeld
  <2>3. ListedDevices' <=> ListedDevices
    BY <1>1 DEF vars, ListedDevices, DeviceOf
  <2>4. Provisioning' <=> Provisioning
    BY <1>1 DEF vars, Provisioning, DeviceOf, TaggedIds
  <2>5. AttachedToItsInstance' <=> AttachedToItsInstance
    BY <1>1 DEF vars, AttachedToItsInstance
  <2>6. CreatedWithinCards' <=> CreatedWithinCards
    BY <1>1 DEF vars, CreatedWithinCards, TaggedIds
  <2>. QED
    BY <2>1, <2>2, <2>3, <2>4, <2>5, <2>6 DEF Inductive
<1>2. CASE Next
  <2>1. TypeOK'
    BY <1>2, StepType
  <2>2. CASE \E n \in Nodes : NodeStart(n)
    BY <2>1, <2>2, NodeStartStep
  <2>3. CASE NodeStep
    BY <2>1, <2>3, NodeListStep, NodeBackfillStep, NodeSelectStep, NodeLookupStep,
       NodeCreateEniStep, NodeTagStep, NodeJumboStep, NodeCreateCRStep, NodeRmSteps
       DEF NodeStep, NodeWorker
  <2>4. CASE \E n \in Nodes : DeviceStart(n)
    BY <2>1, <2>4, DeviceStartStep
  <2>5. CASE DeviceStep
    BY <2>1, <2>5, DeviceDescribeStep, DeviceEnsureStep, DeviceOtherSteps
       DEF DeviceStep, DeviceWorker
  <2>. QED
    BY <1>2, <2>1, <2>2, <2>3, <2>4, <2>5, OutsideStep DEF Next
<1>. QED
  BY <1>1, <1>2

LEMMA AlwaysInductive == Spec => []Inductive
BY InitInductive, StepInductive, PTL DEF Spec

\* Every variable of the two reconcilers, their queues and caches keeps its type,
\* in any interleaving with failures and restarts.
THEOREM TypeCorrect == Spec => []TypeOK
<1>1. Inductive => TypeOK
  BY DEF Inductive
<1>. QED
  BY <1>1, AlwaysInductive, PTL

\* However often provisioning is retried, CreateEriForInstance never creates more
\* ENIs for an instance than it has network cards besides the first.
THEOREM CreationBounded == Spec => []CreatedWithinCards
<1>1. Inductive => CreatedWithinCards
  BY DEF Inductive
<1>. QED
  BY <1>1, AlwaysInductive, PTL

\* EnsureEriForInstance attaches an ENI the controller created to no instance but
\* the one it was created for.
THEOREM AttachmentCorrect == Spec => []AttachedToItsInstance
<1>1. Inductive => AttachedToItsInstance
  BY DEF Inductive
<1>. QED
  BY <1>1, AlwaysInductive, PTL

-----------------------------------------------------------------------------
(* What a step may do to the ENIs *)

\* Tags, the RDMA traffic mode and the state InUse are never lost.
EniMonotone ==
    \A e \in ENIs :
        /\ eni[e].excluded => eni'[e].excluded
        /\ eni[e].rdma => eni'[e].rdma
        /\ eni[e].st = "InUse" => eni'[e].st = "InUse"

LEMMA SameEniMonotone == ASSUME UNCHANGED eni PROVE EniMonotone
  BY DEF EniMonotone

\* FinishAttach, AttachFails and DeleteENI.
LEMMA CloudMonotone ==
  ASSUME TypeOK, NEW e \in ENIs, AttachEnds(e) \/ AttachBreaks(e) \/ DeleteEni(e)
  PROVE  EniMonotone
<1>1. eni \in [ENIs -> EniRec] /\ eni[e].st # "InUse"
  BY DEF TypeOK, AttachEnds, AttachBreaks, DeleteEni, FinishAttach, AttachFails, DeleteENI
<1>2. /\ \A x \in ENIs \ {e} : eni'[x] = eni[x]
      /\ eni'[e].excluded = eni[e].excluded /\ eni'[e].rdma = eni[e].rdma
  BY <1>1 DEF EniRec, AttachEnds, AttachBreaks, DeleteEni, FinishAttach, AttachFails, DeleteENI
<1> QED BY <1>1, <1>2 DEF EniMonotone

\* EnsureEriTags.
LEMMA TagMonotone ==
  ASSUME TypeOK, NEW ids, NEW i, EnsureEriTags(ids, i)
  PROVE  EniMonotone
<1>1. eni \in [ENIs -> EniRec]
  BY DEF TypeOK
<1>2. CASE UNCHANGED eni
  BY <1>2, SameEniMonotone
<1>3. CASE eni' = [e \in ENIs |-> IF e \in ids
                                 THEN [eni[e] EXCEPT !.excluded = TRUE, !.instTag = i]
                                 ELSE eni[e]]
  BY <1>1, <1>3 DEF EniMonotone, EniRec
<1> QED BY <1>2, <1>3 DEF EnsureEriTags

\* CreateNetworkInterface: only an identifier never used before gets an ENI.
LEMMA CreateMonotone ==
  ASSUME TypeOK, NodeCreateEni
  PROVE  EniMonotone
<1>1. eni \in [ENIs -> EniRec]
  BY DEF TypeOK
<1>2. CASE UNCHANGED eni
  BY <1>2, SameEniMonotone
<1>3. ASSUME NEW e \in ENIs, Unused(e), eni' = [eni EXCEPT ![e] = NewENI(nw.inst, nw.qp)]
      PROVE  EniMonotone
  BY <1>1, <1>3 DEF EniMonotone, Unused, NewENI, FreeENI
<1> QED BY <1>2, <1>3 DEF NodeCreateEni

\* AttachNetworkInterface and ConvertPrimaryENI.
LEMMA EnsureMonotone ==
  ASSUME Inductive, DeviceEnsure
  PROVE  EniMonotone
<1>1. eni \in [ENIs -> EniRec] /\ \A v \in dw.todo : v.dev \in DeviceRec
  BY DeviceWorkTypes DEF Inductive, TypeOK, DeviceWork
<1>2. PICK v \in dw.todo :
         \/ UNCHANGED eni
         \/ eni[v.dev.id].st = "Available" /\ eni' = Attached(v.dev)
         \/ \E tags \in BOOLEAN : eni' = Converted(v.dev, tags)
  BY DEF DeviceEnsure, EnsureAttach, EnsureConvert
<1>3. v.dev.id \in ENIs /\ eni[v.dev.id] \in EniRec
  BY <1>1 DEF DeviceRec
<1>4. CASE eni[v.dev.id].st = "Available" /\ eni' = Attached(v.dev)
  BY <1>1, <1>3, <1>4 DEF EniMonotone, Attached, EniRec
<1>5. CASE \E tags \in BOOLEAN : eni' = Converted(v.dev, tags)
  BY <1>1, <1>3, <1>5 DEF EniMonotone, Converted, EniRec
<1> QED BY <1>2, <1>4, <1>5, SameEniMonotone

\* No call the controller makes, and nothing that happens to its ENIs, takes an
\* interface in use away or undoes its traffic mode or tags.
LEMMA StepMonotone == ASSUME Inductive, Next PROVE EniMonotone
<1>1. TypeOK
  BY DEF Inductive
<1>2. CASE NodeChange
  BY <1>2, SameEniMonotone
     DEF NodeChange, CreateNode, SetReady, SetNotReady, Relabel, SetProviderID,
         MarkNodeDeleting, DeleteNode, ChangeNode
<1>3. CASE \E n \in Nodes : Timeout(n) \/ Collect(n) \/ Delete(n) \/ DeleteEnds(n)
  BY <1>3, SameEniMonotone
     DEF Timeout, WaitTimeout, Collect, CollectGarbage, Delete, UserDelete, DeleteEnds,
         FinishDelete
<1>4. CASE \E e \in ENIs : AttachEnds(e) \/ AttachBreaks(e) \/ DeleteEni(e)
  BY <1>1, <1>4, CloudMonotone
<1>5. CASE \E n \in Nodes : NodeEvent(n) \/ NodeRequeue(n) \/ NodeStart(n)
  BY <1>5, SameEniMonotone
     DEF NodeEvent, DeliverNode, NodeRequeue, NodeTimer, NodeStart, NodeGet
<1>6. CASE NodeStep
  <2>1. CASE NodeBackfill \/ NodeTag
    BY <1>1, <2>1, TagMonotone DEF NodeBackfill, NodeTag
  <2>2. CASE NodeCreateEni
    BY <1>1, <2>2, CreateMonotone
  <2>3. CASE NodeList \/ NodeSelect \/ NodeLookup \/ NodeJumbo \/ NodeCreateCR \/ NodePoll
    BY <2>3, SameEniMonotone
       DEF NodeList, NodeSelect, NodeLookup, NodeJumbo, NodeCreateCR, NodePoll
  <2>4. CASE NodeRmList \/ NodeRmPatch \/ NodeRmDelete
    BY <2>4, SameEniMonotone DEF NodeRmList, NodeRmPatch, NodeRmDelete, RemovePatch, RemoveDelete
  <2> QED BY <1>6, <2>1, <2>2, <2>3, <2>4 DEF NodeStep, NodeWorker
<1>7. CASE \E n \in Nodes : DeviceEvent(n) \/ DeviceResync(n) \/ DeviceRequeue(n) \/ DeviceStart(n)
  BY <1>7, SameEniMonotone
     DEF DeviceEvent, DeliverDevice, DeviceResync, Resync, DeviceRequeue, DeviceTimer,
         DeviceStart, DeviceGet
<1>8. CASE DeviceStep
  <2>1. CASE DeviceEnsure
    BY <2>1, EnsureMonotone
  <2>2. CASE DeviceDescribe \/ DeviceMissing \/ DeviceUpdate
    BY <2>2, SameEniMonotone DEF DeviceDescribe, DeviceMissing, DeviceUpdate
  <2>3. CASE DeviceRmList \/ DeviceRmPatch \/ DeviceRmDelete
    BY <2>3, SameEniMonotone
       DEF DeviceRmList, DeviceRmPatch, DeviceRmDelete, RemovePatch, RemoveDelete
  <2> QED BY <1>8, <2>1, <2>2, <2>3 DEF DeviceStep, DeviceWorker
<1>9. CASE Restart
  BY <1>9, SameEniMonotone DEF Restart
<1> QED BY <1>2, <1>3, <1>4, <1>5, <1>6, <1>7, <1>8, <1>9 DEF Next

-----------------------------------------------------------------------------
(* MarkerMeansTagged: the markers of backfillEriTags *)

LEMMA MarkerStep ==
  ASSUME Inductive, MarkerMeansTagged, Next
  PROVE  MarkerMeansTagged'
<1>1. EniMonotone /\ tagged \subseteq ENIs
  BY StepMonotone DEF Inductive, TypeOK
<1>2. CASE UNCHANGED tagged /\ (UNCHANGED nw \/ nw.pc # "backfill")
  BY <1>1, <1>2 DEF EniMonotone, MarkerMeansTagged
<1>3. CASE NodeList
  <2>1. nw.pc = "list" /\ nw \in NodeWork
    BY <1>3, ProvisioningTypes DEF NodeList
  <2>2. CASE UNCHANGED tagged
    BY <1>2, <2>1, <2>2
  <2>3. ASSUME NEW pending, nw' = [nw EXCEPT !.pc = "backfill", !.pending = pending],
               tagged' = tagged \cup pending
        PROVE  MarkerMeansTagged'
    <3>1. nw'.pc = "backfill" /\ nw'.pending = pending
      BY <2>1, <2>3 DEF NodeWork
    <3>2. \A e \in tagged : eni'[e].excluded
      BY <1>1, <2>1 DEF EniMonotone, MarkerMeansTagged
    <3> QED BY <2>3, <3>1, <3>2 DEF MarkerMeansTagged
  <2> QED BY <1>3, <2>2, <2>3 DEF NodeList
<1>4. CASE NodeBackfill
  <2>1. \A e \in tagged : eni[e].excluded \/ e \in nw.pending
    BY <1>4 DEF NodeBackfill, MarkerMeansTagged
  <2>2. CASE faults' = faults
    <3>0. ~Fault
      BY <2>2, ConfigAssumption DEF Fault, Inductive, TypeOK
    <3>1. eni' = [e \in ENIs |-> IF e \in nw.pending
                                 THEN [eni[e] EXCEPT !.excluded = TRUE, !.instTag = nw.inst]
                                 ELSE eni[e]]
      BY <1>4, <3>0 DEF NodeBackfill, EnsureEriTags
    <3>2. \A e \in tagged \cap nw.pending : eni'[e].excluded
      BY <1>1, <3>1 DEF Inductive, TypeOK, EniRec
    <3> QED BY <1>1, <1>4, <2>1, <2>2, <3>2 DEF EniMonotone, NodeBackfill, MarkerMeansTagged
  <2>3. CASE faults' # faults
    BY <1>1, <1>4, <2>1, <2>3 DEF EniMonotone, NodeBackfill, MarkerMeansTagged
  <2> QED BY <2>2, <2>3
<1>5. CASE Restart
  BY <1>5 DEF Restart, MarkerMeansTagged
<1>6. CASE NodeStep /\ ~NodeList /\ ~NodeBackfill
  BY <1>2, <1>6
     DEF NodeStep, NodeWorker, NodeSelect, NodeLookup, NodeCreateEni, NodeTag, NodeJumbo,
         NodeCreateCR, NodePoll, NodeRmList, NodeRmPatch, NodeRmDelete
<1>7. CASE NodeChange \/ DeviceStep
  BY <1>2, <1>7 DEF NodeChange, DeviceStep
<1>8. CASE \E n \in Nodes : \/ Timeout(n) \/ Collect(n) \/ Delete(n) \/ DeleteEnds(n)
                            \/ NodeEvent(n) \/ NodeRequeue(n) \/ NodeStart(n)
                            \/ DeviceEvent(n) \/ DeviceResync(n) \/ DeviceRequeue(n)
                            \/ DeviceStart(n)
  BY <1>2, <1>8
     DEF Timeout, Collect, Delete, DeleteEnds, NodeEvent, DeliverNode, NodeRequeue, NodeTimer,
         NodeStart, NodeGet, DeviceEvent, DeviceResync, DeviceRequeue, DeviceStart
<1>9. CASE \E e \in ENIs : AttachEnds(e) \/ AttachBreaks(e) \/ DeleteEni(e)
  BY <1>2, <1>9 DEF AttachEnds, AttachBreaks, DeleteEni
<1> QED BY <1>3, <1>4, <1>5, <1>6, <1>7, <1>8, <1>9 DEF Next

\* taggedENIs never claims tags that an ENI does not have, whichever tagging
\* calls fail and whenever the process restarts: backfillEriTags may skip what
\* is marked.
THEOREM MarkersHonest == Spec => []MarkerMeansTagged
<1>1. Init => MarkerMeansTagged
  BY DEF Init, NodeControllerInit, MarkerMeansTagged
<1>2. Inductive /\ MarkerMeansTagged /\ [Next]_vars => MarkerMeansTagged'
  <2>1. CASE UNCHANGED vars
    BY <2>1 DEF vars, MarkerMeansTagged
  <2> QED BY <2>1, MarkerStep
<1> QED BY <1>1, <1>2, AlwaysInductive, PTL DEF Spec

-----------------------------------------------------------------------------
(* What a step may do to the ERdmaDevices and their copies *)

Working == {"describe", "ensure", "update"}

Kept(n) == cr'[n] = cr[n] /\ rev'[n] = rev[n]

Removed(n) == cr[n] # NoCR /\ cr'[n] = NoCR /\ rev'[n] = rev[n]

\* A write of the object leaves the cache alone and gets the next version.
NextVersion(n) == rev'[n] = rev[n] + 1 /\ crCache' = crCache /\ (dw' = dw \/ dw' = DeviceIdle)

Created(n) ==
    /\ nw.pc = "createCR" /\ n = nw.n /\ cr[n] = NoCR /\ cr'[n] = NewCR /\ NextVersion(n)

Marked(n) ==
    /\ cr[n] # NoCR /\ ~cr[n].deleting
    /\ cr'[n] = [cr[n] EXCEPT !.deleting = TRUE, !.rv = rev[n] + 1] /\ NextVersion(n)

Updated(n) ==
    /\ dw.pc = "update" /\ n = dw.n /\ cr[n] # NoCR /\ cr[n].rv = dw.snap.rv
    /\ cr'[n] = [cr[n] EXCEPT !.status = dw.out, !.rv = rev[n] + 1] /\ NextVersion(n)

ObjectStep ==
    \/ \A n \in Nodes : Kept(n)
    \/ \E n \in Nodes : /\ Removed(n) \/ Created(n) \/ Marked(n) \/ Updated(n)
                        /\ \A m \in Nodes \ {n} : Kept(m)

CacheStep ==
    \/ crCache' = crCache
    \/ \A n \in Nodes : Kept(n) /\ crCache'[n] \in {crCache[n], cr[n]}

Begins(n) ==
    /\ crCache[n] # NoCR /\ ~crCache[n].deleting
    /\ dw' = [DeviceIdle EXCEPT !.pc = "describe", !.n = n, !.snap = crCache[n]]
    /\ UNCHANGED <<cr, crCache, rev>>

WorkerStep ==
    dw'.pc \in Working =>
        \/ \E n \in Nodes : Begins(n)
        \/ dw.pc \in Working /\ dw'.n = dw.n /\ dw'.snap = dw.snap

\* Steps that leave the objects, their copies and the device worker alone.
LEMMA ObjectsKept ==
  ASSUME UNCHANGED <<cr, rev, crCache>>, dw' = dw \/ dw' = DeviceIdle
  PROVE  ObjectStep /\ CacheStep /\ WorkerStep
  BY IdlePCs DEF ObjectStep, CacheStep, WorkerStep, Kept, Working

\* RemoveERdmaDevices.
LEMMA RemoveKeeps ==
  ASSUME TypeOK, NEW n \in Nodes, NEW v, NEW ok, RemovePatch(n, v, ok) \/ RemoveDelete(n, ok)
  PROVE  ObjectStep /\ UNCHANGED crCache
<1>1. cr' = cr \/ (cr[n] # NoCR /\ cr' = [cr EXCEPT ![n] = NoCR])
  BY DEF RemovePatch, RemoveDelete
<1>2. UNCHANGED <<rev, crCache>>
  BY DEF RemovePatch, RemoveDelete
<1> QED BY <1>1, <1>2 DEF TypeOK, ObjectStep, Kept, Removed

\* The steps of the environment, the informers and the timers.
LEMMA OutsideObjects ==
  ASSUME TypeOK,
         \/ NodeChange
         \/ \E n \in Nodes : Timeout(n) \/ Collect(n) \/ Delete(n) \/ DeleteEnds(n)
         \/ \E e \in ENIs : AttachEnds(e) \/ AttachBreaks(e) \/ DeleteEni(e)
         \/ \E n \in Nodes : NodeEvent(n) \/ NodeRequeue(n) \/ NodeStart(n)
         \/ \E n \in Nodes : DeviceEvent(n) \/ DeviceResync(n) \/ DeviceRequeue(n)
         \/ Restart
  PROVE  ObjectStep /\ CacheStep /\ WorkerStep
<1>1. CASE NodeChange
  BY <1>1, ObjectsKept
     DEF NodeChange, CreateNode, SetReady, SetNotReady, Relabel, SetProviderID,
         MarkNodeDeleting, DeleteNode, ChangeNode
<1>2. CASE \E n \in Nodes : Timeout(n) \/ NodeEvent(n) \/ NodeRequeue(n) \/ NodeStart(n)
                            \/ DeviceResync(n) \/ DeviceRequeue(n)
  BY <1>2, ObjectsKept
     DEF Timeout, WaitTimeout, NodeEvent, DeliverNode, NodeRequeue, NodeTimer, NodeStart, NodeGet,
         DeviceResync, Resync, DeviceRequeue, DeviceTimer
<1>3. CASE \E e \in ENIs : AttachEnds(e) \/ AttachBreaks(e) \/ DeleteEni(e)
  BY <1>3, ObjectsKept
     DEF AttachEnds, FinishAttach, AttachBreaks, AttachFails, DeleteEni, DeleteENI
<1>4. ASSUME NEW n \in Nodes, Collect(n) \/ DeleteEnds(n)
      PROVE  ObjectStep /\ CacheStep /\ WorkerStep
  <2>1. cr[n] # NoCR /\ cr' = [cr EXCEPT ![n] = NoCR] /\ UNCHANGED <<rev, crCache, dw>>
    BY <1>4 DEF Collect, CollectGarbage, OwnerGone, DeleteEnds, FinishDelete
  <2> QED BY <2>1 DEF TypeOK, ObjectStep, CacheStep, WorkerStep, Kept, Removed
<1>5. ASSUME NEW n \in Nodes, Delete(n)
      PROVE  ObjectStep /\ CacheStep /\ WorkerStep
  <2>1. UNCHANGED <<crCache, dw>> /\ cr[n] # NoCR /\ ~cr[n].deleting
    BY <1>5 DEF Delete, UserDelete
  <2>2. CASE cr' = [cr EXCEPT ![n] = NoCR] /\ rev' = rev
    BY <2>1, <2>2 DEF TypeOK, ObjectStep, CacheStep, WorkerStep, Kept, Removed
  <2>3. CASE /\ rev' = [rev EXCEPT ![n] = @ + 1]
             /\ cr' = [cr EXCEPT ![n] = [@ EXCEPT !.deleting = TRUE, !.rv = rev[n] + 1]]
    <3>1. Marked(n) /\ \A m \in Nodes \ {n} : Kept(m)
      BY <2>1, <2>3 DEF TypeOK, Marked, NextVersion, Kept
    <3> QED BY <2>1, <3>1 DEF ObjectStep, CacheStep, WorkerStep
  <2> QED BY <1>5, <2>2, <2>3 DEF Delete, UserDelete
<1>6. ASSUME NEW n \in Nodes, DeviceEvent(n)
      PROVE  ObjectStep /\ CacheStep /\ WorkerStep
  BY <1>6 DEF DeviceEvent, DeliverDevice, TypeOK, ObjectStep, CacheStep, WorkerStep, Kept
<1>7. CASE Restart
  BY <1>7, IdlePCs DEF Restart, ObjectStep, CacheStep, WorkerStep, Kept, Working
<1> QED BY <1>1, <1>2, <1>3, <1>4, <1>5, <1>6, <1>7

\* The steps of the Node reconciler.
LEMMA NodeObjects ==
  ASSUME Inductive, NodeStep
  PROVE  ObjectStep /\ CacheStep /\ WorkerStep
<1>1. TypeOK /\ nw.n \in Nodes /\ UNCHANGED dw
  BY ProvisioningTypes DEF Inductive, NodeStep
<1>2. CASE NodeList \/ NodeBackfill \/ NodeSelect \/ NodeLookup \/ NodeCreateEni \/ NodeTag
           \/ NodeJumbo \/ NodePoll \/ NodeRmList
  BY <1>1, <1>2, ObjectsKept
     DEF NodeList, NodeBackfill, NodeSelect, NodeLookup, NodeCreateEni, NodeTag, NodeJumbo,
         NodePoll, NodeRmList
<1>3. CASE NodeRmPatch \/ NodeRmDelete
  BY <1>1, <1>3, RemoveKeeps DEF NodeRmPatch, NodeRmDelete, CacheStep, WorkerStep
<1>4. CASE NodeCreateCR
  <2>1. UNCHANGED <<crCache, dw>>
    BY <1>1, <1>4 DEF NodeCreateCR
  <2>2. CASE UNCHANGED <<cr, rev>>
    BY <2>1, <2>2, ObjectsKept
  <2>3. CASE /\ cr[nw.n] = NoCR
             /\ cr' = [cr EXCEPT ![nw.n] = NewCR] /\ rev' = [rev EXCEPT ![nw.n] = @ + 1]
    <3>1. Created(nw.n) /\ \A m \in Nodes \ {nw.n} : Kept(m)
      BY <1>1, <1>4, <2>1, <2>3 DEF TypeOK, Created, NextVersion, Kept, NodeCreateCR
    <3> QED BY <1>1, <2>1, <3>1 DEF ObjectStep, CacheStep, WorkerStep
  <2> QED BY <1>4, <2>2, <2>3 DEF NodeCreateCR
<1> QED BY <1>2, <1>3, <1>4 DEF NodeStep, NodeWorker

\* The steps of the ERdmaDevice reconciler.
LEMMA DeviceObjects ==
  ASSUME Inductive, DeviceStep \/ \E n \in Nodes : DeviceStart(n)
  PROVE  ObjectStep /\ CacheStep /\ WorkerStep
<1>1. TypeOK /\ dw \in DeviceWork /\ dw.n \in Nodes
  BY DeviceWorkTypes DEF Inductive
<1>2. ASSUME NEW n \in Nodes, DeviceStart(n)
      PROVE  ObjectStep /\ CacheStep /\ WorkerStep
  <2>1. UNCHANGED <<cr, rev, crCache>>
    BY <1>2 DEF DeviceStart, DeviceGet
  <2>2. CASE UNCHANGED dw
    BY <2>1, <2>2, ObjectsKept
  <2>3. CASE dw' = [DeviceIdle EXCEPT !.pc = "rmList", !.n = n]
    BY <2>1, <2>3 DEF ObjectStep, CacheStep, WorkerStep, Kept, Working, DeviceIdle
  <2>4. CASE Begins(n)
    BY <2>1, <2>4 DEF ObjectStep, CacheStep, WorkerStep, Kept
  <2> QED BY <1>2, <2>1, <2>2, <2>3, <2>4 DEF DeviceStart, DeviceGet, Begins
<1>3. ASSUME DeviceRetry \/ DeviceDone PROVE dw' = DeviceIdle /\ WorkerStep
  BY <1>3, IdlePCs DEF DeviceRetry, DeviceDone, WorkerStep, Working
<1>4. CASE DeviceDescribe \/ DeviceEnsure \/ DeviceMissing
  <2>1. UNCHANGED <<cr, rev, crCache>>
    BY <1>4 DEF DeviceDescribe, DeviceEnsure, DeviceMissing
  <2>2. dw' = DeviceIdle \/ (dw.pc \in Working /\ dw'.n = dw.n /\ dw'.snap = dw.snap)
    BY <1>1, <1>4
       DEF DeviceDescribe, DeviceEnsure, DeviceMissing, DeviceRetry, Report, ReportNothing,
           EnsureAttach, EnsureConvert, DeviceWork, Working
  <2> QED BY <2>1, <2>2, ObjectsKept DEF WorkerStep, ObjectStep, CacheStep, Kept
<1>5. CASE DeviceUpdate
  <2>1. UNCHANGED crCache /\ dw' = DeviceIdle /\ WorkerStep
    BY <1>3, <1>5 DEF DeviceUpdate
  <2>2. CASE UNCHANGED <<cr, rev>>
    BY <2>1, <2>2, ObjectsKept
  <2>3. CASE /\ cr[dw.n] # NoCR /\ cr[dw.n].rv = dw.snap.rv
             /\ rev' = [rev EXCEPT ![dw.n] = @ + 1]
             /\ cr' = [cr EXCEPT ![dw.n] = [@ EXCEPT !.status = dw.out, !.rv = rev[dw.n] + 1]]
    <3>1. Updated(dw.n) /\ \A m \in Nodes \ {dw.n} : Kept(m)
      BY <1>1, <1>5, <2>1, <2>3 DEF TypeOK, Updated, NextVersion, Kept, DeviceUpdate
    <3> QED BY <1>1, <2>1, <3>1 DEF ObjectStep, CacheStep
  <2> QED BY <1>5, <2>2, <2>3 DEF DeviceUpdate
<1>6. CASE DeviceRmList
  BY <1>1, <1>3, <1>6
     DEF DeviceRmList, DeviceWork, WorkerStep, Working, ObjectStep, CacheStep, Kept
<1>7. CASE DeviceRmPatch \/ DeviceRmDelete
  <2>1. ObjectStep /\ UNCHANGED crCache
    BY <1>1, <1>7, RemoveKeeps DEF DeviceRmPatch, DeviceRmDelete
  <2>2. WorkerStep
    BY <1>1, <1>3, <1>7 DEF DeviceRmPatch, DeviceRmDelete, DeviceWork, WorkerStep, Working
  <2> QED BY <2>1, <2>2 DEF CacheStep
<1> QED BY <1>2, <1>4, <1>5, <1>6, <1>7 DEF DeviceStep, DeviceWorker

LEMMA StepObjects == ASSUME Inductive, Next PROVE ObjectStep /\ CacheStep /\ WorkerStep
<1>1. TypeOK
  BY DEF Inductive
<1> QED BY <1>1, OutsideObjects, NodeObjects, DeviceObjects DEF Next

-----------------------------------------------------------------------------
(* Resource versions: the optimistic lock of Status().Update *)

\* A version names one state of an object: two copies with the same version are
\* the same, and no copy is ahead of the API server.
Versions ==
    /\ \A n \in Nodes :
         /\ cr[n] # NoCR => cr[n].rv <= rev[n]
         /\ crCache[n] # NoCR => crCache[n].rv <= rev[n]
         /\ cr[n] # NoCR /\ crCache[n] # NoCR /\ cr[n].rv = crCache[n].rv => cr[n] = crCache[n]
    /\ dw.pc \in Working =>
         /\ dw.snap.rv <= rev[dw.n]
         /\ cr[dw.n] # NoCR /\ cr[dw.n].rv = dw.snap.rv => cr[dw.n] = dw.snap

\* What can have become of one object.
LEMMA NewVersion ==
  ASSUME Inductive, ObjectStep, NEW n \in Nodes
  PROVE  /\ rev[n] \in Nat
         /\ \/ Kept(n)
            \/ cr'[n] = NoCR /\ rev'[n] = rev[n]
            \/ cr'[n].rv = rev[n] + 1 /\ NextVersion(n)
<1>1. TypeOK /\ (cr[n] # NoCR => cr[n] \in CRRec)
  BY DEF Inductive, TypeOK
<1>2. Created(n) => cr'[n].rv = rev[n] + 1
  BY DEF Created, NewCR
<1>3. Marked(n) \/ Updated(n) => cr'[n].rv = rev[n] + 1
  BY <1>1 DEF Marked, Updated, CRRec
<1> QED BY <1>1, <1>2, <1>3 DEF TypeOK, ObjectStep, Removed, Created, Marked, Updated

LEMMA VersionsStep == ASSUME Inductive, Versions, Next PROVE Versions'
<1>1. ObjectStep /\ CacheStep /\ WorkerStep /\ dw.n \in Nodes
  BY StepObjects, DeviceWorkTypes
<1>2. \A n \in Nodes : /\ cr[n] # NoCR => cr[n].rv \in Nat
                       /\ crCache[n] # NoCR => crCache[n].rv \in Nat
  BY DEF Inductive, TypeOK, CRRec
<1>3. dw.pc \in Working => dw.snap # NoCR /\ dw.snap.rv \in Nat
  BY DeviceWorkTypes DEF Working, CRRec, Inductive, ListedDevices
<1>4. ASSUME NEW n \in Nodes
      PROVE  /\ cr'[n] # NoCR => cr'[n].rv <= rev'[n]
             /\ crCache'[n] # NoCR => crCache'[n].rv <= rev'[n]
             /\ cr'[n] # NoCR /\ crCache'[n] # NoCR /\ cr'[n].rv = crCache'[n].rv
                   => cr'[n] = crCache'[n]
  <2>1. CASE Kept(n)
    BY <1>1, <1>2, <2>1 DEF Versions, CacheStep, Kept
  <2>2. CASE cr'[n] = NoCR /\ rev'[n] = rev[n]
    BY <1>1, <1>2, <2>2 DEF Versions, CacheStep, Kept
  <2>3. CASE cr'[n].rv = rev[n] + 1 /\ NextVersion(n)
    BY <1>1, <1>2, <2>3, NewVersion DEF Versions, NextVersion
  <2> QED BY <1>1, <2>1, <2>2, <2>3, NewVersion
<1>5. ASSUME dw'.pc \in Working
      PROVE  /\ dw'.snap.rv <= rev'[dw'.n]
             /\ cr'[dw'.n] # NoCR /\ cr'[dw'.n].rv = dw'.snap.rv => cr'[dw'.n] = dw'.snap
  <2>1. ASSUME NEW n \in Nodes, Begins(n)
        PROVE  /\ dw'.snap.rv <= rev'[dw'.n]
               /\ cr'[dw'.n] # NoCR /\ cr'[dw'.n].rv = dw'.snap.rv => cr'[dw'.n] = dw'.snap
    <3>1. dw'.n = n /\ dw'.snap = crCache[n] /\ crCache[n] # NoCR
      BY <2>1 DEF Begins, DeviceIdle
    <3> QED BY <2>1, <3>1 DEF Versions, Begins
  <2>2. CASE dw.pc \in Working /\ dw'.n = dw.n /\ dw'.snap = dw.snap
    <3>1. CASE Kept(dw.n)
      BY <1>1, <2>2, <3>1 DEF Versions, Kept
    <3>2. CASE cr'[dw.n] = NoCR /\ rev'[dw.n] = rev[dw.n]
      BY <1>1, <2>2, <3>2 DEF Versions
    <3>3. CASE cr'[dw.n].rv = rev[dw.n] + 1 /\ NextVersion(dw.n)
      BY <1>1, <1>3, <2>2, <3>3, NewVersion DEF Versions, NextVersion
    <3> QED BY <1>1, <3>1, <3>2, <3>3, NewVersion
  <2> QED BY <1>1, <1>5, <2>1, <2>2 DEF WorkerStep
<1> QED BY <1>4, <1>5 DEF Versions

LEMMA AlwaysVersions == Spec => []Versions
<1>1. Init => Versions
  BY IdlePCs
     DEF Init, ClusterInit, DeviceControllerInit, Versions, Working
<1>2. Inductive /\ Versions /\ [Next]_vars => Versions'
  <2>1. CASE UNCHANGED vars
    BY <2>1 DEF vars, Versions
  <2> QED BY <2>1, VersionsStep
<1> QED BY <1>1, <1>2, AlwaysInductive, PTL DEF Spec

-----------------------------------------------------------------------------
(* ReadyMeansInUse: the statuses *)

\* Every status Ready is of an RDMA interface in use.
Backed(enis, status) ==
    \A s \in status : s.st = "Ready" => enis[s.dev.id].st = "InUse" /\ enis[s.dev.id].rdma

\* A copy of an ERdmaDevice whose statuses are of its own devices, and true.
Truthful(enis, obj) ==
    obj # NoCR => Backed(enis, obj.status) /\ \A s \in obj.status : s.dev \in obj.spec

\* What EnsureEriForInstance saw of an ENI in use is still so.
StillSeen(enis, v) ==
    /\ v.st = "InUse" => enis[v.dev.id].st = "InUse"
    /\ v.rdma => enis[v.dev.id].rdma

\* The new statuses are of the object's devices and true, and no device that was
\* Ready is left out, unless its turn is still to come.
Reporting ==
    /\ dw.pc \in Working => Truthful(eni, dw.snap) /\ ~dw.snap.deleting
    /\ dw.pc = "describe" => dw.out = {}
    /\ dw.pc \in {"ensure", "update"} =>
          /\ Backed(eni, dw.out) /\ \A s \in dw.out : s.dev \in dw.snap.spec
          /\ \A s \in dw.snap.status : s.st = "Ready" =>
                \/ s \in dw.out
                \/ dw.pc = "ensure" /\ \E v \in dw.todo : v.dev = s.dev /\ SeenReady(v)
    /\ dw.pc = "ensure" => \A v \in dw.todo : StillSeen(eni, v)

Reports ==
    /\ \A n \in Nodes : Truthful(eni, cr[n]) /\ Truthful(eni, crCache[n])
    /\ Reporting

LEMMA BackedStays ==
  ASSUME EniMonotone, NEW status, status \subseteq StatusRec, Backed(eni, status)
  PROVE  Backed(eni', status)
<1>1. \A s \in status : s.dev.id \in ENIs
  BY DEF StatusRec, DeviceRec
<1> QED BY <1>1 DEF Backed, EniMonotone

LEMMA TruthfulStays ==
  ASSUME EniMonotone, NEW obj \in CRRec \cup {NoCR}, Truthful(eni, obj)
  PROVE  Truthful(eni', obj)
<1>1. obj # NoCR => obj.status \subseteq StatusRec
  BY DEF CRRec
<1> QED BY <1>1, BackedStays DEF Truthful

\* The object that DeviceUpdate writes, and the others.
LEMMA ObjectsTruthful ==
  ASSUME Inductive, Versions, Reports, EniMonotone, ObjectStep, CacheStep
  PROVE  \A n \in Nodes : Truthful(eni', cr'[n]) /\ Truthful(eni', crCache'[n])
<1> TAKE n \in Nodes
<1>1. /\ cr[n] \in CRRec \cup {NoCR} /\ crCache[n] \in CRRec \cup {NoCR}
      /\ Truthful(eni', cr[n]) /\ Truthful(eni', crCache[n])
  BY TruthfulStays DEF Inductive, TypeOK, Reports
<1>2. Truthful(eni', crCache'[n])
  BY <1>1 DEF CacheStep
<1>3. CASE Kept(n) \/ Removed(n)
  BY <1>1, <1>2, <1>3 DEF Kept, Removed, Truthful
<1>4. CASE Created(n)
  BY <1>2, <1>4 DEF Created, NewCR, Truthful, Backed
<1>5. CASE Marked(n)
  BY <1>1, <1>2, <1>5 DEF Marked, Truthful, CRRec
<1>6. CASE Updated(n)
  <2>1. cr[n] = dw.snap /\ cr[n] \in CRRec
    BY <1>1, <1>6 DEF Updated, Versions, Working
  <2>2. cr'[n].spec = dw.snap.spec /\ cr'[n].status = dw.out
    BY <1>6, <2>1 DEF Updated, CRRec
  <2>3. Backed(eni, dw.out) /\ \A s \in dw.out : s.dev \in dw.snap.spec
    BY <1>6 DEF Updated, Reports, Reporting
  <2>4. Backed(eni', dw.out)
    BY <2>3, BackedStays, DeviceWorkTypes DEF DeviceWork
  <2> QED BY <1>2, <2>2, <2>3, <2>4 DEF Truthful
<1> QED BY <1>3, <1>4, <1>5, <1>6 DEF ObjectStep

\* The steps in which the ERdmaDevice worker gets on with its statuses.
LEMMA WorkSteps ==
  ASSUME Inductive, Next
  PROVE  \/ dw' = dw \/ dw'.pc \notin Working \/ (\E n \in Nodes : Begins(n))
         \/ DeviceDescribe \/ DeviceEnsure
<1>1. CASE NodeChange \/ NodeStep
  BY <1>1 DEF NodeChange, NodeStep
<1>2. CASE \E n \in Nodes : \/ Timeout(n) \/ Collect(n) \/ Delete(n) \/ DeleteEnds(n)
                            \/ NodeEvent(n) \/ NodeRequeue(n) \/ NodeStart(n)
                            \/ DeviceEvent(n) \/ DeviceResync(n) \/ DeviceRequeue(n)
  BY <1>2
     DEF Timeout, Collect, Delete, DeleteEnds, NodeEvent, NodeRequeue, NodeStart,
         DeviceEvent, DeliverDevice, DeviceResync, Resync, DeviceRequeue, DeviceTimer
<1>3. CASE \E e \in ENIs : AttachEnds(e) \/ AttachBreaks(e) \/ DeleteEni(e)
  BY <1>3 DEF AttachEnds, AttachBreaks, DeleteEni
<1>4. ASSUME NEW n \in Nodes, DeviceStart(n)
      PROVE  dw' = dw \/ dw'.pc \notin Working \/ Begins(n)
  <2>1. CASE dw' = [DeviceIdle EXCEPT !.pc = "rmList", !.n = n]
    BY <2>1 DEF DeviceIdle, Working
  <2> QED BY <1>4, <2>1 DEF DeviceStart, DeviceGet, Begins
<1>5. CASE DeviceStep
  <2>1. dw \in DeviceWork
    BY DeviceWorkTypes
  <2>2. CASE DeviceMissing \/ DeviceUpdate \/ DeviceRmList \/ DeviceRmPatch \/ DeviceRmDelete
    BY <2>1, <2>2, IdlePCs
       DEF DeviceMissing, DeviceUpdate, DeviceRmList, DeviceRmPatch, DeviceRmDelete, DeviceDone, DeviceRetry,
           DeviceWork, Working
  <2> QED BY <1>5, <2>2 DEF DeviceStep, DeviceWorker
<1>6. CASE Restart
  BY <1>6, IdlePCs DEF Restart, Working
<1> QED BY <1>1, <1>2, <1>3, <1>4, <1>5, <1>6 DEF Next

\* An iteration of EnsureEriForInstance reports a device it saw ready as Ready,
\* and only reports Ready what is in use and converted after it.
LEMMA EnsureReports ==
  ASSUME Inductive, Reports, DeviceEnsure
  PROVE  \E v \in dw.todo, s \in Statuses :
            /\ Report(v, s) \/ (ReportNothing(v) /\ s # "Ready")
            /\ SeenReady(v) => s = "Ready"
            /\ s = "Ready" => eni'[v.dev.id].st = "InUse" /\ eni'[v.dev.id].rdma
<1>1. PICK v \in dw.todo :
         \/ SeenReady(v) /\ Report(v, "Ready") /\ UNCHANGED eni
         \/ SeenDetached(v) /\ EnsureAttach(v)
         \/ SeenUnconverted(v) /\ EnsureConvert(v)
         \/ ~SeenReady(v) /\ ReportNothing(v)
  BY DEF DeviceEnsure
<1>2. /\ v.dev.id \in ENIs /\ eni \in [ENIs -> EniRec] /\ eni[v.dev.id] \in EniRec
      /\ StillSeen(eni, v)
  BY DeviceWorkTypes
     DEF Inductive, TypeOK, DeviceWork, DeviceRec, Reports, Reporting, DeviceEnsure
<1>3. CASE SeenReady(v) /\ Report(v, "Ready") /\ UNCHANGED eni
  BY <1>2, <1>3 DEF SeenReady, StillSeen, Statuses
<1>4. CASE SeenDetached(v) /\ EnsureAttach(v)
  <2>1. ~SeenReady(v)
    BY <1>4 DEF SeenDetached, SeenReady
  <2> QED BY <1>4, <2>1 DEF EnsureAttach, Statuses
<1>5. CASE SeenUnconverted(v) /\ EnsureConvert(v)
  <2>1. ~SeenReady(v) /\ eni[v.dev.id].st = "InUse"
    BY <1>2, <1>5 DEF SeenUnconverted, SeenReady, StillSeen
  <2>2. CASE Report(v, "Failed")
    BY <2>1, <2>2 DEF Statuses
  <2>3. ASSUME NEW tags \in BOOLEAN, eni' = Converted(v.dev, tags)
        PROVE  eni'[v.dev.id].st = "InUse" /\ eni'[v.dev.id].rdma
    BY <1>2, <2>1, <2>3 DEF Converted, EniRec
  <2> QED BY <1>5, <2>1, <2>2, <2>3 DEF EnsureConvert, Statuses
<1>6. CASE ~SeenReady(v) /\ ReportNothing(v)
  BY <1>6 DEF Statuses
<1> QED BY <1>1, <1>3, <1>4, <1>5, <1>6

LEMMA EnsureKeepsReporting ==
  ASSUME Inductive, Reports, EniMonotone, DeviceEnsure
  PROVE  Reporting'
<1>1. PICK v \in dw.todo, s \in Statuses :
            /\ Report(v, s) \/ (ReportNothing(v) /\ s # "Ready")
            /\ SeenReady(v) => s = "Ready"
            /\ s = "Ready" => eni'[v.dev.id].st = "InUse" /\ eni'[v.dev.id].rdma
  BY EnsureReports
<1>2. /\ dw \in DeviceWork /\ dw.pc = "ensure" /\ dw.snap \in CRRec /\ dw.out \subseteq StatusRec
      /\ \A u \in dw.todo : u.dev \in DeviceRec /\ u.dev \in dw.snap.spec
  BY DeviceWorkTypes DEF DeviceEnsure, DeviceWork, Inductive, ListedDevices
<1> DEFINE new == [dev |-> v.dev, st |-> s]
<1>3. /\ dw'.snap = dw.snap /\ dw'.todo = dw.todo \ {v}
      /\ dw'.pc = AfterEnsure(v)
      /\ dw.out \subseteq dw'.out /\ dw'.out \subseteq dw.out \cup {new}
      /\ SeenReady(v) => new \in dw'.out
  BY <1>1, <1>2 DEF Report, ReportNothing, DeviceWork
<1>4. Truthful(eni', dw'.snap) /\ ~dw'.snap.deleting
  BY <1>2, <1>3, TruthfulStays DEF Reports, Reporting, Working
<1>5. Backed(eni', dw'.out) /\ \A x \in dw'.out : x.dev \in dw'.snap.spec
  <2>1. Backed(eni', dw.out)
    BY <1>2, BackedStays DEF Reports, Reporting
  <2>2. \A x \in dw.out : x.dev \in dw.snap.spec
    BY <1>2 DEF Reports, Reporting
  <2> QED BY <1>1, <1>2, <1>3, <2>1, <2>2 DEF Backed
<1>6. ASSUME NEW x \in dw'.snap.status, x.st = "Ready"
      PROVE  \/ x \in dw'.out
             \/ dw'.pc = "ensure" /\ \E u \in dw'.todo : u.dev = x.dev /\ SeenReady(u)
  <2>1. CASE x \in dw.out
    BY <1>3, <2>1
  <2>2. ASSUME NEW u \in dw.todo, u.dev = x.dev, SeenReady(u)
        PROVE  \/ x \in dw'.out
               \/ dw'.pc = "ensure" /\ \E w \in dw'.todo : w.dev = x.dev /\ SeenReady(w)
    <3>1. CASE u = v
      <4>1. x = [dev |-> x.dev, st |-> x.st]
        BY <1>2, <1>3 DEF CRRec, StatusRec
      <4>2. s = "Ready"
        BY <1>1, <2>2, <3>1
      <4> QED BY <1>3, <1>6, <2>2, <3>1, <4>1, <4>2
    <3>2. CASE u # v
      BY <1>3, <2>2, <3>2 DEF AfterEnsure
    <3> QED BY <3>1, <3>2
  <2> QED BY <1>2, <1>3, <1>6, <2>1, <2>2 DEF Reports, Reporting
<1>7. \A u \in dw'.todo : StillSeen(eni', u)
  <2>1. \A u \in dw.todo : StillSeen(eni, u) /\ u.dev.id \in ENIs
    BY <1>2 DEF Reports, Reporting, DeviceRec
  <2> QED BY <1>3, <2>1 DEF StillSeen, EniMonotone
<1>8. dw'.pc # "describe"
  BY <1>3 DEF AfterEnsure
<1> QED BY <1>4, <1>5, <1>6, <1>7, <1>8, Zenon DEF Reporting, SeenReady

LEMMA ReportingStep == ASSUME Inductive, Reports, Next PROVE Reporting'
<1>1. EniMonotone /\ dw \in DeviceWork
  BY StepMonotone, DeviceWorkTypes
<1>2. CASE dw' = dw
  <2>1. dw.pc \in Working => dw.snap \in CRRec /\ Truthful(eni', dw.snap) /\ ~dw.snap.deleting
    BY <1>1, TruthfulStays, DeviceWorkTypes DEF Reports, Reporting, Working
  <2>2. dw.pc \in {"ensure", "update"} => Backed(eni', dw.out)
    BY <1>1, BackedStays DEF Reports, Reporting, DeviceWork
  <2>3. dw.pc = "ensure" => \A v \in dw.todo : StillSeen(eni', v)
    <3>1. \A v \in dw.todo : v.dev.id \in ENIs
      BY <1>1 DEF DeviceWork, DeviceRec
    <3> QED BY <1>1, <3>1 DEF Reports, Reporting, StillSeen, EniMonotone
  <2> QED BY <1>2, <2>1, <2>2, <2>3 DEF Reports, Reporting, SeenReady
<1>3. CASE dw'.pc \notin Working
  BY <1>3 DEF Reporting, Working
<1>4. ASSUME NEW n \in Nodes, Begins(n) PROVE Reporting'
  <2>1. dw'.pc = "describe" /\ dw'.snap = crCache[n] /\ dw'.out = {}
    BY <1>4 DEF Begins, DeviceIdle
  <2>2. Truthful(eni', crCache[n])
    BY <1>1, TruthfulStays DEF Reports, Inductive, TypeOK
  <2> QED BY <1>4, <2>1, <2>2 DEF Reporting, Begins
<1>5. CASE DeviceDescribe
  <2>1. /\ UNCHANGED eni /\ dw.snap \in CRRec /\ dw.snap # NoCR /\ dw.out = {}
        /\ Truthful(eni, dw.snap) /\ ~dw.snap.deleting
    BY <1>5, DeviceWorkTypes
       DEF DeviceDescribe, Reports, Reporting, Working, Inductive, ListedDevices
  <2>2. CASE dw' = [dw EXCEPT !.pc = "ensure", !.todo = {Seen(d) : d \in dw.snap.spec}]
    <3>1. /\ dw'.pc = "ensure" /\ dw'.out = {} /\ dw'.snap = dw.snap
          /\ dw'.todo = {Seen(d) : d \in dw.snap.spec}
      BY <1>1, <2>1, <2>2 DEF DeviceWork
    <3>2. \A v \in dw'.todo : StillSeen(eni', v)
      BY <2>1, <3>1 DEF Seen, StillSeen
    <3>3. \A s \in dw.snap.status : s.st = "Ready" =>
              Seen(s.dev) \in dw'.todo /\ Seen(s.dev).dev = s.dev /\ SeenReady(Seen(s.dev))
      BY <2>1, <3>1 DEF Truthful, Backed, Seen, SeenReady
    <3> QED BY <2>1, <3>1, <3>2, <3>3 DEF Reporting, Backed, SeenReady, Truthful
  <2>3. CASE dw' = DeviceIdle
    BY <1>3, <2>3, IdlePCs DEF Working
  <2> QED BY <1>5, <2>2, <2>3 DEF DeviceDescribe, DeviceRetry
<1>6. CASE DeviceEnsure
  BY <1>1, <1>6, EnsureKeepsReporting
<1> QED BY <1>2, <1>3, <1>4, <1>5, <1>6, WorkSteps

LEMMA AlwaysReports == Spec => []Reports
<1>1. Init => Reports
  BY IdlePCs
     DEF Init, ClusterInit, DeviceControllerInit, Reports, Reporting, Truthful, Working
<1>2. Inductive /\ Versions /\ Reports /\ [Next]_vars => Reports'
  <2>1. CASE UNCHANGED vars
    BY <2>1 DEF vars, Reports, Reporting, SeenReady
  <2>2. ASSUME Inductive, Versions, Reports, Next PROVE Reports'
    <3>1. Reporting'
      BY <2>2, ReportingStep
    <3>2. \A n \in Nodes : Truthful(eni', cr'[n]) /\ Truthful(eni', crCache'[n])
      BY <2>2, StepMonotone, StepObjects, ObjectsTruthful
    <3> QED BY <3>1, <3>2 DEF Reports
  <2> QED BY <2>1, <2>2
<1> QED BY <1>1, <1>2, AlwaysInductive, AlwaysVersions, PTL DEF Spec

\* A status Ready can be trusted: at every moment the device is an RDMA interface
\* in use, although EnsureEriForInstance decided it on what it saw some time ago
\* and the status update came later still.
THEOREM ReadyTrusted == Spec => []ReadyMeansInUse
<1>1. Reports => ReadyMeansInUse
  BY DEF Reports, Truthful, Backed, ReadyMeansInUse
<1> QED BY <1>1, AlwaysReports, PTL

-----------------------------------------------------------------------------
(* NonReadyIsWatched: no lost wake-up *)

\* Somebody will look at the ERdmaDevice of n once more, besides the worker.
Awaited(n) == n \in dq \cup dDelay \/ crCache[n] # cr[n]

Watched(n) == Awaited(n) \/ (dw.pc # "idle" /\ dw.n = n)

\* A worker about to end with a Delete that does not remove the object (a
\* foreground deletion began after the finalizers were looked at) leaves it to
\* an event that is still to come.
RemovalWatched ==
    (dw.pc = "rmDelete" /\ cr[dw.n] # NoCR /\ cr[dw.n].deleting) => Awaited(dw.n)

AllWatched == NonReadyIsWatched /\ RemovalWatched

\* A version the API server has just given out is in no cache.
LEMMA WrittenIsAwaited ==
  ASSUME Inductive, Versions, ObjectStep, NEW n \in Nodes, cr'[n] # NoCR
  PROVE  Kept(n) \/ Awaited(n)'
<1>1. rev[n] \in Nat /\ (crCache[n] # NoCR => crCache[n].rv \in Nat /\ crCache[n].rv <= rev[n])
  BY DEF Inductive, TypeOK, CRRec, Versions
<1>2. CASE cr'[n].rv = rev[n] + 1 /\ NextVersion(n)
  <2>1. crCache'[n] # cr'[n]
    BY <1>1, <1>2 DEF NextVersion
  <2> QED BY <2>1 DEF Awaited
<1> QED BY <1>2, NewVersion

\* The steps that are not the ERdmaDevice worker's.
ForeignStep ==
    /\ dw' = dw /\ dq \subseteq dq' /\ dDelay \subseteq dDelay' \cup dq'
    /\ \A n \in Nodes : crCache'[n] = crCache[n] \/ n \in dq'

LEMMA ForeignSteps ==
  ASSUME TypeOK, Next
  PROVE  ForeignStep \/ DeviceStep \/ Restart \/ \E n \in Nodes : DeviceStart(n)
<1>1. CASE NodeChange
  BY <1>1 DEF NodeChange, CreateNode, SetReady, SetNotReady, Relabel, SetProviderID,
              MarkNodeDeleting, DeleteNode, ChangeNode, ForeignStep
<1>2. CASE \E n \in Nodes : Timeout(n) \/ Collect(n) \/ Delete(n) \/ DeleteEnds(n)
  BY <1>2 DEF Timeout, WaitTimeout, Collect, CollectGarbage, Delete, UserDelete, DeleteEnds,
              FinishDelete, ForeignStep
<1>3. CASE \E e \in ENIs : AttachEnds(e) \/ AttachBreaks(e) \/ DeleteEni(e)
  BY <1>3 DEF AttachEnds, FinishAttach, AttachBreaks, AttachFails, DeleteEni, DeleteENI, ForeignStep
<1>4. CASE \E n \in Nodes : NodeEvent(n) \/ NodeRequeue(n) \/ NodeStart(n)
  BY <1>4 DEF NodeEvent, DeliverNode, NodeRequeue, NodeTimer, NodeStart, NodeGet, ForeignStep
<1>5. CASE NodeStep
  BY <1>5 DEF NodeStep, NodeWorker, NodeList, NodeBackfill, NodeSelect, NodeLookup, NodeCreateEni,
              NodeTag, NodeJumbo, NodeCreateCR, NodePoll, NodeRmList, NodeRmPatch, NodeRmDelete,
              RemovePatch, RemoveDelete, ForeignStep
<1>6. CASE \E n \in Nodes : DeviceEvent(n)
  BY <1>6 DEF DeviceEvent, DeliverDevice, TypeOK, ForeignStep
<1>7. CASE \E n \in Nodes : DeviceResync(n) \/ DeviceRequeue(n)
  BY <1>7 DEF DeviceResync, Resync, DeviceRequeue, DeviceTimer, ForeignStep
<1> QED BY <1>1, <1>2, <1>3, <1>4, <1>5, <1>6, <1>7 DEF Next

LEMMA ForeignWatched ==
  ASSUME Inductive, Versions, AllWatched, ObjectStep, ForeignStep
  PROVE  AllWatched'
<1>1. ASSUME NEW n \in Nodes, cr'[n] # NoCR, Kept(n), Awaited(n) PROVE Awaited(n)'
  BY <1>1 DEF ForeignStep, Awaited, Kept
<1>2. ASSUME NEW n \in Nodes, cr'[n] # NoCR, NonReady(cr'[n].status) PROVE Watched(n)'
  <2>1. CASE Kept(n)
    BY <1>1, <1>2, <2>1 DEF Kept, AllWatched, NonReadyIsWatched, Watched, Awaited, ForeignStep
  <2> QED BY <1>2, <2>1, WrittenIsAwaited DEF Watched
<1>3. RemovalWatched'
  <2>1. dw.n \in Nodes /\ dw' = dw
    BY DeviceWorkTypes DEF ForeignStep
  <2>2. ASSUME dw.pc = "rmDelete", cr'[dw.n] # NoCR, cr'[dw.n].deleting PROVE Awaited(dw.n)'
    <3>1. CASE Kept(dw.n)
      BY <1>1, <2>1, <2>2, <3>1 DEF Kept, AllWatched, RemovalWatched
    <3> QED BY <2>1, <2>2, <3>1, WrittenIsAwaited
  <2> QED BY <2>1, <2>2 DEF RemovalWatched, Awaited
<1> QED BY <1>2, <1>3 DEF AllWatched, NonReadyIsWatched, Watched, Awaited

\* Reconcile takes the object off the queue: it is Configured, or the worker's.
LEMMA StartWatched ==
  ASSUME Inductive, AllWatched, NEW n \in Nodes, DeviceStart(n)
  PROVE  AllWatched'
<1>1. /\ dw.pc = "idle" /\ dq' = dq \ {n} /\ UNCHANGED <<cr, crCache, dDelay>>
  BY DEF DeviceStart, DeviceGet
<1>2. dw' = dw \/ (dw'.pc \in {"describe", "rmList"} /\ dw'.n = n)
  BY DEF DeviceStart, DeviceGet, DeviceIdle
<1>3. ASSUME cr[n] = crCache[n], cr[n] # NoCR, NonReady(cr[n].status) PROVE dw'.pc # "idle"
  <2>1. ~Configured(crCache[n])
    BY <1>3 DEF Configured
  <2>2. \/ dw' = [DeviceIdle EXCEPT !.pc = "rmList", !.n = n]
        \/ dw' = [DeviceIdle EXCEPT !.pc = "describe", !.n = n, !.snap = crCache[n]]
    BY <1>3, <2>1 DEF DeviceStart, DeviceGet
  <2> QED BY <2>2 DEF DeviceIdle
<1>4. ASSUME NEW m \in Nodes, cr'[m] # NoCR, NonReady(cr'[m].status) PROVE Watched(m)'
  <2>1. Watched(m)
    BY <1>1, <1>4 DEF AllWatched, NonReadyIsWatched, Watched, Awaited
  <2>2. CASE m # n
    BY <1>1, <2>1, <2>2 DEF Watched, Awaited
  <2>3. CASE m = n
    BY <1>1, <1>2, <1>3, <1>4, <2>3 DEF Watched, Awaited
  <2> QED BY <2>2, <2>3
<1>5. RemovalWatched'
  BY <1>1, <1>2 DEF RemovalWatched
<1> QED BY <1>4, <1>5 DEF AllWatched, NonReadyIsWatched, Watched, Awaited

LEMMA RestartWatched == ASSUME TypeOK, Restart PROVE AllWatched'
  BY IdlePCs DEF Restart, TypeOK, AllWatched, NonReadyIsWatched, RemovalWatched, Awaited

\* How the worker's steps end: it goes on, the object is looked at later, or
\* there is nothing more to do for it.
LEMMA WorkerEnds ==
  ASSUME Inductive, AllWatched, DeviceStep
  PROVE  /\ dq' = dq /\ crCache' = crCache /\ dDelay \subseteq dDelay'
         /\ dw.pc # "idle"
         /\ \A m \in Nodes \ {dw.n} : cr'[m] = cr[m]
         /\ \/ dw'.pc # "idle" /\ dw'.n = dw.n
            \/ dw.n \in dDelay' \/ cr'[dw.n] = NoCR \/ ~NonReady(cr'[dw.n].status)
            \/ dw.n \in dq' \/ crCache'[dw.n] # cr'[dw.n]
<1>1. dw \in DeviceWork /\ dw.n \in Nodes /\ cr \in [Nodes -> CRRec \cup {NoCR}]
  BY DeviceWorkTypes DEF Inductive, TypeOK
<1>2. CASE DeviceDescribe \/ DeviceMissing
  BY <1>1, <1>2 DEF DeviceDescribe, DeviceMissing, DeviceRetry, DeviceWork
<1>3. CASE DeviceEnsure
  BY <1>1, <1>3
     DEF DeviceEnsure, Report, ReportNothing, EnsureAttach, EnsureConvert, AfterEnsure, DeviceWork
<1>4. CASE DeviceUpdate
  <2>1. /\ dq' = dq /\ crCache' = crCache /\ dDelay \subseteq dDelay' /\ dw.pc = "update"
        /\ \A m \in Nodes \ {dw.n} : cr'[m] = cr[m]
    BY <1>1, <1>4 DEF DeviceUpdate, DeviceRetry, DeviceDone
  <2>2. dw.n \in dDelay' \/ cr'[dw.n] = NoCR \/ ~NonReady(cr'[dw.n].status)
    <3>1. CASE DeviceRetry
      BY <3>1 DEF DeviceRetry
    <3>2. CASE ~NonReady(dw.out) /\ dw.out = cr[dw.n].status /\ UNCHANGED cr
      BY <3>2
    <3>3. CASE /\ ~NonReady(dw.out) /\ cr[dw.n] # NoCR
               /\ cr' = [cr EXCEPT ![dw.n] = [@ EXCEPT !.status = dw.out, !.rv = rev[dw.n] + 1]]
      <4>1. cr'[dw.n].status = dw.out
        BY <1>1, <3>3 DEF CRRec
      <4> QED BY <3>3, <4>1
    <3> QED BY <1>4, <3>1, <3>2, <3>3 DEF DeviceUpdate
  <2> QED BY <2>1, <2>2
<1>5. CASE DeviceRmList
  BY <1>1, <1>5 DEF DeviceRmList, DeviceDone, DeviceWork, Awaited
<1>6. CASE DeviceRmPatch
  BY <1>1, <1>6 DEF DeviceRmPatch, DeviceRetry, RemovePatch, DeviceWork
<1>7. CASE DeviceRmDelete
  <2>1. /\ dq' = dq /\ crCache' = crCache /\ dDelay \subseteq dDelay' /\ dw.pc = "rmDelete"
        /\ \A m \in Nodes \ {dw.n} : cr'[m] = cr[m]
    BY <1>1, <1>7 DEF DeviceRmDelete, DeviceRetry, DeviceDone, RemoveDelete
  <2>2. CASE DeviceRetry
    BY <2>1, <2>2 DEF DeviceRetry
  <2>3. CASE RemoveDelete(dw.n, TRUE)
    <3>1. cr'[dw.n] = NoCR \/ (cr' = cr /\ cr[dw.n] # NoCR /\ cr[dw.n].deleting)
      BY <1>1, <2>3 DEF RemoveDelete
    <3> QED BY <2>1, <3>1 DEF AllWatched, RemovalWatched, Awaited
  <2> QED BY <1>7, <2>2, <2>3 DEF DeviceRmDelete
<1> QED BY <1>2, <1>3, <1>4, <1>5, <1>6, <1>7 DEF DeviceStep, DeviceWorker

LEMMA WorkerWatched ==
  ASSUME Inductive, AllWatched, DeviceStep
  PROVE  AllWatched'
<1>1. dw \in DeviceWork /\ dw.n \in Nodes
  BY DeviceWorkTypes
<1>2. ASSUME NEW m \in Nodes, cr'[m] # NoCR, NonReady(cr'[m].status) PROVE Watched(m)'
  <2>1. CASE m = dw.n
    BY <1>2, <2>1, WorkerEnds DEF Watched, Awaited
  <2>2. CASE m # dw.n
    BY <1>2, <2>2, WorkerEnds DEF AllWatched, NonReadyIsWatched, Watched, Awaited
  <2> QED BY <2>1, <2>2
<1>3. RemovalWatched'
  <2>1. CASE dw'.pc # "rmDelete"
    BY <2>1 DEF RemovalWatched
  <2>2. CASE dw'.pc = "rmDelete"
    <3>1. DeviceRmPatch
      BY <1>1, <2>2, IdlePCs
         DEF DeviceStep, DeviceWorker, DeviceDescribe, DeviceEnsure, DeviceMissing, DeviceUpdate,
             DeviceRmList, DeviceRmDelete, DeviceDone, DeviceRetry, Report, ReportNothing, EnsureAttach,
             EnsureConvert, AfterEnsure, DeviceWork
    <3>2. RemovePatch(dw.n, dw.rv, TRUE) /\ dw'.n = dw.n
      BY <1>1, <2>2, <3>1, IdlePCs DEF DeviceRmPatch, DeviceRetry, DeviceWork
    <3>3. ASSUME cr'[dw.n] # NoCR, cr'[dw.n].deleting PROVE crCache'[dw.n] # cr'[dw.n]
      BY <1>1, <3>2, <3>3
         DEF RemovePatch, PatchNothing, PatchFinalizers, Inductive, TypeOK
    <3> QED BY <3>2, <3>3 DEF RemovalWatched, Awaited
  <2> QED BY <2>1, <2>2
<1> QED BY <1>2, <1>3 DEF AllWatched, NonReadyIsWatched, Watched, Awaited

\* No lost wake-up: while an ERdmaDevice has a device that is not Ready, some
\* queue, timer, worker or undelivered event of the ERdmaDevice reconciler will
\* look at it again.
THEOREM NeverForgotten == Spec => []NonReadyIsWatched
<1>1. Init => AllWatched
  BY IdlePCs
     DEF Init, ClusterInit, DeviceControllerInit, AllWatched, NonReadyIsWatched, RemovalWatched
<1>2. Inductive /\ Versions /\ AllWatched /\ [Next]_vars => AllWatched'
  <2>1. CASE UNCHANGED vars
    BY <2>1 DEF vars, AllWatched, NonReadyIsWatched, RemovalWatched, Awaited, NonReady
  <2>2. ASSUME Inductive, Versions, AllWatched, Next PROVE AllWatched'
    <3>1. TypeOK /\ ObjectStep
      BY <2>2, StepObjects DEF Inductive
    <3> QED BY <2>2, <3>1, ForeignSteps, ForeignWatched, StartWatched, RestartWatched, WorkerWatched
  <2> QED BY <2>1, <2>2
<1>3. AllWatched => NonReadyIsWatched
  BY DEF AllWatched
<1> QED BY <1>1, <1>2, <1>3, AlwaysInductive, AlwaysVersions, PTL DEF Spec

-----------------------------------------------------------------------------
(* DeletesOnlyOrphans: what the Node reconciler knows of a Node's past *)

Alive(v) == v.phase \in {"ready", "notready"}

Providing == {"list", "select", "lookup", "create", "tag", "jumbo", "createCR"}
Removing  == {"rmList", "rmPatch", "rmDelete"}

\* The incarnations of Node n that the controller has seen or acted for.
KnownUids(n) ==
    {nodeCache[n].uid}
      \cup {cr[m].uid : m \in {x \in {n} : cr[x] # NoCR}}
      \cup {nw.uid : m \in {x \in {n} : nw.n = x /\ nw.pc \in Providing}}

\* Uids are handed out in the order of the changes of the Nodes.
UidsGiven ==
    \A n \in Nodes :
        /\ node[n].uid <= churn
        /\ \A u \in KnownUids(n) : u \in Nat /\ u <= churn
        /\ \A k \in 1 .. Len(nodeLog[n]) : nodeLog[n][k].uid <= churn

\* Neither the cached Node nor a version on its way to the cache is gone or
\* being deleted.
Uninterrupted(n) ==
    Alive(nodeCache[n]) /\ \A k \in 1 .. Len(nodeLog[n]) : Alive(nodeLog[n][k])

\* Versions arrive in order: once an incarnation that lives is on its way or
\* known, no deletion is still to be seen.
InOrder(n) ==
    Alive(node[n]) =>
        /\ \A k \in 1 .. Len(nodeLog[n]) : nodeLog[n][k].uid = node[n].uid =>
              \A j \in k .. Len(nodeLog[n]) : Alive(nodeLog[n][j])
        /\ node[n].uid \in KnownUids(n) => Uninterrupted(n)

Orphan(n) == cr[n] # NoCR => ~(Alive(node[n]) /\ node[n].uid = cr[n].uid)

History ==
    /\ UidsGiven /\ \A n \in Nodes : InOrder(n)
    /\ nw.pc \in Removing => Orphan(nw.n)

\* A later version b of a Node that version a is of: as long as the Node exists it
\* is of the same instance, and a deletion is not taken back.
Follows(a, b) ==
    Exists(a) /\ Exists(b) =>
        a.inst = b.inst /\ (a.phase = "deleting" => b.phase = "deleting")

\* A Node is replaced, or keeps its uid; only a Node that lived can live on.
NodeChanged(n) ==
    \E new \in NodeRec :
        /\ ChangeNode(n, new)
        /\ new.uid <= churn + 1 /\ Follows(node[n], new)
        /\ Alive(new) => new.uid = churn + 1 \/ (Alive(node[n]) /\ new.uid = node[n].uid)

LEMMA NodeChanges ==
  ASSUME TypeOK, UidsGiven, NodeChange
  PROVE  \E n \in Nodes : NodeChanged(n)
<1>1. PICK n \in Nodes : \/ CreateNode(n) \/ SetReady(n) \/ SetNotReady(n) \/ Relabel(n)
                         \/ SetProviderID(n) \/ MarkNodeDeleting(n) \/ DeleteNode(n)
  BY DEF NodeChange
<1>2. node[n] \in NodeRec /\ churn \in Nat /\ node[n].uid \in Nat /\ node[n].uid <= churn
  BY DEF TypeOK, NodeRec, UidsGiven
<1>3. CASE CreateNode(n)
  <2>1. PICK i \in Instances, k \in NodeKinds :
           ChangeNode(n, [phase |-> k.phase, uid |-> churn + 1, inst |-> i,
                          own |-> k.own, prov |-> k.prov])
    BY <1>3 DEF CreateNode
  <2>2. [phase |-> k.phase, uid |-> churn + 1, inst |-> i, own |-> k.own, prov |-> k.prov]
           \in NodeRec
    BY <1>2, ConfigAssumption DEF NodeRec, Phases
  <2> QED BY <1>2, <1>3, <2>1, <2>2 DEF NodeChanged, Follows, Exists, CreateNode
<1>4. CASE SetReady(n) \/ SetNotReady(n) \/ MarkNodeDeleting(n)
  <2>1. PICK p \in Phases : /\ Alive(node[n])
                            /\ ChangeNode(n, [node[n] EXCEPT !.phase = p])
    BY <1>4 DEF SetReady, SetNotReady, MarkNodeDeleting, Phases, Alive
  <2> DEFINE new == [node[n] EXCEPT !.phase = p]
  <2>2. new \in NodeRec /\ new.uid = node[n].uid /\ new.inst = node[n].inst
    BY <1>2 DEF NodeRec
  <2>3. ChangeNode(n, new)
    BY <2>1
  <2> HIDE DEF new
  <2> QED BY <1>2, <2>1, <2>2, <2>3 DEF NodeChanged, Follows, Alive
<1>5. CASE Relabel(n) \/ SetProviderID(n)
  <2> DEFINE labelled == [node[n] EXCEPT !.own = ~node[n].own]
             provided == [node[n] EXCEPT !.prov = TRUE]
  <2>1. /\ labelled \in NodeRec /\ labelled.uid = node[n].uid /\ labelled.phase = node[n].phase
        /\ provided \in NodeRec /\ provided.uid = node[n].uid /\ provided.phase = node[n].phase
        /\ labelled.inst = node[n].inst /\ provided.inst = node[n].inst
    BY <1>2 DEF NodeRec
  <2>2. ChangeNode(n, labelled) \/ ChangeNode(n, provided)
    BY <1>5 DEF Relabel, SetProviderID
  <2> HIDE DEF labelled, provided
  <2> QED BY <1>2, <2>1, <2>2 DEF NodeChanged, Follows, Alive
<1>6. CASE DeleteNode(n)
  <2> DEFINE new == [AbsentNode EXCEPT !.own = node[n].own]
  <2>1. new \in NodeRec /\ new.uid = 0 /\ new.phase = "absent"
    BY <1>2 DEF AbsentNode, NodeRec, Phases
  <2>2. ChangeNode(n, new)
    BY <1>6 DEF DeleteNode
  <2> HIDE DEF new
  <2> QED BY <1>2, <2>1, <2>2 DEF NodeChanged, Follows, Exists, Alive
<1> QED BY <1>1, <1>3, <1>4, <1>5, <1>6

\* What the controller knows comes from its cache alone.
LEMMA KnownStep ==
  ASSUME Inductive, Next, NEW n \in Nodes
  PROVE  KnownUids(n)' \subseteq KnownUids(n) \cup {nodeCache'[n].uid}
<1>1. ObjectStep /\ nw \in NodeWork
  BY StepObjects, ProvisioningTypes
<1>2. ASSUME cr'[n] # NoCR PROVE cr'[n].uid \in KnownUids(n)
  <2>1. CASE Kept(n)
    BY <1>2, <2>1 DEF Kept, KnownUids
  <2>2. CASE Created(n)
    BY <2>2 DEF Created, NewCR, KnownUids, Providing
  <2>3. CASE Marked(n) \/ Updated(n)
    <3>1. cr[n] # NoCR /\ cr'[n].uid = cr[n].uid
      BY <2>3 DEF Marked, Updated, Inductive, TypeOK, CRRec
    <3> QED BY <3>1 DEF KnownUids
  <2> QED BY <1>1, <1>2, <2>1, <2>2, <2>3 DEF ObjectStep, Removed
<1>3. ASSUME nw'.n = n, nw'.pc \in Providing PROVE nw'.uid \in KnownUids(n)
  <2>1. CASE nw' = nw
    BY <1>3, <2>1 DEF KnownUids
  <2>2. ASSUME NEW m \in Nodes, NodeStart(m), nw' # nw PROVE nw'.uid \in KnownUids(n)
    <3>1. \/ nw' = [NodeIdle EXCEPT !.pc = "rmList", !.n = m]
          \/ nw' = [NodeIdle EXCEPT !.pc = "list", !.n = m, !.uid = nodeCache[m].uid,
                                    !.inst = InstanceIDFromNode(nodeCache[m])]
      BY <2>2 DEF NodeStart, NodeGet
    <3>2. nw'.n = m /\ nw'.uid = nodeCache[m].uid
      BY <1>3, <3>1 DEF NodeIdle, Providing
    <3> QED BY <1>3, <3>2 DEF KnownUids
  <2>3. CASE NodeStep
    <3>1. nw.pc \in Providing /\ nw'.n = nw.n /\ nw'.uid = nw.uid
      BY <1>1, <1>3, <2>3, IdlePCs
         DEF NodeStep, NodeWorker, NodeList, NodeBackfill, NodeSelect, NodeLookup, NodeCreateEni,
             NodeTag, NodeJumbo, NodeCreateCR, NodePoll, NodeRmList, NodeRmPatch, NodeRmDelete, NodeDone,
             NodeRetry, NodeWork, NodeIdle, Providing, AfterCreate
    <3> QED BY <1>3, <3>1 DEF KnownUids
  <2>4. CASE Restart
    BY <1>3, <2>4, IdlePCs DEF Restart, Providing
  <2>5. nw' = nw \/ NodeStep \/ Restart \/ \E m \in Nodes : NodeStart(m)
    BY DEF Next, NodeChange, Timeout, Collect, Delete, DeleteEnds, AttachEnds, AttachBreaks,
           DeleteEni, NodeEvent, DeliverNode, NodeRequeue, NodeTimer, DeviceEvent, DeviceResync,
           DeviceRequeue, DeviceStart, DeviceStep
  <2> QED BY <2>1, <2>2, <2>3, <2>4, <2>5
<1> QED BY <1>2, <1>3 DEF KnownUids

\* What one step does to the Nodes, their logs and their cached copies.
LEMMA NodeViews ==
  ASSUME Inductive, UidsGiven, Next
  PROVE  \/ UNCHANGED <<node, nodeLog, nodeCache, churn>>
         \/ \E n \in Nodes : NodeChanged(n)
         \/ \E n \in Nodes : NodeEvent(n)
         \/ Restart
<1>1. TypeOK
  BY DEF Inductive
<1>2. CASE NodeChange
  BY <1>1, <1>2, NodeChanges
<1>3. CASE \E n \in Nodes : Timeout(n) \/ Collect(n) \/ Delete(n) \/ DeleteEnds(n)
  BY <1>3 DEF Timeout, WaitTimeout, Collect, CollectGarbage, Delete, UserDelete, DeleteEnds,
              FinishDelete
<1>4. CASE \E e \in ENIs : AttachEnds(e) \/ AttachBreaks(e) \/ DeleteEni(e)
  BY <1>4 DEF AttachEnds, FinishAttach, AttachBreaks, AttachFails, DeleteEni, DeleteENI
<1>5. CASE \E n \in Nodes : NodeRequeue(n) \/ NodeStart(n)
  BY <1>5 DEF NodeRequeue, NodeTimer, NodeStart, NodeGet
<1>6. CASE NodeStep
  BY <1>6 DEF NodeStep, NodeWorker, NodeList, NodeBackfill, NodeSelect, NodeLookup, NodeCreateEni,
              NodeTag, NodeJumbo, NodeCreateCR, NodePoll, NodeRmList, NodeRmPatch, NodeRmDelete,
              RemovePatch, RemoveDelete
<1>7. CASE \E n \in Nodes : DeviceEvent(n) \/ DeviceResync(n) \/ DeviceRequeue(n) \/ DeviceStart(n)
  BY <1>7 DEF DeviceEvent, DeliverDevice, DeviceResync, Resync, DeviceRequeue, DeviceTimer,
              DeviceStart, DeviceGet
<1>8. CASE DeviceStep
  BY <1>8 DEF DeviceStep, DeviceWorker, DeviceDescribe, DeviceEnsure, DeviceMissing, DeviceUpdate,
              DeviceRmList, DeviceRmPatch, DeviceRmDelete, RemovePatch, RemoveDelete
<1> QED BY <1>2, <1>3, <1>4, <1>5, <1>6, <1>7, <1>8 DEF Next

\* A change of a Node appends to its log.
LEMMA ChangedViews ==
  ASSUME TypeOK, NEW n \in Nodes, NEW new \in NodeRec, ChangeNode(n, new)
  PROVE  /\ node'[n] = new /\ nodeCache' = nodeCache /\ churn' = churn + 1
         /\ \A m \in Nodes \ {n} : node'[m] = node[m] /\ nodeLog'[m] = nodeLog[m]
         /\ Len(nodeLog[n]) \in Nat /\ Len(nodeLog'[n]) = Len(nodeLog[n]) + 1
         /\ \A k \in 1 .. Len(nodeLog[n]) : nodeLog'[n][k] = nodeLog[n][k]
         /\ nodeLog'[n][Len(nodeLog[n]) + 1] = new
<1>1. nodeLog[n] \in Seq(NodeRec) /\ nodeLog'[n] = Append(nodeLog[n], new)
  BY DEF TypeOK, ChangeNode
<1> QED BY <1>1 DEF TypeOK, ChangeNode

\* An event takes the oldest version off the log.
LEMMA DeliveredViews ==
  ASSUME TypeOK, NEW n \in Nodes, NodeEvent(n)
  PROVE  /\ node' = node /\ churn' = churn
         /\ \A m \in Nodes \ {n} : nodeCache'[m] = nodeCache[m] /\ nodeLog'[m] = nodeLog[m]
         /\ Len(nodeLog[n]) \in Nat \ {0} /\ Len(nodeLog'[n]) = Len(nodeLog[n]) - 1
         /\ nodeCache'[n] = nodeLog[n][1]
         /\ \A k \in 1 .. Len(nodeLog'[n]) : nodeLog'[n][k] = nodeLog[n][k + 1]
<1>1. nodeLog[n] \in Seq(NodeRec) /\ nodeLog[n] # <<>> /\ nodeLog'[n] = Tail(nodeLog[n])
      /\ nodeCache'[n] = Head(nodeLog[n])
  BY DEF TypeOK, NodeEvent, DeliverNode
<1>2. Len(nodeLog[n]) \in Nat \ {0}
  BY <1>1
<1>3. /\ Len(nodeLog'[n]) = Len(nodeLog[n]) - 1 /\ nodeCache'[n] = nodeLog[n][1]
      /\ \A k \in 1 .. Len(nodeLog'[n]) : nodeLog'[n][k] = nodeLog[n][k + 1]
  BY <1>1, <1>2
<1> QED BY <1>2, <1>3 DEF TypeOK, NodeEvent, DeliverNode

LEMMA UidsStep == ASSUME Inductive, TypeOK', UidsGiven, Next PROVE UidsGiven'
<1> SUFFICES ASSUME NEW n \in Nodes
             PROVE  /\ node'[n].uid <= churn'
                    /\ \A u \in KnownUids(n)' : u \in Nat /\ u <= churn'
                    /\ \A k \in 1 .. Len(nodeLog'[n]) : nodeLog'[n][k].uid <= churn'
  BY DEF UidsGiven
<1>1. /\ TypeOK /\ churn \in Nat /\ churn' \in Nat
      /\ node[n].uid \in Nat /\ node[n].uid <= churn
      /\ \A k \in 1 .. Len(nodeLog[n]) : nodeLog[n][k].uid \in Nat /\ nodeLog[n][k].uid <= churn
      /\ \A u \in KnownUids(n) : u \in Nat /\ u <= churn
      /\ nodeCache[n].uid \in KnownUids(n)
  <2>1. TypeOK /\ churn \in Nat /\ churn' \in Nat /\ node[n] \in NodeRec
    BY ConfigAssumption DEF Inductive, TypeOK
  <2>2. nodeLog[n] \in Seq(NodeRec)
    BY <2>1 DEF TypeOK
  <2>3. \A k \in 1 .. Len(nodeLog[n]) : nodeLog[n][k] \in NodeRec
    BY <2>2
  <2> QED BY <2>1, <2>3 DEF NodeRec, UidsGiven, KnownUids
<1>2. KnownUids(n)' \subseteq KnownUids(n) \cup {nodeCache'[n].uid} /\ nodeCache'[n].uid \in Nat
  BY KnownStep DEF TypeOK, NodeRec
<1>3. CASE UNCHANGED <<node, nodeLog, nodeCache, churn>>
  BY <1>1, <1>2, <1>3
<1>4. ASSUME NEW m \in Nodes, NEW new \in NodeRec, ChangeNode(m, new), new.uid <= churn + 1
      PROVE  /\ node'[n].uid <= churn'
             /\ \A u \in KnownUids(n)' : u \in Nat /\ u <= churn'
             /\ \A k \in 1 .. Len(nodeLog'[n]) : nodeLog'[n][k].uid <= churn'
  <2>1. churn' = churn + 1 /\ nodeCache' = nodeCache
    BY <1>1, <1>4, ChangedViews
  <2>2. \A u \in KnownUids(n)' : u \in Nat /\ u <= churn'
    BY <1>1, <1>2, <2>1
  <2>3. CASE m # n
    BY <1>1, <1>4, <2>1, <2>2, <2>3, ChangedViews
  <2>4. CASE m = n
    <3>1. /\ node'[n] = new
          /\ Len(nodeLog[n]) \in Nat /\ Len(nodeLog'[n]) = Len(nodeLog[n]) + 1
          /\ \A k \in 1 .. Len(nodeLog[n]) : nodeLog'[n][k] = nodeLog[n][k]
          /\ nodeLog'[n][Len(nodeLog[n]) + 1] = new
      BY <1>1, <1>4, <2>4, ChangedViews
    <3>2. ASSUME NEW k \in 1 .. Len(nodeLog'[n]) PROVE nodeLog'[n][k].uid <= churn'
      <4>1. CASE k \in 1 .. Len(nodeLog[n])
        BY <1>1, <2>1, <3>1, <4>1
      <4>2. CASE k = Len(nodeLog[n]) + 1
        BY <1>4, <2>1, <3>1, <4>2
      <4> QED BY <3>1, <4>1, <4>2
    <3> QED BY <1>4, <2>1, <2>2, <3>1, <3>2
  <2> QED BY <2>3, <2>4
<1>5. ASSUME NEW m \in Nodes, NodeEvent(m)
      PROVE  /\ node'[n].uid <= churn'
             /\ \A u \in KnownUids(n)' : u \in Nat /\ u <= churn'
             /\ \A k \in 1 .. Len(nodeLog'[n]) : nodeLog'[n][k].uid <= churn'
  <2>1. node' = node /\ churn' = churn
    BY <1>1, <1>5, DeliveredViews
  <2>2. CASE m # n
    BY <1>1, <1>2, <1>5, <2>1, <2>2, DeliveredViews
  <2>3. CASE m = n
    <3>1. /\ Len(nodeLog[n]) \in Nat \ {0} /\ Len(nodeLog'[n]) = Len(nodeLog[n]) - 1
          /\ nodeCache'[n] = nodeLog[n][1]
          /\ \A k \in 1 .. Len(nodeLog'[n]) : nodeLog'[n][k] = nodeLog[n][k + 1]
      BY <1>1, <1>5, <2>3, DeliveredViews
    <3>2. nodeCache'[n].uid <= churn
      BY <1>1, <3>1
    <3>3. ASSUME NEW k \in 1 .. Len(nodeLog'[n]) PROVE nodeLog'[n][k].uid <= churn
      <4>1. k + 1 \in 1 .. Len(nodeLog[n])
        BY <3>1
      <4> QED BY <1>1, <3>1, <4>1
    <3> QED BY <1>1, <1>2, <2>1, <3>2, <3>3
  <2> QED BY <2>2, <2>3
<1>6. CASE Restart
  BY <1>1, <1>2, <1>6 DEF Restart
<1> QED BY <1>3, <1>4, <1>5, <1>6, NodeViews DEF NodeChanged

LEMMA InOrderStep ==
  ASSUME Inductive, UidsGiven, Next, NEW n \in Nodes, InOrder(n)
  PROVE  InOrder(n)'
<1> SUFFICES ASSUME Alive(node'[n])
             PROVE  /\ \A k \in 1 .. Len(nodeLog'[n]) : nodeLog'[n][k].uid = node'[n].uid =>
                          \A j \in k .. Len(nodeLog'[n]) : Alive(nodeLog'[n][j])
                    /\ node'[n].uid \in KnownUids(n)' => Uninterrupted(n)'
  BY DEF InOrder
<1>1. /\ TypeOK /\ churn \in Nat
      /\ \A k \in 1 .. Len(nodeLog[n]) : nodeLog[n][k].uid <= churn
      /\ \A u \in KnownUids(n) : u \in Nat /\ u <= churn
      /\ nodeCache[n].uid \in KnownUids(n)
      /\ Len(nodeLog[n]) \in Nat
  BY DEF Inductive, TypeOK, UidsGiven, KnownUids
<1>2. KnownUids(n)' \subseteq KnownUids(n) \cup {nodeCache'[n].uid}
  BY KnownStep
<1>3. ASSUME node'[n] = node[n], nodeLog'[n] = nodeLog[n], nodeCache'[n] = nodeCache[n]
      PROVE  InOrder(n)'
  BY <1>1, <1>2, <1>3 DEF InOrder, Uninterrupted
<1>4. ASSUME NEW m \in Nodes, NodeChanged(m) PROVE InOrder(n)'
  <2>1. PICK new \in NodeRec :
           /\ ChangeNode(m, new)
           /\ Alive(new) => new.uid = churn + 1 \/ (Alive(node[m]) /\ new.uid = node[m].uid)
    BY <1>4 DEF NodeChanged
  <2>2. CASE m # n
    BY <1>1, <1>3, <2>1, <2>2, ChangedViews
  <2>3. CASE m = n
    <3>1. /\ node'[n] = new /\ nodeCache' = nodeCache
          /\ Len(nodeLog'[n]) = Len(nodeLog[n]) + 1
          /\ \A k \in 1 .. Len(nodeLog[n]) : nodeLog'[n][k] = nodeLog[n][k]
          /\ nodeLog'[n][Len(nodeLog[n]) + 1] = new
      BY <1>1, <2>1, <2>3, ChangedViews
    <3>2. KnownUids(n)' \subseteq KnownUids(n)
      BY <1>1, <1>2, <3>1
    <3>3. CASE new.uid = churn + 1
      <4>1. node'[n].uid \notin KnownUids(n)'
        BY <1>1, <3>1, <3>2, <3>3
      <4>2. \A k \in 1 .. Len(nodeLog'[n]) :
               nodeLog'[n][k].uid = node'[n].uid => k = Len(nodeLog'[n])
        BY <1>1, <3>1, <3>3
      <4> QED BY <1>1, <3>1, <4>1, <4>2 DEF InOrder
    <3>4. CASE Alive(node[n]) /\ new.uid = node[n].uid
      <4>1. \A j \in 1 .. Len(nodeLog'[n]) :
               Alive(nodeLog'[n][j]) \/ (j \in 1 .. Len(nodeLog[n]) /\ ~Alive(nodeLog[n][j]))
        BY <1>1, <3>1
      <4>2. \A k \in 1 .. Len(nodeLog'[n]) : nodeLog'[n][k].uid = node'[n].uid =>
                \A j \in k .. Len(nodeLog'[n]) : Alive(nodeLog'[n][j])
        BY <1>1, <3>1, <3>4, <4>1 DEF InOrder
      <4>3. node'[n].uid \in KnownUids(n)' => Uninterrupted(n)'
        BY <1>1, <3>1, <3>2, <3>4, <4>1 DEF InOrder, Uninterrupted
      <4> QED BY <4>2, <4>3 DEF InOrder
    <3> QED BY <2>1, <2>3, <3>1, <3>3, <3>4
  <2> QED BY <2>2, <2>3
<1>5. ASSUME NEW m \in Nodes, NodeEvent(m) PROVE InOrder(n)'
  <2>1. CASE m # n
    BY <1>1, <1>3, <1>5, <2>1, DeliveredViews
  <2>2. CASE m = n
    <3>1. /\ node' = node
          /\ Len(nodeLog[n]) \in Nat \ {0} /\ Len(nodeLog'[n]) = Len(nodeLog[n]) - 1
          /\ nodeCache'[n] = nodeLog[n][1]
          /\ \A k \in 1 .. Len(nodeLog'[n]) : nodeLog'[n][k] = nodeLog[n][k + 1]
      BY <1>1, <1>5, <2>2, DeliveredViews
    <3>2. ASSUME NEW k \in 1 .. Len(nodeLog'[n]), nodeLog'[n][k].uid = node'[n].uid,
                 NEW j \in k .. Len(nodeLog'[n])
          PROVE  Alive(nodeLog'[n][j])
      <4>1. /\ k + 1 \in 1 .. Len(nodeLog[n]) /\ j + 1 \in (k + 1) .. Len(nodeLog[n])
            /\ j \in 1 .. Len(nodeLog'[n])
        BY <3>1
      <4>2. nodeLog[n][k + 1].uid = node[n].uid /\ Alive(node[n])
        BY <3>1, <3>2
      <4> QED BY <3>1, <4>1, <4>2 DEF InOrder
    <3>3. ASSUME node[n].uid \in KnownUids(n)' PROVE Uninterrupted(n)'
      <4>1. \A j \in 1 .. Len(nodeLog[n]) : Alive(nodeLog[n][j])
        BY <1>2, <3>1, <3>3 DEF InOrder, Uninterrupted
      <4> QED BY <3>1, <4>1 DEF Uninterrupted
    <3> QED BY <3>1, <3>2, <3>3 DEF InOrder
  <2> QED BY <2>1, <2>2
<1>6. ASSUME Restart PROVE InOrder(n)'
  BY <1>1, <1>6 DEF Restart, InOrder, Uninterrupted
<1>7. InOrder(n)'
  <2>1. CASE UNCHANGED <<node, nodeLog, nodeCache, churn>>
    BY <1>3, <2>1
  <2> QED BY <1>4, <1>5, <1>6, <2>1, NodeViews
<1> QED BY <1>7 DEF InOrder

\* The removal the Node reconciler starts, or has in hand, is of an orphan.
LEMMA OrphanStep ==
  ASSUME Inductive, History, Next, nw'.pc \in Removing
  PROVE  Orphan(nw.n)'
<1>1. TypeOK /\ ObjectStep /\ nw \in NodeWork /\ nw.n \in Nodes /\ churn \in Nat
  BY StepObjects, ProvisioningTypes DEF Inductive, TypeOK
<1>2. ASSUME NEW n \in Nodes, Orphan(n), nw.pc # "createCR"
      PROVE  cr'[n] # NoCR => ~(Alive(node'[n]) /\ node'[n].uid = cr'[n].uid)
  <2> SUFFICES ASSUME cr'[n] # NoCR, Alive(node'[n]), node'[n].uid = cr'[n].uid
               PROVE  FALSE
    OBVIOUS
  <2>1. cr[n] # NoCR /\ cr'[n].uid = cr[n].uid
    <3>1. CASE Kept(n)
      BY <3>1 DEF Kept
    <3>2. CASE Marked(n) \/ Updated(n)
      BY <1>1, <3>2 DEF Marked, Updated, TypeOK, CRRec
    <3> QED BY <1>1, <1>2, <3>1, <3>2 DEF ObjectStep, Removed, Created
  <2>2. cr[n].uid \in Nat /\ cr[n].uid <= churn
    BY <2>1 DEF History, UidsGiven, KnownUids
  <2>3. CASE node'[n] = node[n]
    BY <1>2, <2>1, <2>3 DEF Orphan
  <2>4. ASSUME NEW m \in Nodes, NodeChanged(m) PROVE FALSE
    BY <1>1, <1>2, <2>1, <2>2, <2>3, <2>4, ChangedViews DEF NodeChanged, Orphan
  <2>5. CASE \E m \in Nodes : NodeEvent(m)
    BY <1>1, <2>3, <2>5, DeliveredViews
  <2> QED BY <2>3, <2>4, <2>5, NodeViews DEF History, Restart
<1>3. nw' = nw \/ NodeStep \/ Restart \/ \E m \in Nodes : NodeStart(m)
  BY DEF Next, NodeChange, Timeout, Collect, Delete, DeleteEnds, AttachEnds, AttachBreaks,
         DeleteEni, NodeEvent, DeliverNode, NodeRequeue, NodeTimer, DeviceEvent, DeviceResync,
         DeviceRequeue, DeviceStart, DeviceStep
<1>4. CASE nw.pc \in Removing /\ nw'.n = nw.n
  <2>1. Orphan(nw.n) /\ nw.pc # "createCR"
    BY <1>4 DEF History, Removing
  <2> QED BY <1>1, <1>2, <1>4, <2>1 DEF Orphan
<1>5. CASE nw' = nw
  BY <1>4, <1>5
<1>6. CASE NodeStep
  <2>1. nw.pc \in Removing /\ nw'.n = nw.n
    BY <1>1, <1>6, IdlePCs
       DEF NodeStep, NodeWorker, NodeList, NodeBackfill, NodeSelect, NodeLookup, NodeCreateEni,
           NodeTag, NodeJumbo, NodeCreateCR, NodePoll, NodeRmList, NodeRmPatch, NodeRmDelete, NodeDone,
           NodeRetry, NodeWork, NodeIdle, Removing, AfterCreate
  <2> QED BY <1>4, <2>1
<1>7. CASE Restart
  BY <1>7, IdlePCs DEF Restart, Removing
<1>8. ASSUME NEW m \in Nodes, NodeStart(m), nw' # nw PROVE Orphan(nw.n)'
  <2>1. nw'.n = m /\ ~Alive(nodeCache[m]) /\ nw.pc = "idle"
    BY <1>8 DEF NodeStart, NodeGet, NodeIdle, Removing, Alive
  <2>2. Orphan(m)
    <3>1. cr[m] # NoCR => cr[m].uid \in KnownUids(m)
      BY DEF KnownUids
    <3> QED BY <2>1, <3>1 DEF History, InOrder, Uninterrupted, Orphan
  <2> QED BY <1>2, <2>1, <2>2 DEF Orphan
<1> QED BY <1>3, <1>5, <1>6, <1>7, <1>8

LEMMA AlwaysHistory == Spec => []History
<1>1. Init => History
  <2> SUFFICES ASSUME Init PROVE History
    OBVIOUS
  <2>1. /\ churn = 0 /\ nw.pc = "idle"
        /\ \A n \in Nodes : /\ node[n] = AbsentNode /\ nodeCache[n] = AbsentNode
                             /\ nodeLog[n] = <<>> /\ cr[n] = NoCR
    BY IdlePCs DEF Init, ClusterInit, NodeControllerInit
  <2>2. \A n \in Nodes : KnownUids(n) = {0}
    BY <2>1 DEF KnownUids, Providing, AbsentNode
  <2> QED BY <2>1, <2>2 DEF History, UidsGiven, InOrder, Alive, AbsentNode, Removing
<1>2. Inductive /\ Inductive' /\ History /\ [Next]_vars => History'
  <2>1. CASE UNCHANGED vars
    BY <2>1 DEF vars, History, UidsGiven, KnownUids, InOrder, Uninterrupted, Orphan
  <2>2. ASSUME Inductive, TypeOK', History, Next PROVE History'
    <3>1. UidsGiven'
      BY <2>2, UidsStep DEF History
    <3>2. \A n \in Nodes : InOrder(n)'
      BY <2>2, InOrderStep DEF History
    <3> QED BY <2>2, <3>1, <3>2, OrphanStep DEF History
  <2> QED BY <2>1, <2>2 DEF Inductive
<1> QED BY <1>1, <1>2, AlwaysInductive, PTL DEF Spec

\* Although RemoveERdmaDevices deletes by name, long after the Node event that
\* caused it and without a precondition, a Node that lives never loses the
\* ERdmaDevice that is its own.
THEOREM DeletionJustified == Spec => DeletesOnlyOrphans
<1> DEFINE Justified ==
      \A n \in Nodes :
        (nw.pc = "rmDelete" /\ nw # nw' /\ cr[n] # NoCR /\ cr'[n] = NoCR)
            => OwnerGone(n) \/ node[n].phase = "deleting"
<1>1. Inductive /\ History /\ [Next]_vars => [Justified]_vars
  <2> SUFFICES ASSUME Inductive, History, Next,
                      NEW n \in Nodes, nw.pc = "rmDelete", nw # nw', cr[n] # NoCR, cr'[n] = NoCR
               PROVE  OwnerGone(n) \/ node[n].phase = "deleting"
    OBVIOUS
  <2>1. NodeStep \/ Restart
    BY DEF Next, NodeChange, Timeout, Collect, Delete, DeleteEnds, AttachEnds, AttachBreaks,
           DeleteEni, NodeEvent, DeliverNode, NodeRequeue, NodeTimer, NodeStart, NodeGet,
           DeviceEvent, DeviceResync, DeviceRequeue, DeviceStart, DeviceStep
  <2>2. NodeRmDelete
    BY <2>1 DEF Restart, NodeStep, NodeWorker, NodeList, NodeBackfill, NodeSelect, NodeLookup,
           NodeCreateEni, NodeTag, NodeJumbo, NodeCreateCR, NodePoll, NodeRmList, NodeRmPatch
  <2>3. n = nw.n
    BY <2>2, ProvisioningTypes DEF NodeRmDelete, RemoveDelete, Inductive, TypeOK
  <2>4. Orphan(n) /\ node[n].phase \in Phases
    BY <2>3 DEF History, Removing, Inductive, TypeOK, NodeRec
  <2> QED BY <2>4 DEF Orphan, OwnerGone, Alive, Phases
<1>2. DeletesOnlyOrphans <=> [][Justified]_vars
  BY DEF DeletesOnlyOrphans
<1> HIDE DEF Justified
<1> QED BY <1>1, <1>2, AlwaysInductive, AlwaysHistory, PTL DEF Spec

-----------------------------------------------------------------------------
(* LifecycleRefined: the devices of an ERdmaDevice *)

\* What SelectERIs has put together so far: devices on different cards, and the
\* cards that still need one.
PlannedCards ==
    nw.pc \in {"lookup", "create", "tag", "jumbo", "createCR"} =>
        /\ nw.eris # {} /\ OnePerCard(nw.eris)
        /\ \A d \in nw.eris : d.card \notin nw.need

\* The instance shows one primary ENI, on card 0.
LEMMA OnePrimary ==
  ASSUME Inductive, NEW i \in Instances
  PROVE  LET p == Describe(PrimaryENI[i]) IN
           /\ p \in DescribeByInstance(i) /\ p.primary /\ eniCardIndex(p) = 0
           /\ \A e \in DescribeByInstance(i) : e.primary => e = p
<1>1. \A j \in Instances : /\ PrimaryENI[j] \in ENIs /\ eni[PrimaryENI[j]].st = "InUse"
                           /\ eni[PrimaryENI[j]].inst = j /\ eni[PrimaryENI[j]].card = 0
  BY EniAssumption DEF Inductive, PrimaryHeld
<1>2. /\ Describe(PrimaryENI[i]) \in DescribeByInstance(i)
      /\ Describe(PrimaryENI[i]).primary /\ eniCardIndex(Describe(PrimaryENI[i])) = 0
  BY <1>1 DEF DescribeByInstance, Describe, eniCardIndex
<1>3. ASSUME NEW x \in ENIs, eni[x].inst = i, Describe(x).primary PROVE x = PrimaryENI[i]
  BY <1>1, <1>3 DEF Describe
<1> QED BY <1>2, <1>3 DEF DescribeByInstance

LEMMA PlannedStep == ASSUME Inductive, PlannedCards, Next PROVE PlannedCards'
<1>1. nw \in NodeWork /\ nw.need \subseteq Nat
  BY ProvisioningTypes DEF NodeWork
<1>2. CASE nw' = nw
  BY <1>2 DEF PlannedCards, OnePerCard
<1>3. CASE nw'.pc \notin {"lookup", "create", "tag", "jumbo", "createCR"}
  BY <1>3 DEF PlannedCards
<1>4. CASE NodeSelect
  <2> DEFINE i == nw.inst
             type == InstanceType[i]
             exist == DescribeByInstance(i)
  <2>1. i \in Instances
    BY <1>4, ProvisioningTypes DEF NodeSelect
  <2>2. CASE nw' = NodeIdle
    BY <1>3, <2>2, IdlePCs
  <2>3. ASSUME SupportsErdma(type),
               NEW r \in SelectEriFromExist(exist, QueuePairCount(type), CardCount(type),
                                            ManagedNonOwned), r.ok,
               nw' = [nw EXCEPT !.pc = "lookup", !.eris = r.eris, !.need = r.need, !.qp = r.qp]
        PROVE  PlannedCards'
    <3>1. CardCount(type) \in Nat \ {0} /\ QueuePairCount(type) \in Nat
      BY <2>1, <2>3, CardCountType, InstanceAssumption
    <3>2. r.eris # {} /\ OnePerCard(r.eris) /\ \A d \in r.eris : d.card \notin r.need
      <4>1. PICK p \in exist : /\ p.primary /\ eniCardIndex(p) = 0
                               /\ \A e \in exist : e.primary => e = p
        BY <2>1, OnePrimary
      <4>2. Counted(exist)
        BY DescribedCounted DEF Inductive
      <4> HIDE DEF exist, type
      <4> QED BY <2>3, <3>1, <4>1, <4>2, SelectCards
    <3>3. nw'.eris = r.eris /\ nw'.need = r.need
      BY <1>1, <2>3 DEF NodeWork
    <3> QED BY <3>2, <3>3 DEF PlannedCards, OnePerCard
  <2> QED BY <1>4, <2>2, <2>3 DEF NodeSelect, NodeRetry, NodeDone
<1>5. CASE NodeLookup
  <2> DEFINE tag == DescribeByTag(nw.inst)
             need == nw.need \ ReusedCards(tag, nw.need)
  <2>1. CASE nw' = NodeIdle
    BY <1>3, <2>1, IdlePCs
  <2>2. ASSUME NEW reused \in ReuseTagged(tag, nw.need, nw.qp, nw.inst),
               nw' = [nw EXCEPT !.pc = AfterCreate(need), !.need = need, !.eris = @ \cup reused]
        PROVE  PlannedCards'
    <3>1. OnePerCard(reused) /\ \A d \in reused : d.card \in ReusedCards(tag, nw.need)
      BY <2>2, ReuseCards
    <3>2. ReusedCards(tag, nw.need) \subseteq nw.need
      BY DEF ReusedCards, Lowest
    <3>3. nw'.eris = nw.eris \cup reused /\ nw'.need = nw.need \ ReusedCards(tag, nw.need)
      BY <1>1, <2>2 DEF NodeWork
    <3>4. nw.eris # {} /\ OnePerCard(nw.eris) /\ \A d \in nw.eris : d.card \notin nw.need
      BY <1>5 DEF PlannedCards, NodeLookup
    <3> HIDE DEF tag
    <3> QED BY <3>1, <3>2, <3>3, <3>4 DEF PlannedCards, OnePerCard
  <2> QED BY <1>5, <2>1, <2>2 DEF NodeLookup, NodeRetry
<1>6. CASE NodeCreateEni
  <2>1. CASE nw' = NodeIdle
    BY <1>3, <2>1, IdlePCs
  <2>2. ASSUME NEW e \in ENIs,
               LET need == nw.need \ {Min(nw.need)}
               IN  nw' = [nw EXCEPT !.pc = AfterCreate(need), !.need = need,
                                    !.eris = @ \cup {CreatedEri(e, Min(nw.need), nw.inst)}]
        PROVE  PlannedCards'
    <3>1. nw'.eris = nw.eris \cup {CreatedEri(e, Min(nw.need), nw.inst)}
          /\ nw'.need = nw.need \ {Min(nw.need)}
      BY <1>1, <2>2 DEF NodeWork
    <3>2. CreatedEri(e, Min(nw.need), nw.inst).card = Min(nw.need) /\ Min(nw.need) \in nw.need
      BY <1>1, <1>6, MinIsLeast DEF CreatedEri, NodeCreateEni, Inductive, Provisioning
    <3>3. nw.eris # {} /\ OnePerCard(nw.eris) /\ \A d \in nw.eris : d.card \notin nw.need
      BY <1>6 DEF PlannedCards, NodeCreateEni
    <3> QED BY <3>1, <3>2, <3>3 DEF PlannedCards, OnePerCard
  <2> QED BY <1>6, <2>1, <2>2 DEF NodeCreateEni, NodeRetry
<1>7. CASE NodeTag \/ NodeJumbo
  <2>1. nw'.eris = nw.eris /\ nw'.need = nw.need /\ nw.pc \in {"tag", "jumbo"}
    BY <1>1, <1>7 DEF NodeTag, NodeJumbo, NodeWork
  <2> QED BY <2>1 DEF PlannedCards, OnePerCard
<1>8. CASE NodeStep
  BY <1>1, <1>3, <1>4, <1>5, <1>6, <1>7, <1>8, IdlePCs
     DEF NodeStep, NodeWorker, NodeList, NodeBackfill, NodeCreateCR, NodePoll, NodeRmList,
         NodeRmPatch, NodeRmDelete, NodeDone, NodeRetry, NodeWork, NodeIdle
<1>9. ASSUME NEW n \in Nodes, NodeStart(n) PROVE PlannedCards'
  BY <1>2, <1>3, <1>9 DEF NodeStart, NodeGet, NodeIdle
<1>10. CASE Restart
  BY <1>3, <1>10, IdlePCs DEF Restart
<1>11. nw' = nw \/ NodeStep \/ Restart \/ \E n \in Nodes : NodeStart(n)
  BY DEF Next, NodeChange, Timeout, Collect, Delete, DeleteEnds, AttachEnds, AttachBreaks,
         DeleteEni, NodeEvent, DeliverNode, NodeRequeue, NodeTimer, DeviceEvent, DeviceResync,
         DeviceRequeue, DeviceStart, DeviceStep
<1> QED BY <1>2, <1>8, <1>9, <1>10, <1>11

LEMMA AlwaysPlanned == Spec => []PlannedCards
<1>1. Init => PlannedCards
  BY IdlePCs DEF Init, NodeControllerInit, PlannedCards
<1>2. Inductive /\ PlannedCards /\ [Next]_vars => PlannedCards'
  <2>1. CASE UNCHANGED vars
    BY <2>1 DEF vars, PlannedCards, OnePerCard
  <2> QED BY <2>1, PlannedStep
<1> QED BY <1>1, <1>2, AlwaysInductive, PTL DEF Spec

-----------------------------------------------------------------------------
(* LifecycleRefined: the steps *)

\* What its readers see of the ERdmaDevice of n.
Shown(obj) == IF obj = NoCR THEN NoCR ELSE PublicView(obj)

ShownAll == [n \in Nodes |-> Shown(cr[n])]

LEMMA PublicIsObject ==
  ASSUME NEW obj \in CRRec
  PROVE  obj # NoCR /\ PublicView(obj) \in PublicRec /\ Shown(obj) = PublicView(obj)
         /\ Shown(obj) # NoCR
<1>1. {s.dev : s \in {x \in obj.status : x.st = "Ready"}} \subseteq DeviceRec
  BY DEF CRRec, StatusRec
<1>2. PublicView(obj) \in PublicRec
  BY <1>1 DEF PublicView, PublicRec, CRRec
<1> QED BY <1>2, NoObjectAssumption DEF Shown

\* A change of one object is a change of what is shown of it, and of no other.
LEMMA OthersShown ==
  ASSUME NEW n \in Nodes, \A m \in Nodes \ {n} : Kept(m)
  PROVE  \A m \in Nodes \ {n} : ShownAll'[m] = ShownAll[m]
  BY DEF Kept, ShownAll

\* Create with what SelectERIs found: a new object.
LEMMA CreatePublishes ==
  ASSUME Inductive, TypeOK', PlannedCards, NEW n \in Nodes, Created(n)
  PROVE  /\ Shown(cr[n]) = NoCR /\ Shown(cr'[n]) # NoCR
         /\ Shown(cr'[n]).devices # {} /\ Lifecycle!DistinctCards(Shown(cr'[n]).devices)
         /\ Shown(cr'[n]).ready = {} /\ ~Shown(cr'[n]).deleting
<1>1. cr'[n] = NewCR /\ cr[n] = NoCR
  BY DEF Created
<1>2. NewCR \in CRRec
  <2>1. /\ nw \in NodeWork /\ nw.inst \in Instances /\ rev[nw.n] \in Nat
    BY ProvisioningTypes DEF Created, Inductive, TypeOK
  <2> QED BY <2>1 DEF NewCR, CRRec, NodeWork
<1>3. Shown(NewCR) = PublicView(NewCR) /\ Shown(NewCR) # NoCR
  BY <1>2, PublicIsObject
<1>4. /\ PublicView(NewCR).devices = nw.eris /\ PublicView(NewCR).ready = {}
      /\ PublicView(NewCR).deleting = FALSE
  BY DEF PublicView, NewCR
<1>5. nw.eris # {} /\ Lifecycle!DistinctCards(nw.eris)
  BY DEF Created, PlannedCards, OnePerCard, Lifecycle!DistinctCards
<1> QED BY <1>1, <1>3, <1>4, <1>5 DEF Shown

\* A foreground deletion begins: nothing else changes for the readers.
LEMMA MarkShown ==
  ASSUME Inductive, NEW n \in Nodes, Marked(n)
  PROVE  /\ Shown(cr[n]) # NoCR /\ ~Shown(cr[n]).deleting
         /\ Shown(cr'[n]) = [Shown(cr[n]) EXCEPT !.deleting = TRUE]
<1>1. cr[n] \in CRRec /\ rev[n] \in Nat
  BY DEF Marked, Inductive, TypeOK
<1>2. cr'[n] = [cr[n] EXCEPT !.deleting = TRUE, !.rv = rev[n] + 1] /\ cr'[n] \in CRRec
  <2>1. rev[n] + 1 \in Nat
    BY <1>1
  <2> QED BY <1>1, <2>1, CRTypes DEF Marked
<1> DEFINE R(status) == {s.dev : s \in {x \in status : x.st = "Ready"}}
<1>3. PublicView(cr'[n]) = [PublicView(cr[n]) EXCEPT !.deleting = TRUE]
  <2>1. /\ PublicView(cr[n]) = [owner |-> cr[n].uid, inst |-> cr[n].inst, jumbo |-> cr[n].jumbo,
                                devices |-> cr[n].spec, ready |-> R(cr[n].status),
                                deleting |-> cr[n].deleting]
        /\ PublicView(cr'[n]) = [owner |-> cr'[n].uid, inst |-> cr'[n].inst,
                                 jumbo |-> cr'[n].jumbo, devices |-> cr'[n].spec,
                                 ready |-> R(cr'[n].status), deleting |-> cr'[n].deleting]
    BY DEF PublicView
  <2>2. /\ cr'[n].uid = cr[n].uid /\ cr'[n].inst = cr[n].inst /\ cr'[n].jumbo = cr[n].jumbo
        /\ cr'[n].spec = cr[n].spec /\ cr'[n].status = cr[n].status /\ cr'[n].deleting = TRUE
    BY <1>1, <1>2 DEF CRRec
  <2> HIDE DEF R
  <2>3. [PublicView(cr[n]) EXCEPT !.deleting = TRUE] =
          [owner |-> cr[n].uid, inst |-> cr[n].inst, jumbo |-> cr[n].jumbo,
           devices |-> cr[n].spec, ready |-> R(cr[n].status), deleting |-> TRUE]
    <3>1. [[owner |-> cr[n].uid, inst |-> cr[n].inst, jumbo |-> cr[n].jumbo,
            devices |-> cr[n].spec, ready |-> R(cr[n].status), deleting |-> cr[n].deleting]
              EXCEPT !.deleting = TRUE] =
            [owner |-> cr[n].uid, inst |-> cr[n].inst, jumbo |-> cr[n].jumbo,
             devices |-> cr[n].spec, ready |-> R(cr[n].status), deleting |-> TRUE]
      <4> HIDE <1>1, <1>2, <2>1, <2>2
      <4> DEFINE a == cr[n].uid  b == cr[n].inst  c == cr[n].jumbo  d == cr[n].spec
                 e == R(cr[n].status)  f == cr[n].deleting  t == TRUE
      <4> HIDE DEF a, b, c, d, e, f, t
      <4>1. [[owner |-> a, inst |-> b, jumbo |-> c, devices |-> d, ready |-> e, deleting |-> f]
                EXCEPT !.deleting = t] =
            [owner |-> a, inst |-> b, jumbo |-> c, devices |-> d, ready |-> e, deleting |-> t]
        OBVIOUS
      <4> QED BY <4>1, Zenon DEF a, b, c, d, e, f, t
    <3> QED BY <2>1, <3>1
  <2>4. PublicView(cr'[n]) =
          [owner |-> cr[n].uid, inst |-> cr[n].inst, jumbo |-> cr[n].jumbo,
           devices |-> cr[n].spec, ready |-> R(cr[n].status), deleting |-> TRUE]
    BY <2>1, <2>2, Zenon
  <2> QED BY <2>3, <2>4
<1>4. PublicView(cr[n]).deleting = cr[n].deleting
  BY DEF PublicView
<1> QED BY <1>1, <1>2, <1>3, <1>4, PublicIsObject DEF Marked

\* Status().Update: the set of ready devices grows, and nothing else changes.
LEMMA UpdateShown ==
  ASSUME Inductive, Versions, Reports, NEW n \in Nodes, Updated(n)
  PROVE  /\ Shown(cr[n]) # NoCR /\ ~Shown(cr[n]).deleting /\ Shown(cr'[n]) # NoCR
         /\ Shown(cr[n]).ready \subseteq Shown(cr'[n]).ready
         /\ Shown(cr'[n]).ready \subseteq Shown(cr[n]).devices
         /\ Shown(cr'[n]) = [Shown(cr[n]) EXCEPT !.ready = Shown(cr'[n]).ready]
<1>1. cr[n] \in CRRec /\ rev[n] \in Nat /\ dw.out \subseteq StatusRec
  BY DeviceWorkTypes DEF Updated, Inductive, TypeOK, DeviceWork
<1>2. cr'[n] = [cr[n] EXCEPT !.status = dw.out, !.rv = rev[n] + 1] /\ cr'[n] \in CRRec
  <2>1. rev[n] + 1 \in Nat /\ dw.out \in SUBSET StatusRec
    BY <1>1
  <2>2. [cr[n] EXCEPT !.status = dw.out, !.rv = rev[n] + 1] \in CRRec
    BY <1>1, <2>1, CRTypes
  <2> QED BY <2>2 DEF Updated
<1>3. cr[n] = dw.snap
  BY DEF Updated, Versions, Working
<1>4. /\ ~cr[n].deleting
      /\ \A s \in dw.out : s.dev \in cr[n].spec
      /\ \A s \in cr[n].status : s.st = "Ready" => s \in dw.out
  BY <1>3 DEF Updated, Reports, Reporting, Working
<1> DEFINE R(status) == {s.dev : s \in {x \in status : x.st = "Ready"}}
<1>5. R(cr[n].status) \subseteq R(dw.out) /\ R(dw.out) \subseteq cr[n].spec
  BY <1>4
<1>6. /\ PublicView(cr[n]) = [owner |-> cr[n].uid, inst |-> cr[n].inst, jumbo |-> cr[n].jumbo,
                              devices |-> cr[n].spec, ready |-> R(cr[n].status),
                              deleting |-> cr[n].deleting]
      /\ PublicView(cr'[n]) = [owner |-> cr[n].uid, inst |-> cr[n].inst, jumbo |-> cr[n].jumbo,
                               devices |-> cr[n].spec, ready |-> R(dw.out),
                               deleting |-> cr[n].deleting]
  BY <1>1, <1>2 DEF PublicView, CRRec
<1>7. /\ Shown(cr[n]) = PublicView(cr[n]) /\ Shown(cr[n]) # NoCR
      /\ Shown(cr'[n]) = PublicView(cr'[n]) /\ Shown(cr'[n]) # NoCR
  BY <1>1, <1>2, PublicIsObject
<1> HIDE DEF R
<1> QED BY <1>4, <1>5, <1>6, <1>7

LEMMA LifecycleStep ==
  ASSUME Inductive, TypeOK', Versions, Reports, PlannedCards, Next
  PROVE  Lifecycle!Next \/ ShownAll' = ShownAll
<1>1. ObjectStep
  BY StepObjects
<1>2. \A n \in Nodes : ShownAll[n] = Shown(cr[n]) /\ ShownAll'[n] = Shown(cr'[n])
  BY DEF ShownAll, Shown
<1>3. CASE \A n \in Nodes : Kept(n)
  BY <1>3 DEF Kept, ShownAll, Shown
<1>4. ASSUME NEW n \in Nodes, \A m \in Nodes \ {n} : Kept(m), Removed(n)
      PROVE  Lifecycle!Next
  <2>1. ShownAll[n] # NoCR /\ ShownAll'[n] = NoCR
    BY <1>2, <1>4, PublicIsObject DEF Removed, Shown, Inductive, TypeOK
  <2>2. Lifecycle!Retire(n)
    BY <1>4, <2>1, OthersShown DEF Lifecycle!Retire, Lifecycle!Others, ShownAll, Shown
  <2> QED BY <2>2 DEF Lifecycle!Next
<1>5. ASSUME NEW n \in Nodes, \A m \in Nodes \ {n} : Kept(m), Created(n)
      PROVE  Lifecycle!Next
  <2>1. Lifecycle!Publish(n)
    BY <1>2, <1>5, OthersShown, CreatePublishes
       DEF Lifecycle!Publish, Lifecycle!Others, ShownAll, Shown
  <2> QED BY <2>1 DEF Lifecycle!Next
<1>6. ASSUME NEW n \in Nodes, \A m \in Nodes \ {n} : Kept(m), Marked(n)
      PROVE  Lifecycle!Next
  <2>1. Lifecycle!StartDelete(n)
    BY <1>2, <1>6, OthersShown, MarkShown
       DEF Lifecycle!StartDelete, Lifecycle!Others, ShownAll, Shown
  <2> QED BY <2>1 DEF Lifecycle!Next
<1>7. ASSUME NEW n \in Nodes, \A m \in Nodes \ {n} : Kept(m), Updated(n)
      PROVE  Lifecycle!Next
  <2>1. Lifecycle!Progress(n)
    BY <1>2, <1>7, OthersShown, UpdateShown
       DEF Lifecycle!Progress, Lifecycle!Others, ShownAll, Shown
  <2> QED BY <2>1 DEF Lifecycle!Next
<1> QED BY <1>1, <1>3, <1>4, <1>5, <1>6, <1>7 DEF ObjectStep

\* The two reconcilers implement DeviceLifecycle: whatever the interleaving, the
\* failures and the restarts, every change of an ERdmaDevice is one its readers
\* have been promised.
THEOREM LifecycleKept == Spec => LifecycleRefined
<1>1. Init => Lifecycle!Init
  BY DEF Init, ClusterInit, Lifecycle!Init
<1>2. Inductive /\ Inductive' /\ Versions /\ Reports /\ PlannedCards /\ [Next]_vars
        => [Lifecycle!Next]_ShownAll
  <2>1. ASSUME UNCHANGED vars PROVE ShownAll' = ShownAll
    BY <2>1 DEF vars, ShownAll, Shown, PublicView
  <2> QED BY <2>1, LifecycleStep DEF Inductive
<1>3. LifecycleRefined <=> Lifecycle!Init /\ [][Lifecycle!Next]_ShownAll
  BY DEF LifecycleRefined, Lifecycle!Spec, ShownAll, Shown
<1> QED BY <1>1, <1>2, <1>3, AlwaysInductive, AlwaysVersions, AlwaysReports, AlwaysPlanned, PTL DEF Spec

-----------------------------------------------------------------------------
(* LetGoOnlyWithDevice: what the predicates may drop, and what a stale Node *)
(* that the worker has read may cost                                        *)

\* The versions of Node n that are on their way to the cache: each follows the
\* one before it, from the cached one to the present one.
InSequence(n) ==
    LET len == Len(nodeLog[n]) IN
    /\ IF len = 0 THEN nodeCache[n] = node[n]
       ELSE Follows(nodeCache[n], nodeLog[n][1]) /\ nodeLog[n][len] = node[n]
    /\ \A k \in 1 .. len : k + 1 \in 1 .. len => Follows(nodeLog[n][k], nodeLog[n][k + 1])

\* The worker provides for the instance the cache shows, unless the Node is not
\* to be provisioned any more or the worker is going to look at it again.
Current ==
    nw.pc \in Providing =>
        \/ nw.n \in nq \/ ~ToProvision(nodeCache[nw.n])
        \/ nw.inst = nodeCache[nw.n].inst

Sequenced == (\A n \in Nodes : InSequence(n)) /\ Current

LEMMA SequenceStep ==
  ASSUME Inductive, UidsGiven, Next, NEW n \in Nodes, InSequence(n)
  PROVE  InSequence(n)'
<1>1. TypeOK /\ Len(nodeLog[n]) \in Nat
  BY DEF Inductive, TypeOK
<1>2. ASSUME node'[n] = node[n], nodeLog'[n] = nodeLog[n], nodeCache'[n] = nodeCache[n]
      PROVE  InSequence(n)'
  BY <1>2 DEF InSequence
<1>3. ASSUME NEW m \in Nodes, NodeChanged(m) PROVE InSequence(n)'
  <2>1. PICK new \in NodeRec : ChangeNode(m, new) /\ Follows(node[m], new)
    BY <1>3 DEF NodeChanged
  <2>2. CASE m # n
    BY <1>1, <1>2, <2>1, <2>2, ChangedViews
  <2>3. CASE m = n
    <3>1. /\ node'[n] = new /\ nodeCache' = nodeCache
          /\ Len(nodeLog'[n]) = Len(nodeLog[n]) + 1
          /\ \A k \in 1 .. Len(nodeLog[n]) : nodeLog'[n][k] = nodeLog[n][k]
          /\ nodeLog'[n][Len(nodeLog[n]) + 1] = new
      BY <1>1, <2>1, <2>3, ChangedViews
    <3>2. Follows(node[n], new)
      BY <2>1, <2>3
    <3>3. CASE Len(nodeLog[n]) = 0
      BY <3>1, <3>2, <3>3 DEF InSequence
    <3>4. CASE Len(nodeLog[n]) # 0
      <4>1. /\ Follows(nodeCache'[n], nodeLog'[n][1])
            /\ nodeLog'[n][Len(nodeLog'[n])] = node'[n]
        BY <1>1, <3>1, <3>4 DEF InSequence
      <4>2. ASSUME NEW k \in 1 .. Len(nodeLog'[n]), k + 1 \in 1 .. Len(nodeLog'[n])
            PROVE  Follows(nodeLog'[n][k], nodeLog'[n][k + 1])
        <5>1. CASE k + 1 \in 1 .. Len(nodeLog[n])
          BY <1>1, <3>1, <4>2, <5>1 DEF InSequence
        <5>2. CASE k = Len(nodeLog[n])
          <6>1. nodeLog'[n][k] = node[n] /\ nodeLog'[n][k + 1] = new
            BY <1>1, <3>1, <3>4, <5>2 DEF InSequence
          <6> QED BY <3>2, <6>1
        <5> QED BY <1>1, <3>1, <4>2, <5>1, <5>2
      <4> QED BY <1>1, <3>1, <4>1, <4>2 DEF InSequence
    <3> QED BY <3>3, <3>4
  <2> QED BY <2>2, <2>3
<1>4. ASSUME NEW m \in Nodes, NodeEvent(m) PROVE InSequence(n)'
  <2>1. CASE m # n
    BY <1>1, <1>2, <1>4, <2>1, DeliveredViews
  <2>2. CASE m = n
    <3>1. /\ node' = node
          /\ Len(nodeLog[n]) \in Nat \ {0} /\ Len(nodeLog'[n]) = Len(nodeLog[n]) - 1
          /\ nodeCache'[n] = nodeLog[n][1]
          /\ \A k \in 1 .. Len(nodeLog'[n]) : nodeLog'[n][k] = nodeLog[n][k + 1]
      BY <1>1, <1>4, <2>2, DeliveredViews
    <3>2. ASSUME NEW k \in 1 .. Len(nodeLog'[n]), k + 1 \in 1 .. Len(nodeLog'[n])
          PROVE  Follows(nodeLog'[n][k], nodeLog'[n][k + 1])
      <4>1. k + 1 \in 1 .. Len(nodeLog[n]) /\ (k + 1) + 1 \in 1 .. Len(nodeLog[n])
        BY <3>1, <3>2
      <4>2. Follows(nodeLog[n][k + 1], nodeLog[n][(k + 1) + 1])
        BY <4>1 DEF InSequence
      <4> QED BY <3>1, <3>2, <4>2
    <3> DEFINE l == Len(nodeLog[n])
               r == Len(nodeLog'[n])
    <3>3. l \in Nat /\ l # 0 /\ r = l - 1
      BY <3>1
    <3> HIDE DEF l, r
    <3>4. CASE Len(nodeLog'[n]) = 0
      <4>1. l = 1 /\ ~(l = 0)
        BY <3>3, <3>4 DEF r
      <4>2. nodeCache'[n] = node'[n]
        BY <3>1, <4>1 DEF InSequence, l
      <4> QED BY <3>2, <3>4, <4>2 DEF InSequence
    <3>5. CASE Len(nodeLog'[n]) # 0
      <4>1. 1 \in 1 .. l /\ 1 + 1 \in 1 .. l /\ 1 \in 1 .. r /\ r \in 1 .. r
        BY <3>3, <3>5 DEF r
      <4>2. Follows(nodeLog[n][1], nodeLog[n][1 + 1]) /\ nodeLog[n][Len(nodeLog[n])] = node[n]
        BY <3>1, <4>1 DEF InSequence, l
      <4>3. Follows(nodeCache'[n], nodeLog'[n][1]) /\ nodeLog'[n][Len(nodeLog'[n])] = node'[n]
        BY <3>1, <4>1, <4>2 DEF r
      <4> QED BY <3>2, <3>5, <4>3 DEF InSequence
    <3> QED BY <3>4, <3>5
  <2> QED BY <2>1, <2>2
<1>5. ASSUME Restart PROVE InSequence(n)'
  BY <1>1, <1>5 DEF Restart, InSequence
<1>6. CASE UNCHANGED <<node, nodeLog, nodeCache, churn>>
  BY <1>2, <1>6
<1> QED BY <1>3, <1>4, <1>5, <1>6, NodeViews

\* The instance of a Node to provision is the one its reconcile finds.
LEMMA ProvisionedInstance ==
  ASSUME NEW v \in NodeRec, InstanceIDFromNode(v) # NoInst
  PROVE  InstanceIDFromNode(v) = v.inst /\ v.inst \in Instances
  BY DEF NodeRec, InstanceIDFromNode

\* What the predicates drop tells the reconciler nothing new: the Node was to be
\* provisioned before, for the same instance.
LEMMA DroppedIsOld ==
  ASSUME Inductive, NEW n \in Nodes, InSequence(n), NodeEvent(n),
         ToProvision(nodeCache'[n]), n \notin nq'
  PROVE  ToProvision(nodeCache[n]) /\ nodeCache'[n].inst = nodeCache[n].inst
<1> DEFINE old == nodeCache[n]
           new == nodeCache'[n]
<1>1. old \in NodeRec /\ Follows(old, new) /\ ~Admits(old, new)
  <2>1. TypeOK
    BY DEF Inductive
  <2>2. Len(nodeLog[n]) \in Nat \ {0} /\ new = nodeLog[n][1] /\ new = Head(nodeLog[n])
    BY <2>1, DeliveredViews DEF NodeEvent, DeliverNode, TypeOK
  <2>3. Follows(old, new)
    BY <2>2 DEF InSequence
  <2>4. ~Admits(old, new)
    BY <2>2 DEF NodeEvent, DeliverNode
  <2> QED BY <2>1, <2>3, <2>4 DEF TypeOK
<1>2. new.own /\ new.phase \in {"ready", "notready"}
  BY DEF ToProvision
<1> HIDE DEF old, new
<1>3. Exists(old) /\ Exists(new) /\ ~PredictNodeUpdate(old, new)
  BY <1>1, <1>2 DEF Admits, Exists
<1>4. /\ old.own /\ old.prov = new.prov /\ old.inst = new.inst
      /\ old.phase \in {"ready", "notready"}
  BY <1>1, <1>2, <1>3 DEF PredictNodeUpdate, Follows, Exists, NodeRec, Phases
<1>5. ToProvision(new)
  BY DEF new
<1> QED BY <1>4, <1>5 DEF ToProvision, InstanceIDFromNode, old, new

\* Only the Node reconciler's own steps take a Node off its queues.
LEMMA NodeQueueStep ==
  ASSUME Next
  PROVE  \/ /\ nw' = nw /\ nodeCache' = nodeCache /\ nq \subseteq nq'
            /\ nq \cup nDelay \subseteq nq' \cup nDelay'
         \/ NodeStep \/ Restart \/ \E m \in Nodes : NodeStart(m) \/ NodeEvent(m)
<1>1. CASE NodeChange
  BY <1>1 DEF NodeChange, CreateNode, SetReady, SetNotReady, Relabel, SetProviderID,
              MarkNodeDeleting, DeleteNode, ChangeNode
<1>2. CASE \E m \in Nodes : Timeout(m) \/ Collect(m) \/ Delete(m) \/ DeleteEnds(m)
  BY <1>2 DEF Timeout, WaitTimeout, Collect, CollectGarbage, Delete, UserDelete, DeleteEnds,
              FinishDelete
<1>3. CASE \E e \in ENIs : AttachEnds(e) \/ AttachBreaks(e) \/ DeleteEni(e)
  BY <1>3 DEF AttachEnds, FinishAttach, AttachBreaks, AttachFails, DeleteEni, DeleteENI
<1>4. CASE \E m \in Nodes : NodeRequeue(m)
  BY <1>4 DEF NodeRequeue, NodeTimer
<1>5. CASE \E m \in Nodes : DeviceEvent(m) \/ DeviceResync(m) \/ DeviceRequeue(m) \/ DeviceStart(m)
  BY <1>5 DEF DeviceEvent, DeliverDevice, DeviceResync, Resync, DeviceRequeue, DeviceTimer,
              DeviceStart, DeviceGet
<1>6. CASE DeviceStep
  BY <1>6 DEF DeviceStep, DeviceWorker, DeviceDescribe, DeviceEnsure, DeviceMissing, DeviceUpdate,
              DeviceRmList, DeviceRmPatch, DeviceRmDelete, RemovePatch, RemoveDelete
<1> QED BY <1>1, <1>2, <1>3, <1>4, <1>5, <1>6 DEF Next

LEMMA CurrentStep == ASSUME Inductive, Sequenced, Next PROVE Current'
<1> SUFFICES ASSUME nw'.pc \in Providing, nw'.n \notin nq', ToProvision(nodeCache'[nw'.n])
             PROVE  nw'.inst = nodeCache'[nw'.n].inst
  BY DEF Current, ToProvision, InstanceIDFromNode
<1>1. nw \in NodeWork /\ nw.n \in Nodes /\ TypeOK
  BY ProvisioningTypes DEF Inductive, TypeOK, NodeWork
<1>2. CASE nw' = nw /\ nodeCache' = nodeCache /\ nq \subseteq nq'
  BY <1>2 DEF Sequenced, Current
<1>3. ASSUME NEW m \in Nodes, NodeEvent(m) PROVE nw'.inst = nodeCache'[nw'.n].inst
  <2>1. nw' = nw /\ nq \subseteq nq'
    BY <1>3 DEF NodeEvent, DeliverNode
  <2>2. CASE m # nw.n
    BY <1>1, <1>3, <2>1, <2>2, DeliveredViews DEF Sequenced, Current
  <2>3. CASE m = nw.n
    BY <1>1, <1>3, <2>1, <2>3, DroppedIsOld DEF Sequenced, Current
  <2> QED BY <2>2, <2>3
<1>4. ASSUME NEW m \in Nodes, NodeStart(m) PROVE nw'.inst = nodeCache'[nw'.n].inst
  <2>1. nw.pc \notin Providing /\ nodeCache' = nodeCache
    BY <1>4 DEF NodeStart, NodeGet, Providing
  <2>2. /\ nw' = [NodeIdle EXCEPT !.pc = "list", !.n = m, !.uid = nodeCache[m].uid,
                                  !.inst = InstanceIDFromNode(nodeCache[m])]
        /\ InstanceIDFromNode(nodeCache[m]) # NoInst
    BY <1>4, <2>1 DEF NodeStart, NodeGet, Providing, NodeIdle
  <2>3. nw'.n = m /\ nw'.inst = InstanceIDFromNode(nodeCache[m])
    BY <2>2 DEF NodeIdle
  <2>4. nodeCache[m] \in NodeRec
    BY <1>1 DEF TypeOK
  <2> QED BY <2>1, <2>2, <2>3, <2>4, ProvisionedInstance
<1>5. CASE NodeStep
  <2>1. nw.pc \in Providing /\ nw'.n = nw.n /\ nw'.inst = nw.inst
    BY <1>1, <1>5, IdlePCs
       DEF NodeStep, NodeWorker, NodeList, NodeBackfill, NodeSelect, NodeLookup, NodeCreateEni,
           NodeTag, NodeJumbo, NodeCreateCR, NodePoll, NodeRmList, NodeRmPatch, NodeRmDelete, NodeDone,
           NodeRetry, NodeWork, NodeIdle, Providing, AfterCreate
  <2>2. nq' = nq /\ nodeCache' = nodeCache
    BY <1>5
       DEF NodeStep, NodeWorker, NodeList, NodeBackfill, NodeSelect, NodeLookup, NodeCreateEni,
           NodeTag, NodeJumbo, NodeCreateCR, NodePoll, NodeRmList, NodeRmPatch, NodeRmDelete, RemovePatch,
           RemoveDelete
  <2> QED BY <2>1, <2>2 DEF Sequenced, Current
<1>6. CASE Restart
  BY <1>6, IdlePCs DEF Restart, Providing
<1>7. \/ nw' = nw /\ nodeCache' = nodeCache /\ nq \subseteq nq'
      \/ NodeStep \/ Restart \/ \E m \in Nodes : NodeStart(m) \/ NodeEvent(m)
  BY NodeQueueStep
<1> QED BY <1>2, <1>3, <1>4, <1>5, <1>6, <1>7

LEMMA AlwaysSequenced == Spec => []Sequenced
<1>1. Init => Sequenced
  <2> SUFFICES ASSUME Init PROVE Sequenced
    OBVIOUS
  <2>1. \A n \in Nodes : nodeCache[n] = node[n] /\ nodeLog[n] = <<>>
    BY DEF Init, ClusterInit
  <2>2. Current
    BY IdlePCs DEF Init, NodeControllerInit, Current, Providing
  <2> QED BY <2>1, <2>2 DEF Sequenced, InSequence
<1>2. Inductive /\ History /\ Sequenced /\ [Next]_vars => Sequenced'
  <2>1. CASE UNCHANGED vars
    BY <2>1 DEF vars, Sequenced, InSequence, Current, ToProvision, InstanceIDFromNode
  <2>2. ASSUME Inductive, History, Sequenced, Next PROVE Sequenced'
    <3>1. \A n \in Nodes : InSequence(n)'
      BY <2>2, SequenceStep DEF Sequenced, History
    <3> QED BY <2>2, <3>1, CurrentStep DEF Sequenced
  <2> QED BY <2>1, <2>2
<1> QED BY <1>1, <1>2, AlwaysInductive, AlwaysHistory, PTL DEF Spec

\* The worker lets go of a Node it was providing for: there is an ERdmaDevice.
LEMMA WorkerLetsGo ==
  ASSUME Inductive, TypeOK', Sequenced, NodeStep, NEW n \in Nodes,
         ToProvision(nodeCache'[n]), ToProvision(nodeCache[n]) => Attended(n), ~Attended(n)'
  PROVE  \/ Listed(nodeCache[n].inst)
         \/ cr'[n] # NoCR /\ cr'[n].inst = nodeCache[n].inst
<1>1. nw \in NodeWork /\ nw.n \in Nodes /\ TypeOK
  BY ProvisioningTypes DEF Inductive, TypeOK, NodeWork
<1>2. nq' = nq /\ nodeCache' = nodeCache /\ nDelay \subseteq nDelay'
  BY DEF NodeStep, NodeWorker, NodeList, NodeBackfill, NodeSelect, NodeLookup, NodeCreateEni,
         NodeTag, NodeJumbo, NodeCreateCR, NodePoll, NodeRmList, NodeRmPatch, NodeRmDelete, RemovePatch,
         RemoveDelete, NodeDone, NodeRetry
<1>3. ToProvision(nodeCache[n])
  BY <1>2
<1>4. n \notin nq /\ n \notin nDelay /\ n \notin nDelay'
  BY <1>2 DEF Attended
<1>5. nw.n = n /\ nw.pc \in Providing
  BY <1>3, <1>4 DEF Attended, Providing
<1>6. nw.inst = nodeCache[n].inst /\ nw.inst \in Instances /\ SupportsErdma(InstanceType[nw.inst])
  <2>1. nw.inst = nodeCache[n].inst
    BY <1>3, <1>4, <1>5 DEF Sequenced, Current
  <2>2. nodeCache[n] \in NodeRec
    BY <1>1 DEF TypeOK
  <2> QED BY <1>3, <2>1, <2>2, ProvisionedInstance DEF ToProvision
<1>7. ~NodeRetry
  BY <1>4, <1>5 DEF NodeRetry
<1>8. ASSUME nw'.n = n, nw'.pc \in Providing PROVE FALSE
  BY <1>8 DEF Attended, Providing
<1>9. CASE NodeList
  <2>1. CASE Listed(nw.inst)
    BY <1>6, <2>1
  <2>2. CASE nw' = [nw EXCEPT !.pc = "select"]
    BY <1>1, <1>5, <1>8, <2>2 DEF NodeWork, Providing
  <2> QED BY <1>9, <2>1, <2>2 DEF NodeList
<1>10. CASE NodeSelect \/ NodeLookup \/ NodeCreateEni \/ NodeTag \/ NodeJumbo
  <2>1. nw'.n = n /\ nw'.pc \in Providing
    BY <1>1, <1>5, <1>6, <1>7, <1>10
       DEF NodeSelect, NodeLookup, NodeCreateEni, NodeTag, NodeJumbo, NodeWork, Providing,
           AfterCreate
  <2> QED BY <1>8, <2>1
<1>11. CASE NodeCreateCR
  <2>1. cr[n] = NoCR /\ cr' = [cr EXCEPT ![n] = NewCR]
    BY <1>5, <1>7, <1>11 DEF NodeCreateCR
  <2>2. cr'[n] = NewCR /\ NewCR.inst = nw.inst
    BY <1>1, <2>1 DEF NewCR, TypeOK
  <2>3. NewCR \in CRRec
    <3>1. rev[nw.n] \in Nat
      BY <1>1 DEF TypeOK
    <3> QED BY <1>1, <1>6, <3>1 DEF NewCR, CRRec, NodeWork
  <2> QED BY <1>6, <2>2, <2>3, NoObjectAssumption
<1>12. CASE NodeBackfill \/ NodePoll \/ NodeRmList \/ NodeRmPatch \/ NodeRmDelete
  BY <1>5, <1>12 DEF NodeBackfill, NodePoll, NodeRmList, NodeRmPatch, NodeRmDelete, Providing
<1> QED BY <1>9, <1>10, <1>11, <1>12 DEF NodeStep, NodeWorker

\* Whatever events the predicates drop, in whichever order Nodes change, fail,
\* are replaced or relabelled while the worker is busy with an old version, and
\* whenever the controller restarts: the Node reconciler turns away from a Node
\* it is to provision only when an ERdmaDevice for its instance is there.
THEOREM NoWakeUpLost == Spec => LetGoOnlyWithDevice
<1> DEFINE LetGo ==
      \A n \in Nodes :
        (ToProvision(nodeCache[n])' /\ ~Attended(n)' /\ (ToProvision(nodeCache[n]) => Attended(n)))
            => \/ Listed(nodeCache[n].inst)
               \/ cr'[n] # NoCR /\ cr'[n].inst = nodeCache[n].inst
<1>1. Inductive /\ Inductive' /\ Sequenced /\ [Next]_vars => [LetGo]_vars
  <2> SUFFICES ASSUME Inductive, TypeOK', Sequenced, Next, NEW n \in Nodes,
                      ToProvision(nodeCache[n])', ~Attended(n)',
                      ToProvision(nodeCache[n]) => Attended(n)
               PROVE  \/ Listed(nodeCache[n].inst)
                      \/ cr'[n] # NoCR /\ cr'[n].inst = nodeCache[n].inst
    BY DEF Inductive
  <2>1. ToProvision(nodeCache'[n]) /\ n \notin nq' /\ n \notin nDelay'
    BY DEF ToProvision, InstanceIDFromNode, Attended
  <2>2. TypeOK /\ nodeCache[n] \in NodeRec
    BY DEF Inductive, TypeOK
  <2>3. CASE NodeStep
    BY <2>1, <2>3, WorkerLetsGo
  <2>4. ASSUME NEW m \in Nodes, NodeEvent(m) PROVE FALSE
    <3>1. /\ nw' = nw /\ nDelay' = nDelay /\ nq \subseteq nq'
          /\ m # n => nodeCache'[n] = nodeCache[n]
      BY <2>2, <2>4 DEF NodeEvent, DeliverNode, TypeOK
    <3>2. ToProvision(nodeCache[n])
      BY <2>1, <2>4, <3>1, DroppedIsOld DEF Sequenced
    <3> QED BY <3>1, <3>2 DEF Attended
  <2>5. ASSUME NEW m \in Nodes, NodeStart(m) PROVE FALSE
    <3>1. /\ nw.pc = "idle" /\ nodeCache' = nodeCache /\ nq' = nq \ {m} /\ nDelay \subseteq nDelay'
      BY <2>5 DEF NodeStart, NodeGet
    <3>2. ToProvision(nodeCache[n]) /\ n \in nq \cup nDelay
      BY <2>1, <3>1 DEF Attended
    <3>3. m = n
      BY <2>1, <3>1, <3>2
    <3>4. nodeCache[n].phase \in {"ready", "notready"} /\ m \notin nDelay'
      BY <2>1, <3>2, <3>3 DEF ToProvision
    <3>5. nw' = [NodeIdle EXCEPT !.pc = "list", !.n = n, !.uid = nodeCache[n].uid,
                                 !.inst = InstanceIDFromNode(nodeCache[n])]
      BY <2>5, <3>3, <3>4 DEF NodeStart, NodeGet
    <3>6. nw'.n = n /\ nw'.pc = "list"
      BY <3>5 DEF NodeIdle
    <3> QED BY <3>6 DEF Attended
  <2>6. CASE Restart
    BY <2>1, <2>6 DEF Restart, ToProvision, Exists
  <2>7. ASSUME nw' = nw, nodeCache' = nodeCache, nq \subseteq nq', nq \cup nDelay \subseteq nq' \cup nDelay'
        PROVE  FALSE
    BY <2>1, <2>7 DEF Attended
  <2> QED BY <2>3, <2>4, <2>5, <2>6, <2>7, NodeQueueStep
<1>2. LetGoOnlyWithDevice <=> [][LetGo]_vars
  BY DEF LetGoOnlyWithDevice
<1> HIDE DEF LetGo
<1> QED BY <1>1, <1>2, AlwaysInductive, AlwaysSequenced, PTL DEF Spec
=============================================================================

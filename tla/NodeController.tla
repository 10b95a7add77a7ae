--------------------------- MODULE NodeController ---------------------------
(***************************************************************************)
(* The Node reconciler (internal/controller/node_controller.go) and the    *)
(* part of EriClient it calls.  controller-runtime runs one worker: nq is  *)
(* its work queue, nDelay the items waiting for a timer (RequeueAfter, or  *)
(* the rate limiter after an error), nw the reconcile in progress, one     *)
(* step per API call.                                                      *)
(***************************************************************************)
EXTENDS Removal

VARIABLES nq, nDelay, nw,
          tagged     \* NodeReconciler.taggedENIs

nodeCtlVars == <<nq, nDelay, nw, tagged>>

NodePCs == {"idle", "list", "select", "lookup", "create", "tag", "jumbo", "createCR", "poll",
            "backfill", "rmList", "rmPatch", "rmDelete"}

NodeIdle == [pc |-> "idle", n |-> CHOOSE n \in Nodes : TRUE, uid |-> 0, inst |-> NoInst,
             eris |-> {}, need |-> {}, qp |-> 0, jumbo |-> FALSE, pending |-> {}, rv |-> 0]

NodeControllerInit ==
    /\ nq = {} /\ nDelay = {} /\ nw = NodeIdle /\ tagged = {}

-----------------------------------------------------------------------------
(* Events and the work queue *)

IsNodeReady(v) == v.phase = "ready"
Exists(v) == v.phase # "absent"

\* Mistake: a node that comes under the selector is not looked at.
PredictNodeUpdateWithoutLabels(old, new) ==
    /\ new.own
    /\ \/ new.phase = "deleting"
       \/ ~IsNodeReady(old) /\ IsNodeReady(new)
       \/ old.prov # new.prov

PredictNodeUpdate(old, new) ==
    /\ new.own
    /\ \/ ~old.own
       \/ new.phase = "deleting"
       \/ ~IsNodeReady(old) /\ IsNodeReady(new)
       \/ old.prov # new.prov

\* Which events of the Node informer reach the work queue (SetupWithManager).
Admits(old, new) ==
    CASE ~Exists(old) -> new.own
      [] ~Exists(new) -> new.own
      [] OTHER        -> PredictNodeUpdate(old, new)

DeliverNode(n) ==
    /\ nodeLog[n] # <<>>
    /\ LET new == Head(nodeLog[n]) IN
         /\ nodeCache' = [nodeCache EXCEPT ![n] = new]
         /\ nq' = IF Admits(nodeCache[n], new) THEN nq \cup {n} ELSE nq
    /\ nodeLog' = [nodeLog EXCEPT ![n] = Tail(@)]
    /\ UNCHANGED <<node, aged, cr, crCache, rev, eni, budget, nDelay, nw, tagged>>

NodeTimer(n) ==
    /\ n \in nDelay
    /\ nDelay' = nDelay \ {n}
    /\ nq' = nq \cup {n}
    /\ UNCHANGED <<clusterVars, nw, tagged>>

\* How a reconcile ends: with nothing more to do, or to be tried again later.
NodeDone  == nw' = NodeIdle /\ UNCHANGED nDelay
NodeRetry == nw' = NodeIdle /\ nDelay' = nDelay \cup {nw.n}

-----------------------------------------------------------------------------
(* Reconcile *)

\* EriClient.InstanceIDFromNode: by provider ID, else by internal IP.  (One the
\* API does not find leaves it to the IP, and so to the same instance or to an
\* error, as when the call fails.)
InstanceIDFromNode(v) == IF v.prov \/ v.inst \in IpResolvable THEN v.inst ELSE NoInst

\* Mistake: a Node that is not ready counts as gone.
NodeGetReadyOnly(n) ==
    /\ nw.pc = "idle" /\ n \in nq
    /\ nq' = nq \ {n}
    /\ UNCHANGED <<k8sVars, eni, churn, userDeletes, tagged, nDelay>>
    /\ NoFault
    /\ nw' = LET v == nodeCache[n] IN
         IF v.phase = "ready"
         THEN [NodeIdle EXCEPT !.pc = "list", !.n = n, !.uid = v.uid,
                               !.inst = InstanceIDFromNode(v)]
         ELSE [NodeIdle EXCEPT !.pc = "rmList", !.n = n]

\* Get, the ready gate, and the instance ID.
NodeGet(n) ==
    /\ nw.pc = "idle" /\ n \in nq
    /\ nq' = nq \ {n}
    /\ UNCHANGED <<k8sVars, eni, churn, userDeletes, tagged>>
    /\ LET v == nodeCache[n] IN
       \/ /\ v.phase \in {"absent", "deleting"}
          /\ nw' = [NodeIdle EXCEPT !.pc = "rmList", !.n = n]
          /\ NoFault /\ UNCHANGED nDelay
       \/ /\ v.phase = "notready" /\ aged[n] < v.uid
          /\ nDelay' = nDelay \cup {n}
          /\ NoFault /\ UNCHANGED nw
       \/ /\ v.phase = "ready" \/ (v.phase = "notready" /\ aged[n] >= v.uid)
          /\ \/ /\ InstanceIDFromNode(v) # NoInst /\ NoFault
                /\ nw' = [NodeIdle EXCEPT !.pc = "list", !.n = n, !.uid = v.uid,
                                          !.inst = InstanceIDFromNode(v)]
                /\ UNCHANGED nDelay
             \/ /\ \/ InstanceIDFromNode(v) = NoInst /\ NoFault
                   \/ Fault
                /\ nDelay' = nDelay \cup {n}
                /\ UNCHANGED nw

\* The ERdmaDevices labelled with the instance, from the cache.  If there are
\* any, backfillEriTags marks their ENIs before it tags them.
CachedDevicesOf(i) ==
    UNION {crCache[m].spec : m \in {x \in Nodes : crCache[x] # NoCR /\ crCache[x].inst = i}}

Listed(i) == \E m \in Nodes : crCache[m] # NoCR /\ crCache[m].inst = i

NodeList ==
    /\ nw.pc = "list"
    /\ UNCHANGED <<clusterVars, nq>>
    /\ \/ /\ ~Listed(nw.inst)
          /\ nw' = [nw EXCEPT !.pc = "select"]
          /\ UNCHANGED <<nDelay, tagged>>
       \/ /\ Listed(nw.inst)
          /\ LET pending == {d.id : d \in CachedDevicesOf(nw.inst)} \ tagged IN
               IF pending = {}
               THEN NodeDone /\ UNCHANGED tagged
               ELSE /\ nw' = [nw EXCEPT !.pc = "backfill", !.pending = pending]
                    /\ tagged' = tagged \cup pending
                    /\ UNCHANGED nDelay

\* EnsureEriTags adds the excluded and instance-id tags, never the creator tag.
\* A failed TagResources call may still have been carried out.
EnsureEriTags(ids, i) ==
    \/ /\ eni' = [e \in ENIs |-> IF e \in ids
                                 THEN [eni[e] EXCEPT !.excluded = TRUE, !.instTag = i]
                                 ELSE eni[e]]
       /\ NoFault \/ Fault
    \/ UNCHANGED eni /\ Fault

\* Mistake: the markers stay after a failure.
NodeBackfillKeepsMarkers ==
    /\ nw.pc = "backfill"
    /\ EnsureEriTags(nw.pending, nw.inst)
    /\ NodeDone /\ UNCHANGED <<k8sVars, churn, userDeletes, nq, tagged>>

\* A failed backfill rolls the markers back and ends the reconcile all the same.
NodeBackfill ==
    /\ nw.pc = "backfill"
    /\ EnsureEriTags(nw.pending, nw.inst)
    /\ tagged' = IF faults' = faults THEN tagged ELSE tagged \ nw.pending
    /\ NodeDone /\ UNCHANGED <<k8sVars, churn, userDeletes, nq>>

-----------------------------------------------------------------------------
(* SelectERIs, call by call *)

\* Mistake: the error of SelectEriFromExist is not returned.
NodeSelectDropsError ==
    /\ nw.pc = "select"
    /\ UNCHANGED <<k8sVars, eni, churn, userDeletes, faults, nq, nDelay, tagged>>
    /\ LET type == InstanceType[nw.inst] IN
       \E r \in SelectEriFromExist(DescribeByInstance(nw.inst), QueuePairCount(type),
                                   CardCount(type), ManagedNonOwned) :
         nw' = IF r.ok THEN [nw EXCEPT !.pc = "lookup", !.eris = r.eris, !.need = r.need,
                                       !.qp = r.qp]
               ELSE NodeIdle

\* DescribeInstances, DescribeInstanceTypes, DescribeNetworkInterfaces and
\* SelectEriFromExist.
NodeSelect ==
    /\ nw.pc = "select"
    /\ UNCHANGED <<k8sVars, eni, churn, userDeletes, nq, tagged>>
    /\ LET type == InstanceType[nw.inst] IN
       \/ Fault /\ NodeRetry
       \/ ~SupportsErdma(type) /\ NoFault /\ NodeDone
       \/ /\ SupportsErdma(type) /\ NoFault
          /\ \E r \in SelectEriFromExist(DescribeByInstance(nw.inst), QueuePairCount(type),
                                         CardCount(type), ManagedNonOwned) :
               IF r.ok
               THEN /\ nw' = [nw EXCEPT !.pc = "lookup", !.eris = r.eris,
                                        !.need = r.need, !.qp = r.qp]
                    /\ UNCHANGED nDelay
               ELSE NodeRetry

AfterCreate(need) == IF need = {} THEN "tag" ELSE "create"

\* Mistake: ENIs of an earlier attempt are not looked for.
NodeLookupNothing ==
    /\ nw.pc = "lookup" /\ NoFault
    /\ nw' = [nw EXCEPT !.pc = AfterCreate(nw.need)]
    /\ UNCHANGED <<k8sVars, eni, churn, userDeletes, nq, nDelay, tagged>>

\* CreateEriForInstance: the ENIs an earlier attempt left behind come first ...
NodeLookup ==
    /\ nw.pc = "lookup"
    /\ UNCHANGED <<k8sVars, eni, churn, userDeletes, nq, tagged>>
    /\ LET tag  == DescribeByTag(nw.inst)
           need == nw.need \ ReusedCards(tag, nw.need)
       IN  \/ /\ NoFault /\ UNCHANGED nDelay
              /\ \E reused \in ReuseTagged(tag, nw.need, nw.qp, nw.inst) :
                   nw' = [nw EXCEPT !.pc = AfterCreate(need), !.need = need,
                                    !.eris = @ \cup reused]
           \/ Fault /\ NodeRetry

\* Identifiers are opaque: the next one is the least not given out yet.
Unused(e) == eni[e].st = "free" /\ \A x \in ENIs : eni[x].st = "free" => e <= x

NewENI(i, q) == [FreeENI EXCEPT !.st = "Available", !.rdma = TRUE, !.qp = q, !.creator = TRUE,
                                !.instTag = i, !.excluded = TRUE]

\* ... then one ENI is created for each card that is left.  A call that fails
\* may still have created its ENI; those created before it stay.
NodeCreateEni ==
    /\ nw.pc = "create"
    /\ UNCHANGED <<k8sVars, churn, userDeletes, nq, tagged>>
    /\ \/ \E e \in ENIs :
            /\ Unused(e)
            /\ eni' = [eni EXCEPT ![e] = NewENI(nw.inst, nw.qp)]
            /\ \/ /\ LET card == Min(nw.need)
                         need == nw.need \ {card}
                     IN  nw' = [nw EXCEPT !.pc = AfterCreate(need), !.need = need,
                                          !.eris = @ \cup {CreatedEri(e, card, nw.inst)}]
                  /\ NoFault /\ UNCHANGED nDelay
               \/ Fault /\ NodeRetry
       \/ Fault /\ NodeRetry /\ UNCHANGED eni

\* EnsureEriTags on the whole selection, its failure ignored.
NodeTag ==
    /\ nw.pc = "tag"
    /\ EnsureEriTags({d.id : d \in nw.eris}, nw.inst)
    /\ nw' = [nw EXCEPT !.pc = "jumbo"]
    /\ UNCHANGED <<k8sVars, churn, userDeletes, nq, nDelay, tagged>>

\* IsJumboFrameEnabled, whose failure counts as "no".
NodeJumbo ==
    /\ nw.pc = "jumbo"
    /\ \/ NoFault /\ nw' = [nw EXCEPT !.pc = "createCR", !.jumbo = nw.inst \in Jumbo]
       \/ Fault /\ nw' = [nw EXCEPT !.pc = "createCR", !.jumbo = FALSE]
    /\ UNCHANGED <<k8sVars, eni, churn, userDeletes, nq, nDelay, tagged>>

\* Create: refused when an object of that name exists.
NewCR == [uid |-> nw.uid, inst |-> nw.inst, jumbo |-> nw.jumbo, spec |-> nw.eris,
          status |-> {}, deleting |-> FALSE, rv |-> rev[nw.n] + 1]

NodeCreateCR ==
    /\ nw.pc = "createCR"
    /\ UNCHANGED <<node, nodeLog, nodeCache, aged, crCache, eni, churn, userDeletes, nq, tagged>>
    /\ \/ /\ cr[nw.n] = NoCR
          /\ cr' = [cr EXCEPT ![nw.n] = NewCR]
          /\ rev' = [rev EXCEPT ![nw.n] = @ + 1]
          /\ \/ NoFault /\ nw' = [NodeIdle EXCEPT !.pc = "poll", !.n = nw.n] /\ UNCHANGED nDelay
             \/ Fault /\ NodeRetry
       \/ cr[nw.n] # NoCR /\ NoFault /\ NodeRetry /\ UNCHANGED <<cr, rev>>
       \/ Fault /\ NodeRetry /\ UNCHANGED <<cr, rev>>

\* PollUntilContextTimeout: until the cache has the object, or for two seconds.
NodePoll ==
    /\ nw.pc = "poll"
    /\ NodeDone
    /\ UNCHANGED <<clusterVars, nq, tagged>>

\* RemoveERdmaDevices, for a Node that is gone or being deleted.
NodeRmList ==
    /\ nw.pc = "rmList"
    /\ IF crCache[nw.n] = NoCR
       THEN NodeDone
       ELSE nw' = [nw EXCEPT !.pc = "rmPatch", !.rv = crCache[nw.n].rv] /\ UNCHANGED nDelay
    /\ UNCHANGED <<clusterVars, nq, tagged>>

NodeRmPatch ==
    /\ nw.pc = "rmPatch"
    /\ \/ RemovePatch(nw.n, nw.rv, TRUE) /\ nw' = [nw EXCEPT !.pc = "rmDelete"] /\ UNCHANGED nDelay
       \/ RemovePatch(nw.n, nw.rv, FALSE) /\ NodeRetry
    /\ UNCHANGED <<nq, tagged>>

NodeRmDelete ==
    /\ nw.pc = "rmDelete"
    /\ \/ RemoveDelete(nw.n, TRUE) /\ NodeDone
       \/ RemoveDelete(nw.n, FALSE) /\ NodeRetry
    /\ UNCHANGED <<nq, tagged>>

NodeWorker ==
    \/ NodeList \/ NodeBackfill \/ NodeSelect \/ NodeLookup \/ NodeCreateEni \/ NodeTag \/ NodeJumbo
    \/ NodeCreateCR \/ NodePoll \/ NodeRmList \/ NodeRmPatch \/ NodeRmDelete
=============================================================================

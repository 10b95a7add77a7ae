# A TLA+ model of the Alibaba Cloud ERDMA controller

The controller gives Kubernetes nodes on Alibaba Cloud elastic RDMA interfaces
(ERIs): it picks, creates, attaches and converts network interfaces (ENIs) of
the ECS instance behind a node and publishes them in an `ERdmaDevice` object; an
agent on the node configures the links and offers the RDMA devices to pods
through a kubelet device plugin. This directory holds the specifications of the
parts of it that are hard to test, the TLC runs that check them on small
instances, and proofs for every size of what matters most. `PROJECT.json` lists
the runs, maps every definition to the lines it models, and lists the hazards
the properties are for.

## The system

| component | state it keeps | operations | what makes it hard |
|---|---|---|---|
| ERI selection (`internal/controller/eri.go`) | none; ENIs and their tags in ECS | choose existing ERIs, share queue pairs among cards, reuse ENIs found by tag, create the rest | order of API answers, integer division, nil fields, creation that fails half way |
| Node reconciler (`node_controller.go`) | work queue, `taggedENIs` markers | react to Node events, create the ERdmaDevice, backfill tags, remove the ERdmaDevice of a Node that is gone | stale caches, retries after partial effects, restarts, which events are admitted |
| ERdmaDevice reconciler (`erdmadevice_controller.go`) | work queue | describe the ENIs, attach or convert them, report a status, requeue | acts on what it described earlier, conflicting updates, slow attachments |
| controller process (`cmd/controller/main.go`) | leader lease | start the above, sync the webhook certificate first | a restart between any two API calls |
| webhook certificate (`internal/cert/webhook.go`) | Secret, CABundles, files | generate or adopt a certificate, write it, patch its CA into the webhooks | several replicas at once, death between the steps |
| STS credential (`credential.go`) | cached token, its expiration, time of update | refresh every five minutes, fall back on the old token | two reconcilers share it without a lock |
| metadata client (`internal/utils/metadata.go`) | cached token | request with token, one retry after 401, backoff | a token that became invalid early |
| agent (`internal/agent`, `internal/k8s`) | none | wait for the ERdmaDevice, or with local discovery choose among the RDMA devices of the node by rules; install the driver, probe every device, start the plugin | runs ahead of the controller and of the kernel; its only retry is to exit |
| drivers and link configuration (`internal/drivers`) | links, addresses, routes, kernel module | load the module, bring a link up, address, routes, undo on error | every step can fail or be the last |
| device plugin (`internal/deviceplugin`) | gRPC server, stop channel, socket file | register, list devices, watch for a kubelet restart, allocate | kubelet and plugin restart independently; unsynchronised goroutines |
| start of a pod: webhook (`internal/webhook`), `Allocate` and `PreStartContainer` (`internal/deviceplugin`), `smcr_init` (`cmd/smcr_init`) | SMC-R settings of network namespaces | inject an init container, hand out device files, find a pod by its device, set sysctls and the pnet table in its namespace | the kubelet gives calls up and repeats them; sandboxes and agents die half way; devices move between pods |

The two reconcilers interact only through ERdmaDevice objects and ENIs; each
reads objects from an informer cache that lags behind the API server. The agent
interacts with the controller through the ERdmaDevice of its node and the ENIs
that show up as links. The device plugin interacts with the kubelet through two
sockets in one directory; a pod meets the program three times, at its creation
(webhook), at its admission to a node (`Allocate`) and before each start of a
container (`PreStartContainer`, or the init container the webhook injected).

## Modules

| module | models | how |
|---|---|---|
| `EriSelection` | the pure part of `eri.go` | operators named after the functions. Where the code takes the first of what an API returned, the operator returns the set of results over all orders. |
| `EriPlan`, `MCEriPlan` | `SelectERIs` as a sequential computation | one action per stage, started from every input of a catalogue: nine instance types, all sets of attached ENIs made from a primary and up to two secondaries, leftovers of earlier attempts, both ownership modes |
| `Cluster` | Node and ERdmaDevice objects, informer caches, garbage collection, ECS ENIs | external; from how the code uses it |
| `Removal` | `RemoveERdmaDevices`, shared by both reconcilers | patch and delete steps |
| `NodeController` | the Node reconciler | work queue `nq`, timers `nDelay`, the reconcile in progress `nw` with one step per API call, markers `tagged` |
| `ERdmaDeviceController` | the ERdmaDevice reconciler and `EnsureEriForInstance` | `dq`, `dDelay`, `dw` likewise |
| `ErdmaController`, `MCErdmaController` | both reconcilers in one process, with restarts | composes the modules above; the properties |
| `DeviceLifecycle` | abstract: what readers of an ERdmaDevice may rely on | refined by `ErdmaController` |
| `DevicePlugin` | server, registration and streams of the device plugin, and the kubelet | every call of `Start` is a generation that numbers its server, channel and socket |
| `CertSync` | `SyncCert` in several replicas | one action per API call |
| `NetDevice`, `MetadataToken` | `EnsureNetDevice`; `getWithToken` and `withRetry` | one action per netlink call and per HTTP call; parts of `NodeAgent` |
| `NodeAgent`, `MCNodeAgent` | `Agent.Run` from start to device plugin, `checkExpose` and `SelectERIs` of local discovery, `GetDriver` and `Install` | composes the two modules above with a node that attaches ENIs, loads modules, uses links for something else, kills the agent and reboots |
| `PodSetup` | webhook, `Allocate`, the lookups and commands of `PreStartContainer` and `smcr_init` | a job is one run of the handler or of the init container, one action per call it makes |
| `PodStart`, `MCPodStart` | `PodSetup` under the kubelet | admission, sandboxes, starts, calls that expire while their handler goes on, deaths of containers, sandboxes and the agent |
| `StsCredential` | `GetCredential`, `needUpdateCredential` and `updateCredential` | one action per access to an unprotected field |
| `EriSelectionProofs`, `EriPlanProofs`, `ErdmaControllerProofs`, `CertSyncProofs`, `DevicePluginProofs`, `NodeAgentProofs`, `PodStartProofs` | theorems and lemmas about the module of that name | see Proofs |

Conventions. One action is one API call or system call together with the local
computation that follows it, since that is the grain at which others interfere.
A failing call is a disjunct with a `Fault` budget; where a call can fail after
taking effect (ECS and API server calls), both outcomes are there. Every
counter has a named `Max...` bound. A definition introduced as "Mistake" or
"Mutation" belongs to no specification: it is the wrong variant of the
definition that follows it, used to show that a property would notice.

Abstractions worth knowing: an ERdmaDevice has the name of its node, so the
objects are a function from node names; `uid` numbers incarnations of a Node;
`own` stands for "the labels match the selector". The spec of an ERdmaDevice is
a set of devices. An attached ENI is not detached by anybody else. Node events
are delivered one by one and in order (`nodeLog`), changes of ERdmaDevices may
be merged. Work queues are sets: an item that is queued twice is handled once.
A metadata token is the epoch of the server in which it was issued. The address,
vswitch and gateway of a link are one request to the metadata server. A rule of
`exposedLocalERIs` is an instance, a set of devices and whether the pattern
accepts it. A pod has one application container and at most the init container
of the webhook; a device id is a device and the number of its share. The devices
the agent selected and those it has still to probe are sets of positions in the
list of devices, taken in their order. A link knows whether it has the address the
metadata gives it and whether it has another one that is not link-local: the code
asks for either in one place (`hasNonLinkLocalAddr`) and for the first in others. The
address another program gives a link brings no route to the two destinations of
the ERI's own routes, and stays when the link goes down. A provider ID that the API
does not find leaves it to the IP of the Node, and so to the same instance or to an
error; the model takes the two lookups as one.

## Runs

Bounds are small because one failure, one restart or one change at every
possible point is what the hazards need; each run gives its budget to the kind
of trouble it is about. `churn` and `provisioning` have a state constraint that
keeps the budgets from being used up together; all of them only grow, so the
constraint cuts off behaviours with more trouble and nothing else. That of `pods`
leaves out combinations of pods and configuration, which never change, that add
nothing: a kernel without SMC-R and a pod that does not ask for it, other values of
the annotation under the webhook, which does not look at them, two pods that ask for
SMC-R and are both given all devices, and under dockershim the pods its branch of
`getPodConfig` treats as the other one does.

| run | instance | shows |
|---|---|---|
| `eri_plan` | the catalogue above | `QueuePairBudget`, `EveryCardOnce`, `TwiceOnlyAttached` (the catalogue has plans that do list an attached ENI twice), `ForeignLeftAlone`, `TypeOK` of every plan |
| `failures` | an instance with two cards or one without ERDMA, two faults, one restart | `CreatedWithinCards` (more cards: theorem `CreationBounded`), `ReadyMeansInUse`, `NonReadyIsWatched`, `MarkerMeansTagged` (a marker is only wrong once both the first tagging and the backfill failed) |
| `churn` | two instances, foreign ENIs not managed, three changes of Nodes or two and a deletion by a user | `AttachedToItsInstance`, `DeletesOnlyOrphans`, `LetGoOnlyWithDevice`, `TypeOK` and the refinement `LifecycleRefined`; three changes let a node name be registered, deleted and registered on the other instance |
| `provisioning` | Nodes that register not ready, unlabelled or without provider ID and change once more, or a fault and a restart | liveness `NodeProvisioned` |
| `device_plugin` | two kubelet restarts, two faults | `StopClosedOnce`, `StreamServed`, `NotStranded`, liveness `Advertised` |
| `cert_sync` | two replicas, two webhooks, four failures (so that a patch can exhaust its three tries), two re-installations | `ServedIsTrusted`, `CAStays`, liveness `EventuallyTrusted` |
| `agent` | the primary and two secondary links; an ERdmaDevice, or local discovery with no rules, a rule of the node before one for the rest, rules for others, or a refused rule; two troubles among two failing calls, a kill, a reboot, two renewals of the server's tokens and two links that another program uses | `ServedConfigured` (of behaviours without a kill, and but for links the other program uses), `ConfiguredStays` (but for an attempt that could not read the link's addresses), `ServesExposed`, `FailsForCause`, liveness `EventuallyServes` |
| `pods` | two pods on two devices with two shares each: one plain, the other annotated `true`, `false`, with nothing or with rubbish, with one or no device, in its own or the host's network; or both asking for SMC-R, one of them with two devices; the webhook, or `PreStartContainer` with containerd behind a dockershim that has no docker client, with the socket of k3s in `RUNTIME_SOCK`, or with dockershim and all devices per container; a kernel with SMC-R or, under the webhook and k3s, without; two troubles, up to two abandoned calls of a pod at a time | `SmcrReady`, `OnlyAskedFor`, `HostUntouched`, liveness `PodsSettle` |

Two troubles in `pods` are what an abandoned call takes: one to give it up, one
to replace the sandbox it works in, to fail or give up its repetition or to restart
the agent (so `Late`, the names of abandoned calls, bounds nothing that two troubles
do not; in the proofs it is any set); deleting a pod, so that its ids go to the other one, costs nothing. Two in
`agent` let a second failure, a kill or a reboot hit the attempt that repairs the
first, and the server's tokens change twice within one call. `ServesExposed` compares `checkExpose` with what the repository's
README says of the rules, written independently of their order.

Four runs are expected to fail; each shows that the code does not do what a
comment in it or the documentation says.

* `tagging`: a tagging call that fails while the ERdmaDevice is created is never
  repeated. The comment in `SelectERIs` and the log message of
  `backfillEriTags` promise a retry, but the reconcile succeeds, and neither a
  resync nor any ordinary update of the Node passes `PredictNodeUpdate`.
* `agent_killed`: an agent that is killed between adding the address and adding
  the routes leaves a link that the next attempt takes for configured. The
  deferred `LinkSetDown` that is to "make sure reconfig on crashLoop" covers
  errors only (`ReconfiguredOnCrashLoop`).
* `agent_rules`: the rule `i-* erdma_*`, which README.md (line 68) and the chart's
  `values.yaml` (line 32) give for exposing all devices on unspecified nodes, does
  not match the pattern of `checkExpose`. The agent exits and is restarted for ever
  although nothing fails (`DocumentedRulesServe`).
* `credential_shared`: with two callers the fields of `stsTokenCredential` are
  seen half updated; "credential still valid" is decided on one field and the
  credential taken from another.

Deadlock is checked except in the runs of `ErdmaController` and `EriPlan`, where
the system rests once there is nothing to do and the bounds are used up.
`CertSync`, `NodeAgent` and `PodStart` have a stuttering step for the state in
which everything serves or rests, so that any other state without a successor is an error; in
`NetDevice` that would also show a route the kernel refuses because its metric
is taken.

### Fairness

Liveness is checked under what the runtime guarantees, and nothing about
failures, Node changes, restarts or users.

* Controllers: informers deliver, timers fire, the one worker of a controller
  goes on with its reconcile (weak fairness). Queued items are served in turn
  (strong fairness of starting a reconcile, since the worker is in between busy
  with other items; the queues are first in, first out). Garbage collection, the
  ready timeout and attachments in ECS end. The resync of the informer happens:
  `NodeProvisioned` needs it when a device is still attaching at the moment its
  status is written (every 10 hours by default, so this is eventual in a weak
  sense only; a shorter status list is not requeued).
* Device plugin: goroutines of a live process run, the container is restarted,
  a restarting kubelet comes up and dials what is registered. A live stream's
  first `Send` happens.
* Certificate: the process runs and is restarted.
* Agent: the process runs and is restarted, the controller creates the
  ERdmaDevice and attaches its ENIs, the driver finds them. `EventuallyServes`
  excuses a list of rules that `checkExpose` refuses (`agent_rules` does not). With
  local discovery serving means serving what has an RDMA device at that moment, a
  short or an empty list too.
* Pods: for each pod, the kubelet or the call or init container it waits for
  goes on; the agent is restarted. Nothing is assumed of calls the kubelet gave
  up. `PodsSettle` excuses a pod with an annotation that cannot be parsed or on
  a kernel without SMC-R, which the code refuses for good.

`NodeProvisioned` speaks of Nodes that are serviceable from some point on and
did not replace another Node of their name. The second condition is needed: the
ERdmaDevice of the predecessor may be collected after the new Node was looked
at, and nothing looks at it again.

## Proofs

`tlapm` checks every theorem for all values of the constants that satisfy the
named assumptions. Every invariant and every action property of the passing runs
is a theorem, and so is the refinement of `DeviceLifecycle`. No theorem bounds
nodes, instances, cards, ENIs, replicas, links, rules, pods or devices, or the
number of failures, kills, restarts and reboots, other than that they are natural
numbers. None of the properties is inductive by itself; for each, this is the
invariant it follows from and what that adds. TLC checked the invariants on the
instances of the runs before they were proved.

### `ErdmaControllerProofs`

`TypeCorrect`, `CreationBounded` (`CreatedWithinCards`) and `AttachmentCorrect`
(`AttachedToItsInstance`) follow from `Inductive`. It adds `PrimaryHeld` (primary
ENIs stay where they are and never carry the creator tag, so they are never
counted or moved), `ListedDevices` (every device in an ERdmaDevice, in a cached
one or in a reconcile in progress names its instance, and an ENI of the
controller among them is tagged for it: stale objects are harmless because of
this) and `Provisioning` (while ENIs are created, those that exist and those
still to be created fit on the cards together). The last one is where the lookup
by tag matters: the proof of `NodeLookup` shows that reuse lowers the need by as
many cards as ENIs exist, from the lemmas of `EriSelectionProofs` about
`SelectEriFromExist`, `Lowest` and `ReuseTagged`.

The rest is about ERdmaDevice objects and rests on `Inductive`:

* `MarkersHonest` (`MarkerMeansTagged`): no step takes a tag, the RDMA mode or
  the state InUse away from an ENI (`EniMonotone`), and a marker is stored before
  its tagging call and dropped when that fails.
* `ReadyTrusted` (`ReadyMeansInUse`): `Reports` says of the object, of the cached
  copy, of the copy the reconciler works on and of the statuses it has put
  together that each Ready among them is still true, and of what it described
  earlier that an ENI seen in use still is. It needs `Versions`: two copies with
  one resource version are the same, so a status update that passes the conflict
  check was computed from the object it changes.
* `NeverForgotten` (`NonReadyIsWatched`): `AllWatched` adds the case of a worker
  that ends with a Delete which does not remove the object, because a foreground
  deletion began meanwhile: an event is still to come.
* `DeletionJustified` (`DeletesOnlyOrphans`, an action property): `History` says
  that uids are given in the order of the changes, that Node versions arrive in
  order, so that nothing the controller has seen or acted for is younger than a
  deletion still to be seen, and that a Node reconcile which is removing works on
  an orphan. The delete itself has no precondition: this is why it is safe.
* `NoWakeUpLost` (`LetGoOnlyWithDevice`, an action property): a Node to provision
  that no queue, timer or reconcile has any more is let go of only when the cache
  lists an ERdmaDevice of its instance or its own exists. This is the safety half
  of `NodeProvisioned`. `InSequence` says that the versions of a Node on their way
  to the cache follow one another: the instance stays, a deletion is not taken
  back (`Follows`). So what the predicates drop was to be provisioned before, on
  the same instance (`DroppedIsOld`), and a worker that has read an older Node
  provides for the instance the cache shows, or the Node is queued again
  (`Current`).
* `LifecycleKept` (`LifecycleRefined`): initial states map to initial states, and
  every action is mapped to a step of `DeviceLifecycle` or to a stutter. The
  creation of an object needs `PlannedCards` (what `SelectERIs` has put together
  is not empty and names no card twice), an update of its status needs
  `Versions` and `Reports` (what was Ready is in the new status too).

### `EriPlanProofs`

`PlanTypes`, `CardsServed` (`EveryCardOnce`), `RepeatedIsAttached`
(`TwiceOnlyAttached`) and `ForeignUntouched` (`ForeignLeftAlone`), from `Planned`: at every stage the cards
of the plan and those that still need an ENI are disjoint and, if there are queue
pairs to give, all the cards of the instance together (`Cards`), and a device of
the plan is an ENI the instance has and the controller may use, one of the tag
lookup, or one created for this plan (`Origins`), each once or attached and found
again by its tag (`Distinct`).

`BudgetKept` (`QueuePairBudget`) adds `Shares`: what the plan adds to the RDMA
interfaces of the instance is for cards that had none (`Missing`), and the share
of each is the queue pairs left divided by the number of those cards. The rest is
a bound on a sum over a set. The library's induction takes a predicate, which the
provers cannot instantiate, so `EriSelectionProofs` has an induction by a set of
naturals (`FromZeroUp`); from it follow that the recursion behind
`MapThenSumSet` has a solution on a finite set (`SumsExist`), that it is a natural
number, and that it is at most b for each element when none has more than b
(`SumBound`).

### `CertSyncProofs`, `DevicePluginProofs`

* `ServedTrusted` (`ServedIsTrusted`), from `Agreement`: once a Secret exists it
  never changes, every replica past the creation holds it, and every CABundle is
  empty or its CA. `CANeverReplaced` (`CAStays`, an action property) follows from
  it: no replica ever replaces the CA of another, until the webhooks are installed
  anew.
* `NoDoubleClose` (`StopClosedOnce`) and `StreamsServed` (`StreamServed`), from
  `StopInv`: generations only grow, a closed channel belongs to an earlier
  generation or to no server, and the stream of the current generation waits on
  its own channel.
* `NeverStranded` (`NotStranded`, the safety half of `Advertised`), from
  `KnownInv`: a socket the plugin makes after a starting kubelet has emptied the
  directory is registered, or gone before the plugin comes to rest, because a
  failed registration of `Serve` has a server to stop and one of the watch ends
  the process.

### `NodeAgentProofs`

* `FailedForCause` (`FailsForCause`), from `Client`: after the 401 the token of
  the call is the server's present one, unless the server renewed its tokens
  during the call.
* `ExposedOnly` (`ServesExposed`), from `Discovery`. The work is in the lemma
  `ExposesDocumented`: whatever the rules and their order, `checkExpose` exposes
  nothing that the documentation of `exposedLocalERIs` does not.
* `ConfiguredWhenServed` (`ServedConfigured`), from `Progressing`: a link that
  nobody works on is configured completely, or without routes of its own and, unless
  another program uses it, down; for the link in work there is what each step of
  `EnsureNetDevice` has done so far, also when it was sent into the configuration
  by an address list that could not be read; metrics chosen are above those in use;
  and what the loop of `Run` has behind it has an RDMA device and is up. The links
  are so only while no process was killed, which is what the run `agent_killed` is
  about.
* `LinksStayConfigured` (`ConfiguredStays`, an action property): short of a reboot,
  and of an attempt at the link that could not read its addresses, no step takes a
  configured link out of service, not even the undo of a failed attempt, and whether
  or not processes were killed. From `InHand`: the default route comes last, so a
  link that is not up with its address has none, and neither has the one at hand in
  `EnsureNetDevice` if its addresses were read.

### `PodStartProofs`

`StartsReady` (`SmcrReady`), `AskedFor` (`OnlyAskedFor`) and `HostLeftAlone` (`HostUntouched`), from an invariant of six
parts: the kubelet's accounts (`Accounts`: no id is with two pods it accounts
for), what `Allocate` gave for them (`Grants`), who has the init container, what
a call or an init container in progress has found (`Calls`, `InitJobs`), what is
in a namespace (`Namespaces`), and what must be there when a call has got that
far or has ended well in the sandbox of today (`SetUp`).

The proof found something. As first stated, `SmcrReady` said that the namespace
of a running pod is tied to a device of that pod. `SetUp` is not inductive with
that: a `PreStartContainer` call the kubelet gave up, whose pod has gone since,
finds the pod that has its id now, and adds a pnet entry with a device of the
pod that is gone; the pod's own call then finds an entry and leaves it. The run
did not show it, since only one of its pods asked for SMC-R; it does now that both may.
`SmcrReady` states what holds: the device is one of the pod, or of a pod that is
gone and had one of its ids (`Strays`).

### Assumptions

Besides bounds being natural numbers and constants having their types:

* `Cluster` and `ErdmaController`: finitely many ENIs, distinct primary ENIs,
  well-formed instance types; `NoObjectAssumption`, that the value for "no
  object" is not an object.
* `CatalogueAssumption` (`EriPlan`): an id names one ENI, an ENI is attached or it
  is not, `CreateNetworkInterface` hands out new ids, and the primary ENI of an
  instance is one, on its first card. What an instance has and what the lookup
  finds are finite sets.
* `StartAssumption` (`PodStart`): `PreStartContainer` is announced exactly when
  the webhook is disabled. The chart passes the flag so
  (`deploy/helm/templates/daemonset.yaml` lines 53 to 55).
* `AgentAssumption` (`NodeAgent`): types only; a list of rules is any sequence of
  an instance, a set of devices and whether the pattern accepts it.

### Only model-checked

* Liveness (`NodeProvisioned`, `Advertised`, `EventuallyTrusted`,
  `EventuallyServes`, `PodsSettle`): it needs fairness and ENABLED. Of the first
  two the part that is no liveness is proved: `LetGoOnlyWithDevice` and
  `NotStranded` say that the system does not rest in a state from which it would
  not be reached.
* That `ReconfiguredOnCrashLoop`, `ListedGetsTagged`, `DocumentedRulesServe` and
  `ValidCredential` of the shared credential fail: counterexamples.

No module declares a RECURSIVE operator.

## Plan

Done: selection, both reconcilers, their composition and abstract specification,
certificate, credential, agent with link configuration, metadata client and
local discovery, device plugin lifecycle, the start of pods, and the proofs
above.

Left:

1. Proofs: type correctness of `NodeAgent`, `PodStart`, `DevicePlugin` and
   `CertSync` as theorems of their own (today they are parts of the inductive
   invariants).
2. A composition of controller and agent on one ERdmaDevice. `NodeAgent` assumes
   of the controller that the object appears and that its ENIs are attached in
   the end, which `NodeProvisioned` shows, and that its devices do not change,
   which `LifecycleKept` proves.

## Not modelled

* The installation scripts of the drivers and the parsing of sysfs and of RDMA
  GUIDs: input and output without a protocol of their own. Their failure is in
  `InstallFails` and `Fault`.
* The CRI client of `pod_config.go` below `getPodConfig`: it negotiates an API
  version once and converts messages between two versions field by field; most
  of its methods are stubs.
* Credential types other than `ram_role_sts`, the construction of the ECS client,
  and the decryption of the token, which succeeds or fails with the reading of
  the Secret.
* Flags, metrics, health probes, generated code and charts.

## Known limits

What the code does or is exposed to that no property speaks of:

* The webhook injects the init container for any value of the annotation, where
  the README (line 92) names `"true"` and `PreStartContainer` parses a boolean: a pod
  annotated `"false"` gets SMC-R. `OnlyAskedFor` speaks of `PreStartContainer` only;
  of the webhook the same would be false.
* With the failure policy Ignore a pod created while the webhook does not answer has
  no SMC-R (`SmcrReady` speaks of pods the webhook saw). Without
  `enableInitContainerInject` in the configuration it dereferences nil; the chart
  always sets it.
* The comment "if interface is already up, don't config it to avoid traffic
  disruption" (`netdev.go` line 72) does not hold when the addresses of the link
  cannot be read: `hasNonLinkLocalAddr` drops the error and the link is configured
  again. `ConfiguredStays` says that nothing else disturbs it. On that path the
  default route is moved with SCOPE_LINK, unlike when it is created, and the kernel
  may refuse it (`MoveRefused`), which takes the link down.
* A link that another program has up with an address of its own is served without
  the ERI's address and routes; the code logs it (`netdev.go` lines 88 to 90).
* An attached ENI of the controller's own may be listed for two cards
  (`TwiceOnlyAttached` says when), and the ERdmaDevice then names one ENI twice.
* `GetCredential` does not compare the expiration of what it reads from the Secret
  with the clock; how the Secret is rotated is not part of the code, and
  `ValidCredential` does not hold a token against it that the Secret still has.
* `Allocate` skips a device it gave to an earlier container of the same request; the
  kubelet sends one container per request.
* With dockershim, and with the init container, an annotated pod in the host
  network changes the settings of the node: only the CRI branch of
  `getPodConfig` looks at the network mode.
* An id of a device that is no longer served makes `PreStartContainer` and
  `Allocate` dereference nil; the devices of a node are a constant here.
* `getPodConfig` finds the sandbox by name, so after a forced deletion it may
  find that of an earlier pod; pods of the model have distinct names.
* `PreStartContainer` of an init container with devices of its own depends on
  what the kubelet's version lists.
* `cleanup` removes the sockets of any agent of the node; there is one.
* A transient error of `IsJumboFrameEnabled` is recorded as false for good
  (`NodeJumbo`); the code logs it.
* A CABundle is never replaced, so deleting the Secret of the certificate breaks
  the webhook; it is not part of any documented procedure.
* An informer that lists again may merge a deletion and a new registration of a
  Node into one update, which the predicate drops. Node events are delivered one
  by one in the model, and `LetGoOnlyWithDevice` rests on it (`InSequence`).
* The unpadding of a decrypted credential trusts its last byte.

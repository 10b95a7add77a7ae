----------------------------- MODULE NodeAgent -----------------------------
(***************************************************************************)
(* The agent of a node from its start to the device plugin: Agent.Run      *)
(* (internal/agent/agent.go) with WaitEriInfo (internal/k8s/k8s.go) or,    *)
(* with localERIDiscovery, SelectERIs (internal/drivers/utils_linux.go),   *)
(* Install and ProbeDevice of a driver (internal/drivers).  Around it the  *)
(* controller creates the ERdmaDevice and attaches ENIs at its own pace,   *)
(* and the metadata server (module MetadataToken) answers when it can.  An *)
(* error ends the process and the kubelet restarts it: that is the agent's *)
(* only retry.                                                             *)
(***************************************************************************)
EXTENDS NetDevice, MetadataToken, Sequences

CONSTANTS
    Devices,      \* the links of the node that can be ERIs, in the order of the
                  \* kernel's list; also spec.devices of the ERdmaDevice
    JumboFrame,   \* spec.jumboFrame of the ERdmaDevice
    RuleLists,    \* the values of exposedLocalERIs; <<>> is the empty setting
    PreferDriver, \* --prefer-driver, or ""
    HasGPU,       \* nvidia-smi is installed on the node
    MaxFaults,    \* bound on failing calls
    MaxKills,     \* bound on kills of the process and failing undos
    MaxReboots,   \* bound on reboots of the node
    MaxTrouble    \* bound on all of these, the server's renewals and the links that
                  \* another program uses, together

ASSUME AgentAssumption ==
    /\ Devices \in Seq(Link \union {Primary})
    /\ RuleLists \subseteq Seq([id : STRING, valid : BOOLEAN,
                                devices : SUBSET (Link \union {Primary})])
    /\ JumboFrame \in BOOLEAN /\ HasGPU \in BOOLEAN
    /\ PreferDriver \in {"", "default", "compat", "ofed"}
    /\ MaxFaults \in Nat /\ MaxKills \in Nat /\ MaxReboots \in Nat /\ MaxTrouble \in Nat

VARIABLES
    local,      \* a.localERIDiscovery
    rules,      \* a.exposedLocalERIs
    instanceID, \* "own", or "" when it could not be read
    selected,   \* the devices Run is to serve, by their place in Devices
    todo,       \* those it has not probed yet
    listed,     \* the ERdmaDevice of the node is visible to the agent
    module,     \* the erdma kernel module: "absent" or its compat mode, "N" or "Y"
    attached,   \* the links whose ENI is attached to the instance
    rdma,       \* the links that have an RDMA device
    faults, kills, reboots

modeVars == <<local, rules>>
runVars  == <<instanceID, selected, todo>>
envVars  == <<listed, module, attached, rdma>>
budget   == <<faults, kills, reboots>>
vars == <<netVars, metaVars, modeVars, runVars, envVars, budget>>

NoLink == [up |-> FALSE, addr |-> FALSE, other |-> FALSE, jumbo |-> FALSE]

Init ==
    /\ \/ local = FALSE /\ rules = <<>> /\ jumboFrame = JumboFrame
       \/ local = TRUE /\ rules \in RuleLists /\ jumboFrame = FALSE
    /\ link = [l \in Link |-> NoLink]
    /\ routes = HostRoutes
    /\ pc = "wait" /\ cur = Primary
    /\ metric = [d \in Destination |-> 0] /\ unread = FALSE
    /\ MetaInit
    /\ instanceID = "" /\ selected = {} /\ todo = {}
    /\ listed = FALSE /\ module \in {"absent", "N", "Y"}
    /\ attached = {Primary} /\ rdma = {}
    /\ faults = 0 /\ kills = 0 /\ reboots = 0

---------------------------------------------------------------------------
(* The devices to serve                                                    *)

\* WaitEriInfo polls until the list of the node's ERdmaDevices is not empty.
WaitEriInfo ==
    /\ pc = "wait" /\ ~local
    /\ listed
    /\ selected' = DOMAIN Devices /\ todo' = selected'
    /\ pc' = "install"
    /\ UNCHANGED <<jumboFrame, link, routes, cur, metric, unread, metaVars, modeVars, instanceID,
                   envVars, budget>>

OfInstance(id) == {i \in DOMAIN rules : rules[i].id = id}

\* Mutation: a node that has a rule of its own also gets what "i-*" exposes.
checkExposeToAll(id, l) ==
    IF rules # <<>> /\ \E i \in DOMAIN rules : ~rules[i].valid THEN "error"
    ELSE IF rules = <<>> \/ \E i \in OfInstance(id) \union OfInstance("*") : l \in rules[i].devices
    THEN "yes" ELSE "no"

\* The rules in their order: one that is not well-formed is an error, one of the
\* instance that lists the device exposes it.  Without a rule of the instance,
\* the last rule for "i-*" decides.
checkExpose(id, l) ==
    LET decisive == {i \in DOMAIN rules :
                        ~rules[i].valid \/ (rules[i].id = id /\ l \in rules[i].devices)}
        others   == OfInstance("*")
        exposed  ==
            IF decisive # {} THEN rules[Min(decisive)].valid
            ELSE /\ OfInstance(id) = {} /\ others # {}
                 /\ l \in rules[Max(others)].devices
    IN  IF rules = <<>> \/ exposed THEN "yes" ELSE IF decisive # {} THEN "error" ELSE "no"

\* After the request for the instance ID, whose error is ignored: what is exposed
\* of the links found to have an RDMA device.
SelectAmong(found) ==
    /\ pc = "wait" /\ local
    /\ mpc \in {"ok", "failed", "rejected"} /\ EndCall
    /\ LET id == IF mpc = "ok" THEN "own" ELSE "" IN
       IF \E l \in found : checkExpose(id, l) = "error"
       THEN pc' = "exit" /\ UNCHANGED runVars
       ELSE /\ instanceID' = id
            /\ selected' = {i \in DOMAIN Devices :
                              Devices[i] \in found /\ checkExpose(id, Devices[i]) = "yes"}
            /\ todo' = selected'
            /\ pc' = "install"
    /\ UNCHANGED <<jumboFrame, link, routes, cur, metric, unread>>

SelectERIs == SelectAmong(rdma) /\ UNCHANGED <<modeVars, envVars, budget>>

\* A link whose GetERdmaFromLink fails is passed over like one without a device.
PassedOver == \E l \in rdma : SelectAmong(rdma \ {l})

---------------------------------------------------------------------------
(* Install and probe                                                       *)

GetDriver == IF PreferDriver # "" THEN PreferDriver ELSE IF HasGPU THEN "ofed" ELSE "default"

\* The drivers differ in the mode they load the kernel module in.
CompatMode == IF GetDriver = "default" THEN "N" ELSE "Y"

\* The RDMA devices go with the module.
SetModule(m) == module' = m /\ rdma' = IF module \in {"absent", m} THEN rdma ELSE {}

Install ==
    /\ pc = "install"
    /\ SetModule(CompatMode)
    /\ pc' = "probe"
    /\ UNCHANGED <<jumboFrame, link, routes, cur, metric, unread, metaVars, modeVars, runVars,
                   listed, attached, budget>>

\* Any of its commands fails: rmmod, which only a module in the other mode needs,
\* modprobe, or what comes after it.
InstallFails ==
    /\ pc = "install"
    /\ \E m \in {module, CompatMode} \union
               (IF module = CompatMode THEN {} ELSE {"absent"}) : SetModule(m)
    /\ pc' = "exit"
    /\ UNCHANGED <<jumboFrame, link, routes, cur, metric, unread, listed, attached>>

\* The loop over the devices, in their order; a device whose link is not there
\* ends Run.
ProbeNext ==
    /\ pc = "probe"
    /\ \/ /\ todo # {}
          /\ cur' = Devices[Min(todo)]
          /\ pc' = IF cur' \in attached THEN "conf" ELSE "exit"
       \/ todo = {} /\ pc' = "pnet" /\ UNCHANGED cur
    /\ UNCHANGED <<jumboFrame, link, routes, metric, unread, metaVars, modeVars, runVars,
                   envVars, budget>>

\* GetERdmaFromLink and the rest of ProbeDevice.
ProbeRdma ==
    /\ pc = "rdma"
    /\ \/ /\ cur \in rdma
          /\ todo' = todo \ {Min(todo)}
          /\ pc' = "probe"
       \/ /\ cur \notin rdma
          /\ pc' = "exit"
          /\ UNCHANGED todo
    /\ metric' = [d \in Destination |-> 0] /\ unread' = FALSE
    /\ UNCHANGED <<jumboFrame, link, routes, cur, metaVars, modeVars, instanceID, selected,
                   envVars, budget>>

\* ConfigSMCPnetForDevice of each device that can do SMC-R; its errors are
\* logged.  Then the device plugin.
ConfigSMCPnet ==
    /\ pc = "pnet"
    /\ pc' = "serving"
    /\ UNCHANGED <<jumboFrame, link, routes, cur, metric, unread, metaVars, modeVars, runVars,
                   envVars, budget>>

---------------------------------------------------------------------------
(* The requests to the metadata server: the instance ID, and the address,  *)
(* vswitch and gateway of a link, which are one request here.              *)

NeedsMetadata == (pc = "wait" /\ local) \/ (pc = "conf" /\ cur # Primary)

Request ==
    /\ NeedsMetadata
    /\ BeginCall \/ getWithToken \/ TransientError
    /\ UNCHANGED <<netVars, modeVars, runVars, envVars, budget>>

\* getNetConfFromMetadata has failed.
NoConf ==
    /\ pc = "conf" /\ mpc \in {"failed", "rejected"} /\ EndCall
    /\ pc' = "exit"
    /\ UNCHANGED <<jumboFrame, link, routes, cur, metric, unread, modeVars, runVars, envVars,
                   budget>>

Configure ==
    /\ IF NeedsMetadata THEN mpc = "ok" /\ EndCall ELSE UNCHANGED metaVars
    /\ EnsureNetDevice
    /\ UNCHANGED <<modeVars, runVars, envVars, budget>>

Restart ==
    /\ pc = "exit"
    /\ pc' = "wait"
    /\ ForgetToken
    /\ instanceID' = "" /\ selected' = {} /\ todo' = {}
    /\ cur' = Primary /\ metric' = [d \in Destination |-> 0] /\ unread' = FALSE
    /\ UNCHANGED <<jumboFrame, link, routes, modeVars, envVars, budget>>

Run == \/ WaitEriInfo \/ SelectERIs \/ Install \/ ProbeNext \/ ProbeRdma \/ ConfigSMCPnet
       \/ Request \/ NoConf \/ Configure \/ Restart

---------------------------------------------------------------------------
(* The node, the controller and the metadata server                        *)

ListDevice ==
    /\ ~local /\ ~listed
    /\ listed' = TRUE
    /\ UNCHANGED <<netVars, metaVars, modeVars, runVars, module, attached, rdma, budget>>

\* With local discovery ENIs are attached by others, at any time.
AttachENI(l) ==
    /\ listed \/ local
    /\ l \notin attached
    /\ attached' = attached \union {l}
    /\ UNCHANGED <<netVars, metaVars, modeVars, runVars, listed, module, rdma, budget>>

\* The loaded driver finds an attached ERI.
CreateRdma(l) ==
    /\ module # "absent" /\ l \in attached /\ l \notin rdma
    /\ rdma' = rdma \union {l}
    /\ UNCHANGED <<netVars, metaVars, modeVars, runVars, listed, module, attached, budget>>

InUseByOthers == {l \in Link : link[l].other}

Spared ==
    faults + kills + reboots + (epoch - 1) + Cardinality(InUseByOthers) < MaxTrouble

MetadataServer ==
    /\ (Spared /\ ResetTokens) \/ ExpireToken
    /\ UNCHANGED <<netVars, modeVars, runVars, envVars, budget>>

Fault ==
    /\ faults < MaxFaults /\ Spared
    /\ faults' = faults + 1
    /\ \/ (StepFails \/ LookFails) /\ UNCHANGED <<metaVars, runVars, envVars>>
       \/ InstallFails /\ UNCHANGED <<metaVars, runVars>>
       \/ PassedOver /\ UNCHANGED envVars
       \/ /\ NeedsMetadata /\ (RetriesExhausted \/ Rejected)
          /\ UNCHANGED <<netVars, runVars, envVars>>
       \/ /\ pc \in {"wait", "probe", "rdma", "pnet"}
          /\ pc' = "exit"
          /\ UNCHANGED <<jumboFrame, link, routes, cur, metric, unread, metaVars, runVars,
                         envVars>>
    /\ UNCHANGED <<modeVars, kills, reboots>>

Kill ==
    /\ kills < MaxKills /\ Spared
    /\ kills' = kills + 1
    /\ \/ UndoFails
       \/ /\ pc # "exit"
          /\ pc' = "exit"
          /\ UNCHANGED <<jumboFrame, link, routes, cur, metric, unread>>
    /\ UNCHANGED <<metaVars, modeVars, runVars, envVars, faults, reboots>>

\* The kernel's state is gone; the host configures its own link.
Reboot ==
    /\ reboots < MaxReboots /\ Spared
    /\ reboots' = reboots + 1
    /\ link' = [l \in Link |-> NoLink]
    /\ routes' = HostRoutes
    /\ module' = "absent" /\ rdma' = {}
    /\ pc' = "exit"
    /\ UNCHANGED <<jumboFrame, cur, metric, unread, metaVars, modeVars, runVars, listed, attached,
                   faults, kills>>

OtherProgram ==
    /\ Spared
    /\ \E l \in Link \intersect attached : UseLink(l)
    /\ UNCHANGED <<metaVars, modeVars, runVars, envVars, budget>>

Serving == pc = "serving" /\ UNCHANGED vars

Surroundings ==
    ListDevice \/ \E l \in Link \union {Primary} : AttachENI(l) \/ CreateRdma(l)

Next ==
    \/ Run \/ Serving
    \/ Surroundings \/ MetadataServer \/ OtherProgram
    \/ Fault \/ Kill \/ Reboot

Spec == Init /\ [][Next]_vars

\* The process runs and is restarted; the controller creates the ERdmaDevice
\* and attaches its ENIs (module ErdmaController); the driver finds them.
FairSpec ==
    /\ Spec
    /\ WF_vars(Run)
    /\ WF_vars(Surroundings)

---------------------------------------------------------------------------
(* Properties                                                              *)

AllConfigured ==
    \A i \in selected :
        /\ Devices[i] \in rdma
        /\ Devices[i] \in Link => Configured(Devices[i]) \/ Lent(Devices[i])

\* When the device plugin serves, every device it serves is configured and has
\* its RDMA device, however many attempts failed on the way, as long as
\* EnsureNetDevice got to run its deferred LinkSetDown after every failure.  The
\* exception is a link that another program brought up with an address of its
\* own: of its configuration only the MTU is sure (netdev.go logs that the address
\* is missing and goes on).
ServedConfigured == pc = "serving" /\ kills = 0 => AllConfigured

\* A later attempt also reconfigures what an attempt that was cut off left:
\* netdev.go sets the link down "to make sure reconfig on crashLoop".
ReconfiguredOnCrashLoop == pc = "serving" => AllConfigured

\* "If interface is already up, don't config it to avoid traffic disruption":
\* whatever fails, is killed or restarted, a link that is configured stays so.
\* Besides a reboot only an attempt at this very link that cannot read its
\* addresses breaks it: hasNonLinkLocalAddr drops that error, so the routes are
\* replaced, and the deferred LinkSetDown takes the link down if that fails.
ConfiguredStays ==
    [][reboots' = reboots =>
        \A l \in Link : Configured(l) /\ ~(unread /\ l = cur) => Configured(l)']_vars

\* What the README says of exposedLocalERIs: a node that is specified exposes the
\* devices specified for it, any other node those of the rules for "i-*".
Documented(l) ==
    LET own == OfInstance("own") IN
    rules # <<>> => \E i \in (IF own # {} THEN own ELSE OfInstance("*")) : l \in rules[i].devices

\* With local discovery no device is served that the rules do not expose on this
\* node, unless the instance ID could not be read: SelectERIs then treats the
\* node as one that is not specified.
ServesExposed ==
    pc = "serving" /\ local /\ instanceID = "own" =>
        \A i \in selected : Documented(Devices[i])

\* Failures, kills and reboots do not keep the agent from serving in the end:
\* whatever state the links were left in, a later attempt gets through.  Only a
\* list of rules that checkExpose refuses keeps it from serving.  What local
\* discovery serves then may be a part, or none, of the devices: it takes the
\* links that have their RDMA device at that moment.
EventuallyServes == <>[](pc = "serving" \/ \E i \in DOMAIN rules : ~rules[i].valid)

\* The agent ends up serving under every list of rules the README documents.
DocumentedRulesServe == <>[](pc = "serving")
===========================================================================

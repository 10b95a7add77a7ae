------------------------------ MODULE PodSetup ------------------------------
(***************************************************************************)
(* What the program does for a pod that asks for RDMA devices and SMC-R:   *)
(* the pod webhook (internal/webhook/mutating.go), Allocate and            *)
(* PreStartContainer of the device plugin (internal/deviceplugin) and the  *)
(* init container smcr_init (cmd/smcr_init).  Module PodStart adds the     *)
(* kubelet that calls them.                                                *)
(*                                                                         *)
(* A job is one run of PreStartContainer or of smcr_init; one action is    *)
(* one call to the kubelet, to the container runtime or to a command in    *)
(* the pod's network namespace.                                            *)
(***************************************************************************)
EXTENDS Naturals, FiniteSetsExt, SequencesExt

CONSTANTS
    Pod,
    Device,   \* the ERDMA devices of the node
    Shares,   \* how many ids ListAndWatch makes of a device (200 in the code)
    Late,     \* names for the calls of a pod the kubelet gave up: a bound on them
    Host,     \* the network namespace of the node
    None

ASSUME PodAssumption ==
    /\ Shares \in Nat \ {0} /\ IsFiniteSet(Device) /\ IsFiniteSet(Pod)
    /\ Late \subseteq STRING \ {"init", "call"}
    /\ Host \notin Pod /\ None \notin Pod \union Device \union {Host}

VARIABLES
    spec,     \* of each pod: value of the annotation, host network, devices wanted
    config,   \* configuration of controller and agent, and the node's runtime and kernel
    ids,      \* the device ids the kubelet assigned to each container of a pod
    live,     \* the pods whose devices the kubelet accounts for
    sandbox,  \* the number of the pod's last sandbox
    up,       \* the pods whose sandbox is up
    netns,    \* the SMC-R settings of each network namespace
    job       \* the jobs

ID == Device \X (1..Shares)
DevicesOf(s) == {id[1] : id \in s}

Clean == [tcp2smc |-> FALSE, noIPv6 |-> FALSE, pnet |-> None]
Idle  == [pc |-> "idle", pod |-> None, epoch |-> 0, dev |-> None]

\* "init" is the init container, "call" the call the kubelet waits for, the others
\* are those it gave up while the handler goes on.
Job == Pod \X ({"init", "call"} \union Late)

NetnsOf(p) == IF spec[p].host THEN Host ELSE p

\* The answer of a late call goes nowhere.
After(j, pc) ==
    IF pc \notin {"ok", "failed"} THEN [job[j] EXCEPT !.pc = pc]
    ELSE IF j[2] \in Late THEN Idle ELSE [Idle EXCEPT !.pc = pc]

Move(j, pc) == job' = [job EXCEPT ![j] = After(j, pc)]

---------------------------------------------------------------------------
(* The configuration and the webhook                                       *)

\* parseConfig: webhook and device plugin are on unless they are switched off.
parseConfig(file) ==
    [webhook |-> file.webhook # "false", devicePlugin |-> file.devicePlugin # "false",
     inject |-> file.inject = "true"]

\* MutatingHook and podWebhook: does the pod get the init container?  Any value
\* of the annotation will do.
podWebhook(p) ==
    LET c == parseConfig(config.file) IN
    /\ c.webhook
    /\ spec[p].want > 0 /\ c.devicePlugin
    /\ spec[p].smcr # "absent" /\ c.inject

---------------------------------------------------------------------------
(* Allocate                                                                *)

\* What a container of the request asks for: the devices of its ids, or all of
\* them with allocAllDevices.
Asked(s) == IF config.allocAll THEN Device ELSE DevicesOf(s)

\* The answers that are not empty, in the order of the containers.
Responses(given) ==
    LET served == {i \in DOMAIN given : given[i] # {}}
        nth(k) == CHOOSE i \in served : Cardinality({h \in served : h <= i}) = k
    IN  [k \in 1..Cardinality(served) |-> given[nth(k)]]

\* The devices each container of the request is given: those it asks for without
\* those an earlier container of the same request was given; a container that is
\* left with none gets no response.  (With rdma_cm it would get that file only.
\* Requests of the kubelet have one container.)
Allocate(reqs) ==
    Responses([i \in DOMAIN reqs |->
                 Asked(reqs[i]) \ UNION {Asked(reqs[k]) : k \in 1..(i - 1)}])

---------------------------------------------------------------------------
(* PreStartContainer: the lookup                                           *)

runtimeEndpoints == <<"dockershim", "containerd", "k3s", "cri-dockerd">>

\* initCriClient: the socket RUNTIME_SOCK names, or else the first candidate that
\* answers.  Behind dockershim it is the docker client that is talked to, and has
\* to be there.
initCriClient(c) ==
    LET eps == IF c.sock = "unset" THEN runtimeEndpoints ELSE <<c.sock>>
        i   == SelectInSeq(eps, LAMBDA e : e \in c.serving /\ (e = "dockershim" => c.docker))
    IN  IF i = 0 THEN "none" ELSE IF eps[i] = "dockershim" THEN "docker" ELSE "cri"

\* Mutation: pods are told apart by the name of the device, which they share.
getPodDevicesByName(id) ==
    {p \in live : id[1] \in DevicesOf(ids[p]["app"])}

\* getPodDevices asks the kubelet, which lists application containers only.
getPodDevices(id) == {p \in live : id \in ids[p]["app"]}

\* getDevPod finds the pod of the first id of the request; the kubelet sends
\* the ids in any order.
getDevPod(j) ==
    /\ job[j].pc = "lookup"
    /\ \E id \in ids[j[1]]["app"] :
          \/ /\ getPodDevices(id) = {}
             /\ Move(j, "failed")
          \/ \E p \in getPodDevices(id) :
                job' = [job EXCEPT ![j].pc = "config", ![j].pod = p]
    /\ UNCHANGED <<spec, config, ids, live, sandbox, up, netns>>

\* strconv.ParseBool of the annotation.
ParseBool(s) == IF s \in {"true", "false"} THEN s ELSE "error"

\* Mutation: a pod in the host network is treated as any other.
SMCRAnywhere(p) ==
    IF spec[p].smcr \in {"absent", "empty"} THEN "false" ELSE ParseBool(spec[p].smcr)

\* Mutation: the annotation asks for it, whatever its value.
SMCROfAnyValue(p) ==
    IF \/ spec[p].smcr = "absent"
       \/ initCriClient(config) = "cri" /\ (spec[p].host \/ spec[p].smcr = "empty")
    THEN "false"
    ELSE "true"

\* podConfig.SMCR.  Only the CRI branch looks at the network mode, and only it
\* takes an empty annotation for none.
SMCR(p) ==
    IF \/ spec[p].smcr = "absent"
       \/ initCriClient(config) = "cri" /\ (spec[p].host \/ spec[p].smcr = "empty")
    THEN "false"
    ELSE ParseBool(spec[p].smcr)

\* getPodConfig: the sandbox of that name that is up, its namespace and its
\* annotation.  The pnet ID will be that of the last device of the request.
getPodConfig(j) ==
    /\ job[j].pc = "config"
    /\ LET p == job[j].pod IN
       \/ p \notin up /\ Move(j, "failed")
       \/ p \in up /\ SMCR(p) = "error" /\ Move(j, "failed")
       \/ p \in up /\ SMCR(p) = "false" /\ Move(j, "ok")
       \/ /\ p \in up /\ SMCR(p) = "true"
          /\ \E d \in DevicesOf(ids[j[1]]["app"]) :
                job' = [job EXCEPT ![j] = [pc |-> "tcp2smc", pod |-> p,
                                           epoch |-> sandbox[p], dev |-> d]]
    /\ UNCHANGED <<spec, config, ids, live, sandbox, up, netns>>

---------------------------------------------------------------------------
(* The settings: PreStartContainer from outside, smcr_init from inside     *)

\* The namespace the job works in is still there.
Reaches(j) ==
    LET p == job[j].pod IN NetnsOf(p) = Host \/ (p \in up /\ sandbox[p] = job[j].epoch)

SetIn(j, settings, pc) ==
    /\ netns' = [netns EXCEPT ![NetnsOf(job[j].pod)] = settings]
    /\ Move(j, pc)
    /\ UNCHANGED <<spec, config, ids, live, sandbox, up>>

Settings(j) == netns[NetnsOf(job[j].pod)]

SetTcp2smc(j) ==
    /\ job[j].pc = "tcp2smc" /\ Reaches(j) /\ config.kernel
    /\ SetIn(j, [Settings(j) EXCEPT !.tcp2smc = TRUE], "ipv6")

DisableIPv6(j) ==
    /\ job[j].pc = "ipv6" /\ Reaches(j)
    /\ SetIn(j, [Settings(j) EXCEPT !.noIPv6 = TRUE], "show")

\* Mutation: eth0 is added without a look at the table.
ShowPnetUnread(j) ==
    /\ job[j].pc = "show" /\ Reaches(j)
    /\ SetIn(j, Settings(j), "add")

\* smc_pnet -s; an interface that is in the table is left as it is.
ShowPnet(j) ==
    /\ job[j].pc = "show" /\ Reaches(j)
    /\ SetIn(j, Settings(j), IF Settings(j).pnet # None THEN "ok" ELSE "add")

\* smc_pnet -a, which the kernel refuses for an interface that got there first.
AddPnet(j) ==
    /\ job[j].pc = "add" /\ Reaches(j)
    /\ IF Settings(j).pnet # None
       THEN SetIn(j, Settings(j), "failed")
       ELSE SetIn(j, [Settings(j) EXCEPT !.pnet = job[j].dev], "ok")

\* The namespace is gone, or the kernel has no net.smc.tcp2smc.
CannotSet(j) ==
    /\ job[j].pc \in {"tcp2smc", "ipv6", "show", "add"}
    /\ ~Reaches(j) \/ (job[j].pc = "tcp2smc" /\ ~config.kernel)
    /\ Move(j, "failed")
    /\ UNCHANGED <<spec, config, ids, live, sandbox, up, netns>>

\* Any call fails: the handler returns the error, smcr_init exits.
JobFails(j) ==
    /\ job[j].pc \in {"lookup", "config", "tcp2smc", "ipv6", "show", "add"}
    /\ Move(j, "failed")
    /\ UNCHANGED <<spec, config, ids, live, sandbox, up, netns>>

JobStep(j) ==
    \/ getDevPod(j) \/ getPodConfig(j)
    \/ SetTcp2smc(j) \/ DisableIPv6(j) \/ ShowPnet(j) \/ AddPnet(j) \/ CannotSet(j)
===========================================================================

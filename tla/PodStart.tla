------------------------------ MODULE PodStart ------------------------------
(***************************************************************************)
(* The start of pods on a node: module PodSetup under the kubelet, which   *)
(* admits a pod with one Allocate call per container, makes its sandbox,   *)
(* runs the init container and calls PreStartContainer before every start  *)
(* of the application container.  Meanwhile sandboxes and containers die,  *)
(* the agent is restarted, calls fail and the kubelet stops waiting for    *)
(* one of them.                                                            *)
(*                                                                         *)
(* The kubelet is external and modelled from how the code uses it.         *)
(***************************************************************************)
EXTENDS PodSetup

CONSTANTS
    Specs,    \* the pods to start: a set of functions from Pod
    Configs,  \* the configurations
    MaxFaults \* bound on failures, deaths and expired calls

\* The chart passes --deviceplugin-prestart-container if and only if it does not
\* enable the webhook.
ASSUME StartAssumption ==
    /\ MaxFaults \in Nat
    /\ Specs \subseteq [Pod -> [smcr : STRING, host : BOOLEAN, want : Nat]]
    /\ \A c \in Configs : c.preStart \in BOOLEAN /\ (c.preStart <=> c.file.webhook = "false")

VARIABLES
    kube,      \* where the kubelet is with each pod
    answered,  \* the pods the webhook saw
    injected,  \* the pods with the init container
    inited,    \* the pods whose init container is done in this sandbox
    granted,   \* the devices Allocate gave each container
    pnetEnv,   \* the pnet ID in the environment of the init container
    agent,     \* the agent serves
    faults

setupVars == <<spec, config, ids, live, sandbox, up, netns, job>>
kubeVars  == <<kube, answered, injected, inited, granted, pnetEnv>>
vars == <<setupVars, kubeVars, agent, faults>>

Init ==
    /\ spec \in Specs /\ config \in Configs
    /\ ids = [p \in Pod |-> [c \in {"init", "app"} |-> {}]]
    /\ granted = [p \in Pod |-> [c \in {"init", "app"} |-> {}]]
    /\ pnetEnv = [p \in Pod |-> None]
    /\ live = {} /\ up = {} /\ answered = {} /\ injected = {} /\ inited = {}
    /\ sandbox = [p \in Pod |-> 0]
    /\ netns = [n \in Pod \union {Host} |-> Clean]
    /\ job = [j \in Job |-> Idle]
    /\ kube = [p \in Pod |-> "new"]
    /\ agent = TRUE /\ faults = 0

KubeMove(p, s) == kube' = [kube EXCEPT ![p] = s]

Disturb == faults < MaxFaults /\ faults' = faults + 1

---------------------------------------------------------------------------
(* Admission                                                               *)

\* The pod is created.  The failure policy of the webhook is Ignore.
Create(p) ==
    /\ kube[p] = "new"
    /\ \/ /\ answered' = answered \union {p}
          /\ injected' = injected \union {q \in {p} : podWebhook(q)}
          /\ UNCHANGED faults
       \/ parseConfig(config.file).webhook /\ Disturb /\ UNCHANGED <<answered, injected>>
    /\ live' = live \union {p}
    /\ KubeMove(p, IF spec[p].want = 0 THEN "sync" ELSE "admit")
    /\ UNCHANGED <<spec, config, ids, sandbox, up, netns, job, inited, granted, pnetEnv,
                   agent>>

\* The ids to assign next: which share of a device is taken makes no difference.
Free ==
    LET free == ID \ UNION {ids[p][c] : p \in live, c \in {"init", "app"}} IN
    {id \in free : \A i \in 1..(id[2] - 1) : <<id[1], i>> \notin free}

\* The ids for the next container of the pod: the application container takes
\* over that of the init container.
Assignable(p, c) ==
    CASE c = "init" -> kSubset(1, Free)
      [] c = "app"  -> {ids[p]["init"] \union s :
                          s \in kSubset(spec[p].want - Cardinality(ids[p]["init"]), Free)}

NextContainer(p) ==
    IF p \in injected /\ ids[p]["init"] = {} THEN "init" ELSE "app"

CallAllocate(p) ==
    /\ kube[p] = "admit" /\ agent
    /\ LET c == NextContainer(p) IN
       \E s \in Assignable(p, c) :
          LET responses == Allocate(<<s>>) IN
          /\ 1 \in DOMAIN responses
          /\ granted' = [granted EXCEPT ![p][c] = responses[1]]
          /\ \/ c = "init" /\ \E d \in responses[1] : pnetEnv' = [pnetEnv EXCEPT ![p] = d]
             \/ c = "app"  /\ UNCHANGED pnetEnv
          /\ ids' = [ids EXCEPT ![p][c] = s]
          /\ KubeMove(p, IF c = "app" THEN "sync" ELSE "admit")
    /\ UNCHANGED <<spec, config, live, sandbox, up, netns, job, answered, injected,
                   inited, agent, faults>>

\* Too few ids are free, the agent does not answer or the call fails: the pod is
\* failed for good.
Reject(p) ==
    /\ kube[p] = "admit"
    /\ \/ Assignable(p, NextContainer(p)) = {} /\ UNCHANGED faults
       \/ ~agent /\ UNCHANGED faults
       \/ Disturb
    /\ KubeMove(p, "rejected")
    /\ live' = live \ {p}
    /\ UNCHANGED <<spec, config, ids, sandbox, up, netns, job, answered, injected,
                   inited, granted, pnetEnv, agent>>

---------------------------------------------------------------------------
(* Start                                                                   *)

CreateSandbox(p) ==
    /\ kube[p] = "sync" /\ p \notin up
    /\ up' = up \union {p}
    /\ sandbox' = [sandbox EXCEPT ![p] = @ + 1]
    /\ UNCHANGED <<spec, config, ids, live, netns, job, kubeVars, agent, faults>>

\* smcr_init starts with the pnet ID of Allocate in its environment; when it
\* fails it is started again.
RunInit(p) ==
    /\ kube[p] = "sync" /\ p \in up
    /\ p \in injected /\ p \notin inited
    /\ LET j == <<p, "init">> IN
       \/ /\ job[j].pc \in {"idle", "failed"}
          /\ job' = [job EXCEPT ![j] = [pc |-> "tcp2smc", pod |-> p, epoch |-> sandbox[p],
                                        dev |-> pnetEnv[p]]]
          /\ UNCHANGED inited
       \/ /\ job[j].pc = "ok"
          /\ job' = [job EXCEPT ![j] = Idle]
          /\ inited' = inited \union {p}
    /\ UNCHANGED <<spec, config, ids, live, sandbox, up, netns, kube, answered, injected,
                   granted, pnetEnv, agent, faults>>

ReadyToStart(p) == kube[p] = "sync" /\ p \in up /\ (p \in injected => p \in inited)

PreStartRequired(p) == config.preStart /\ spec[p].want > 0

StartContainer(p) ==
    /\ ReadyToStart(p)
    /\ \/ /\ ~PreStartRequired(p)
          /\ KubeMove(p, "running")
          /\ UNCHANGED job
       \/ /\ PreStartRequired(p) /\ agent
          /\ job' = [job EXCEPT ![<<p, "call">>] = [Idle EXCEPT !.pc = "lookup"]]
          /\ KubeMove(p, "calling")
    /\ UNCHANGED <<spec, config, ids, live, sandbox, up, netns, answered, injected, inited,
                   granted, pnetEnv, agent, faults>>

\* The answer of PreStartContainer; a container is not started in a sandbox that
\* is gone, and a failed start is tried again.
PreStartReturns(p) ==
    /\ kube[p] = "calling"
    /\ job[<<p, "call">>].pc \in {"ok", "failed"}
    /\ KubeMove(p, IF job[<<p, "call">>].pc = "ok" /\ p \in up THEN "running" ELSE "sync")
    /\ job' = [job EXCEPT ![<<p, "call">>] = Idle]
    /\ UNCHANGED <<spec, config, ids, live, sandbox, up, netns, answered, injected, inited,
                   granted, pnetEnv, agent, faults>>

\* Names for calls to give up; which one is taken makes no difference.
Unused(p) == {l \in Late : job[<<p, l>>] = Idle}

\* The call expires after 30 seconds, or the kubelet is restarted; the handler
\* does not look at its context and goes on, next to any it gave up before.
PreStartExpires(p) ==
    /\ kube[p] = "calling" /\ Disturb
    /\ job[<<p, "call">>].pc \notin {"ok", "failed"}
    /\ Unused(p) # {}
    /\ LET l == CHOOSE l \in Unused(p) : TRUE IN
       job' = [job EXCEPT ![<<p, l>>] = job[<<p, "call">>], ![<<p, "call">>] = Idle]
    /\ KubeMove(p, "sync")
    /\ UNCHANGED <<spec, config, ids, live, sandbox, up, netns, answered, injected, inited,
                   granted, pnetEnv, agent>>

---------------------------------------------------------------------------
(* Failures                                                                *)

StepFails(j) ==
    /\ Disturb /\ JobFails(j)
    /\ UNCHANGED <<kubeVars, agent>>

ContainerDies(p) ==
    /\ kube[p] = "running" /\ Disturb
    /\ KubeMove(p, "sync")
    /\ UNCHANGED <<setupVars, answered, injected, inited, granted, pnetEnv, agent>>

\* All containers of the pod die with it, and its namespace is gone.
SandboxDies(p) ==
    /\ p \in up /\ Disturb
    /\ up' = up \ {p}
    /\ inited' = inited \ {p}
    /\ job' = [job EXCEPT ![<<p, "init">>] = Idle]
    /\ netns' = [netns EXCEPT ![p] = Clean]
    /\ KubeMove(p, IF kube[p] = "running" THEN "sync" ELSE kube[p])
    /\ UNCHANGED <<spec, config, ids, live, sandbox, answered, injected, granted, pnetEnv, agent>>

\* The calls the agent was handling fail; late ones are gone.
AgentDies ==
    /\ agent /\ Disturb
    /\ agent' = FALSE
    /\ job' = [j \in Job |->
                 CASE j[2] = "call" /\ job[j] # Idle -> [Idle EXCEPT !.pc = "failed"]
                   [] j[2] \in Late                   -> Idle
                   [] OTHER                          -> job[j]]
    /\ UNCHANGED <<spec, config, ids, live, sandbox, up, netns, kubeVars>>

\* With --deviceplugin-prestart-container the plugin needs a runtime to talk to.
AgentStarts ==
    /\ ~agent
    /\ config.preStart => initCriClient(config) # "none"
    /\ agent' = TRUE
    /\ UNCHANGED <<setupVars, kubeVars, faults>>

Delete(p) ==
    /\ kube[p] \in {"sync", "running"}
    /\ KubeMove(p, "gone")
    /\ live' = live \ {p}
    /\ up' = up \ {p}
    /\ job' = [job EXCEPT ![<<p, "init">>] = Idle]
    /\ netns' = [netns EXCEPT ![p] = Clean]
    /\ inited' = inited \ {p}
    /\ UNCHANGED <<spec, config, ids, sandbox, answered, injected, granted, pnetEnv, agent,
                   faults>>

---------------------------------------------------------------------------

Kubelet(p) ==
    \/ Create(p) \/ CallAllocate(p) \/ Reject(p) \/ CreateSandbox(p) \/ RunInit(p)
    \/ StartContainer(p) \/ PreStartReturns(p)

Settle(p) == kube[p] \in {"running", "rejected", "gone"}

Resting == (\A p \in Pod : Settle(p)) /\ UNCHANGED vars

Next ==
    \/ \E p \in Pod : \/ Kubelet(p) \/ PreStartExpires(p)
                      \/ ContainerDies(p) \/ SandboxDies(p) \/ Delete(p)
    \/ \E j \in Job : \/ JobStep(j) /\ UNCHANGED <<kubeVars, agent, faults>>
                      \/ StepFails(j)
    \/ AgentDies \/ AgentStarts \/ Resting

Spec == Init /\ [][Next]_vars

\* The kubelet works on a pod, or what it waits for does, and the agent is
\* restarted.  Calls it gave up need not end.
Progress(p) ==
    \/ Kubelet(p)
    \/ \E k \in {"init", "call"} :
          JobStep(<<p, k>>) /\ UNCHANGED <<kubeVars, agent, faults>>

FairSpec ==
    /\ Spec
    /\ \A p \in Pod : WF_vars(Progress(p))
    /\ WF_vars(AgentStarts)

---------------------------------------------------------------------------
(* Properties                                                              *)

\* A pod for which SMC-R is to be set up: it is annotated "true" and has a
\* device, and the webhook saw it and injects, or PreStartContainer is used (which
\* leaves a pod in the host network alone under a CRI runtime).
WantsSMCR(p) ==
    /\ spec[p].smcr = "true" /\ spec[p].want > 0
    /\ IF config.preStart
       THEN spec[p].host => initCriClient(config) = "docker"
       ELSE /\ p \in answered
            /\ parseConfig(config.file).devicePlugin /\ parseConfig(config.file).inject

\* The pods that are gone and had an id the pod has now: a call for one of them
\* that the kubelet gave up finds this pod, and uses a device of the other.
Strays(p) == {q \in Pod \ live : ids[q]["app"] \intersect ids[p]["app"] # {}}

\* A container of a pod that asks for SMC-R never runs without it: its namespace,
\* however often the sandbox was replaced, the agent restarted or a call given
\* up and repeated, redirects TCP, has no IPv6 and ties eth0 to a device whose
\* files the container was given, or, after a call that outlived its pod, to one
\* of that pod.
SmcrReady ==
    \A p \in Pod : kube[p] = "running" /\ WantsSMCR(p) =>
        LET n == netns[NetnsOf(p)] IN
        /\ n.tcp2smc /\ n.noIPv6 /\ n.pnet # None
        /\ ~spec[p].host => n.pnet \in granted[p]["app"] \union
                                UNION {DevicesOf(ids[q]["app"]) : q \in Strays(p)}

\* PreStartContainer changes the namespace of a pod only if the pod is annotated
\* "true", also in a call that was given up, whose devices may belong to another
\* pod by now.  (Nothing is said of the webhook, which takes any value of the
\* annotation, "false" too, for a wish to have SMC-R.)
OnlyAskedFor ==
    config.preStart => \A p \in Pod : netns[p] # Clean => spec[p].smcr = "true"

\* With a CRI runtime PreStartContainer never touches the namespace of the node.
HostUntouched ==
    config.preStart /\ initCriClient(config) = "cri" => netns[Host] = Clean

\* What keeps a pod from starting for good: an annotation PreStartContainer
\* cannot parse, or a kernel without SMC-R.
Refused(p) ==
    \/ config.preStart /\ (SMCR(p) = "error" \/ (SMCR(p) = "true" /\ ~config.kernel))
    \/ p \in injected /\ ~config.kernel

\* Every pod runs, is refused at its admission or deleted in the end: a failed,
\* repeated or abandoned set-up leaves nothing that makes the next one fail.
PodsSettle == \A p \in Pod : <>[](Settle(p) \/ Refused(p))
===========================================================================

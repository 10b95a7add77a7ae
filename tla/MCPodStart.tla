---------------------------- MODULE MCPodStart ----------------------------
(* PodStart for TLC: a pod of each kind next to a plain one, and two pods  *)
(* that ask for SMC-R.                                                     *)
EXTENDS PodStart

CONSTANTS p1, p2

\* p1 is of every kind; p2 shares the devices and wants nothing else.
MCSpecs ==
    {[p \in Pod |-> IF p = p1 THEN s ELSE [smcr |-> "absent", host |-> FALSE, want |-> 1]] :
        s \in {[smcr |-> "true", host |-> FALSE, want |-> 1],
               [smcr |-> "true", host |-> FALSE, want |-> 0],
               [smcr |-> "true", host |-> TRUE,  want |-> 1],
               [smcr |-> "false", host |-> FALSE, want |-> 1],
               [smcr |-> "empty", host |-> FALSE, want |-> 1],
               [smcr |-> "bad",   host |-> FALSE, want |-> 1]}}
    \union {[p \in Pod |-> [smcr |-> "true", host |-> FALSE, want |-> IF p = p1 THEN 2 ELSE 1]]}

\* What the chart installs: the webhook, or PreStartContainer with a runtime.
Webhook  == [webhook |-> "unset", devicePlugin |-> "unset", inject |-> "true"]
NoWebhook == [webhook |-> "false", devicePlugin |-> "unset", inject |-> "true"]

Config(serving, sock, docker, allocAll, kernel) ==
    [file |-> IF serving = {} THEN Webhook ELSE NoWebhook, preStart |-> serving # {},
     serving |-> serving, sock |-> sock, docker |-> docker,
     allocAll |-> allocAll, kernel |-> kernel]

\* Dockershim answers in three of them: without a docker client, next to a
\* socket that is set, and as the one that is used.
MCConfigs ==
    {Config({}, "unset", FALSE, FALSE, TRUE), Config({}, "unset", FALSE, FALSE, FALSE),
     Config({"dockershim", "containerd"}, "unset", FALSE, FALSE, TRUE),
     Config({"dockershim", "k3s"}, "k3s", TRUE, FALSE, FALSE),
     Config({"dockershim", "containerd"}, "unset", TRUE, TRUE, TRUE)}

\* The cases worth their states: a kernel without SMC-R matters to a pod that asks
\* for it, and two pods that ask for it are told apart by their devices, so not
\* when each has all of them.  The webhook takes all values of the annotation
\* alike; the docker branch differs in the empty one and in the host network.
\* Neither variable ever changes.
Worthwhile ==
    /\ ~config.kernel => spec[p1].smcr = "true" /\ spec[p2].smcr = "absent"
    /\ ~config.preStart => spec[p1].smcr = "true"
    /\ config.allocAll => /\ spec[p2].smcr = "absent"
                          /\ spec[p1].host \/ spec[p1].smcr = "empty"
===========================================================================

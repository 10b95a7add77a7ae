----------------------------- MODULE NetDevice -----------------------------
(***************************************************************************)
(* EnsureNetDevice (internal/drivers/netdev.go): the agent brings the link *)
(* of an ERI up, gives it its address and its two routes, step by step     *)
(* against the kernel's state, and undoes it when a step fails.            *)
(*                                                                         *)
(* All links are in the vswitch of the host's own link, so the routes of   *)
(* every link compete for the same two destinations.                       *)
(***************************************************************************)
EXTENDS Naturals, FiniteSetsExt

CONSTANTS
    Link,        \* the links of the secondary ERIs
    Primary,     \* the link of the primary ENI, which the host configures
    HostMetric   \* the metric of the host's own routes

ASSUME LinkAssumption == Primary \notin Link /\ HostMetric \in Nat

defaultMetric  == 200
metricAddition == 1

VARIABLES
    jumboFrame, \* the ERIs are to have jumbo frames
    link,    \* the kernel's state of each link
    routes,  \* the IPv4 routes of the host
    pc,      \* where the agent is
    cur,     \* the link of the ERI it configures
    metric,  \* conf.routes: the metric chosen for each destination
    unread   \* the attempt at cur could not read the addresses of the link

netVars == <<jumboFrame, link, routes, pc, cur, metric, unread>>

Destination == {"cidr", "default"}
Route == [dev : Link \union {Primary}, dst : Destination, metric : Nat]

HostRoutes == {[dev |-> Primary, dst |-> d, metric |-> HostMetric] : d \in Destination}

\* The route the kernel adds by itself for the address of a link that is up.
AutoRoute(l) == [dev |-> l, dst |-> "cidr", metric |-> 0]

RoutesOf(l, d) == {r \in routes : r.dev = l /\ r.dst = d}

\* selectMetric in genRoutesForAddr: above every route to the destination.
selectMetric(d) ==
    Max({defaultMetric}
        \union {r.metric + metricAddition : r \in {x \in routes : x.dst = d}})

\* ensureRoutes looks for the direct route first, then for the default one.
FindAt == [cidr |-> "find cidr",    default |-> "find default"]
AddAt  == [cidr |-> "add cidr",     default |-> "add default"]
MoveAt == [cidr |-> "add cidr",     default |-> "move default"]
NextAt == [cidr |-> "find default", default |-> "rdma"]

---------------------------------------------------------------------------
(* The steps; cur is the link.                                             *)

\* getNetConfFromMetadata; the primary ENI needs no configuration.
GetConf ==
    /\ pc = "conf"
    /\ IF cur = Primary
       THEN pc' = "rdma" /\ UNCHANGED metric
       ELSE /\ metric' = [d \in Destination |-> selectMetric(d)]
            /\ pc' = "look"
    /\ UNCHANGED <<jumboFrame, link, routes, cur, unread>>

\* Mutation: a link that is up is configured again, whatever addresses it has.
LookAtLinkAnyway ==
    /\ pc = "look"
    /\ pc' = "mtu"
    /\ unread' = FALSE
    /\ UNCHANGED <<jumboFrame, link, routes, cur, metric>>

\* A link that is up with an address, its own or another (hasNonLinkLocalAddr),
\* is kept as it is.
LookAtLink ==
    /\ pc = "look"
    /\ pc' = IF link[cur].up /\ (link[cur].addr \/ link[cur].other) THEN "keep" ELSE "mtu"
    /\ unread' = FALSE
    /\ UNCHANGED <<jumboFrame, link, routes, cur, metric>>

\* hasNonLinkLocalAddr takes a failing AddrList for a link without addresses.
LookFails ==
    /\ pc = "look" /\ link[cur].up
    /\ pc' = "mtu"
    /\ unread' = TRUE
    /\ UNCHANGED <<jumboFrame, link, routes, cur, metric>>

EnsureMTU ==
    /\ \/ pc = "mtu"  /\ pc' = "up"
       \/ pc = "keep" /\ pc' = "check"
    /\ link' = [link EXCEPT ![cur].jumbo = @ \/ jumboFrame]
    /\ UNCHANGED <<jumboFrame, routes, cur, metric, unread>>

\* Of a link that is kept only the address is looked for; that it is missing is
\* logged.
CheckAddress ==
    /\ pc = "check"
    /\ pc' = "rdma"
    /\ UNCHANGED <<jumboFrame, link, routes, cur, metric, unread>>

\* A link that goes up gets the kernel's route for the address it has kept.
AutoRouteOnUp(l) == IF link[l].addr /\ ~link[l].up THEN {AutoRoute(l)} ELSE {}

EnsureUpLink ==
    /\ pc = "up"
    /\ link' = [link EXCEPT ![cur].up = TRUE]
    /\ routes' = routes \union AutoRouteOnUp(cur)
    /\ pc' = "addr"
    /\ UNCHANGED <<jumboFrame, cur, metric, unread>>

\* Mutation: the address is added whether or not it is there, which fails.
EnsureAddressAnew ==
    /\ pc = "addr"
    /\ link' = [link EXCEPT ![cur].addr = TRUE]
    /\ routes' = routes \union (IF link[cur].addr THEN {} ELSE {AutoRoute(cur)})
    /\ pc' = IF link[cur].addr THEN "undo" ELSE "auto"
    /\ UNCHANGED <<jumboFrame, cur, metric, unread>>

\* An address that survived the link going down is kept.
EnsureAddress ==
    /\ pc = "addr"
    /\ \/ /\ link[cur].addr
          /\ pc' = "find cidr"
          /\ UNCHANGED <<link, routes>>
       \/ /\ ~link[cur].addr
          /\ link' = [link EXCEPT ![cur].addr = TRUE]
          /\ routes' = routes \union {AutoRoute(cur)}
          /\ pc' = "auto"
    /\ UNCHANGED <<jumboFrame, cur, metric, unread>>

\* The kernel's own route is removed; an error is ignored.
RemoveAutoRoute ==
    /\ pc = "auto"
    /\ routes' = routes \ {AutoRoute(cur)}
    /\ pc' = "find cidr"
    /\ UNCHANGED <<jumboFrame, link, cur, metric, unread>>

\* Mutation: a route that is there is taken as it is, whatever its metric.
FindRouteAnyMetric(d) ==
    /\ pc = FindAt[d]
    /\ pc' = IF RoutesOf(cur, d) = {} THEN AddAt[d] ELSE NextAt[d]
    /\ UNCHANGED <<jumboFrame, link, routes, cur, metric, unread>>

\* A route with another metric is deleted and added again.
FindRoute(d) ==
    /\ pc = FindAt[d]
    /\ LET wrong == {r \in RoutesOf(cur, d) : r.metric # metric[d]} IN
       /\ routes' = routes \ wrong
       /\ pc' = IF wrong # {} THEN MoveAt[d]
                ELSE IF RoutesOf(cur, d) = {} THEN AddAt[d] ELSE NextAt[d]
    /\ UNCHANGED <<jumboFrame, link, cur, metric, unread>>

\* The kernel would refuse a second route to a destination with the same
\* metric: selectMetric must have kept clear of it (or the model deadlocks).
AddRoute(d) ==
    /\ pc \in {AddAt[d], MoveAt[d]}
    /\ \A r \in routes : r.dst = d => r.metric # metric[d]
    /\ routes' = routes \union {[dev |-> cur, dst |-> d, metric |-> metric[d]]}
    /\ pc' = NextAt[d]
    /\ UNCHANGED <<jumboFrame, link, cur, metric, unread>>

\* The default route that replaces a deleted one is asked for with SCOPE_LINK,
\* which the kernel may refuse for a route with a gateway.
MoveRefused ==
    /\ pc = "move default"
    /\ pc' = "undo"
    /\ UNCHANGED <<jumboFrame, link, routes, cur, metric, unread>>

\* The deferred function: a link that goes down loses its routes and keeps its
\* addresses.
SetLinkDown ==
    /\ pc = "undo"
    /\ link' = [link EXCEPT ![cur].up = FALSE]
    /\ routes' = {r \in routes : r.dev # cur}
    /\ pc' = "exit"
    /\ UNCHANGED <<jumboFrame, cur, metric, unread>>

EnsureNetDevice ==
    \/ GetConf \/ LookAtLink \/ EnsureMTU \/ CheckAddress
    \/ EnsureUpLink \/ EnsureAddress \/ RemoveAutoRoute
    \/ \E d \in Destination : FindRoute(d) \/ AddRoute(d)
    \/ MoveRefused \/ SetLinkDown

\* The call of a step fails.  Up to LinkSetUp nothing is undone; RouteDel of the
\* kernel's own route is not looked at.
StepFails ==
    /\ \/ pc \in {"conf", "mtu", "keep", "check", "up"} /\ pc' = "exit"
       \/ pc \in {"addr", "find cidr", "add cidr", "find default", "add default",
                 "move default"} /\ pc' = "undo"
       \/ pc = "auto" /\ pc' = "find cidr"
    /\ UNCHANGED <<jumboFrame, link, routes, cur, metric, unread>>

\* The deferred LinkSetDown fails too, and its error is not looked at.
UndoFails ==
    /\ pc = "undo"
    /\ pc' = "exit"
    /\ UNCHANGED <<jumboFrame, link, routes, cur, metric, unread>>

\* Another program of the node brings the link up with an address of its own.
UseLink(l) ==
    /\ ~link[l].other
    /\ link' = [link EXCEPT ![l].up = TRUE, ![l].other = TRUE]
    /\ routes' = routes \union AutoRouteOnUp(l)
    /\ UNCHANGED <<jumboFrame, pc, cur, metric, unread>>

\* What EnsureNetDevice is to reach: the link is up with its address, its routes
\* and no other, each with a metric that leaves the host's own route preferred.
Configured(l) ==
    /\ link[l].up /\ link[l].addr
    /\ jumboFrame => link[l].jumbo
    /\ \A d \in Destination :
          /\ Cardinality(RoutesOf(l, d)) = 1
          /\ \A r \in RoutesOf(l, d) : r.metric > HostMetric

\* What it leaves a link with that another program uses: the MTU.
Lent(l) == link[l].up /\ link[l].other /\ (jumboFrame => link[l].jumbo)
===========================================================================

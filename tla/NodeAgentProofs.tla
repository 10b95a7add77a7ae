--------------------------- MODULE NodeAgentProofs ---------------------------
(***************************************************************************)
(* What holds of module NodeAgent for any number of links, rules, failures *)
(* and renewals of the metadata server's tokens: FailsForCause,            *)
(* ServesExposed, ServedConfigured and ConfiguredStays.  Each has an       *)
(* inductive invariant of its own.                                         *)
(***************************************************************************)
EXTENDS NodeAgent, FiniteSetTheorems, TLAPS

---------------------------------------------------------------------------
(* Least and greatest elements                                             *)

LEMMA LeastOf ==
  ASSUME NEW S, S \subseteq Nat, S # {}
  PROVE  Min(S) \in S /\ \A y \in S : Min(S) <= y
<1>1. PICK x \in S : \A y \in S : ~(<<y, x>> \in OpToRel(<, Nat))
  BY NatLessThanWellFounded, WFMin
<1>2. OpToRel(<, Nat) = {ss \in Nat \X Nat : ss[1] < ss[2]}
  BY DEF OpToRel
<1>3. ASSUME NEW y \in S, y < x PROVE FALSE
  <2>1. <<y, x>> \in {ss \in Nat \X Nat : ss[1] < ss[2]}
    BY <1>3
  <2> QED BY <1>1, <1>2, <2>1
<1>4. \A y \in S : x <= y
  BY <1>3
<1> QED BY <1>4 DEF Min

\* The greatest element is the least bound.
LEMMA GreatestOf ==
  ASSUME NEW S, S \subseteq Nat, S # {}, NEW b \in Nat, \A y \in S : y <= b
  PROVE  Max(S) \in S /\ \A y \in S : y <= Max(S)
<1> DEFINE bounds == {u \in Nat : \A y \in S : y <= u}
           x == Min(bounds)
<1>1. x \in bounds /\ \A u \in bounds : x <= u
  BY LeastOf
<1> HIDE DEF x
<1>2. x \in S
  <2> SUFFICES ASSUME x \notin S PROVE FALSE
    OBVIOUS
  <2>1. PICK y \in S : TRUE
    OBVIOUS
  <2>2. x \in Nat /\ x # 0
    BY <1>1, <2>1
  <2>3. x - 1 \in bounds
    BY <1>1, <2>2
  <2> QED BY <1>1, <2>2, <2>3
<1> QED BY <1>1, <1>2 DEF Max

---------------------------------------------------------------------------
(* The metadata client                                                     *)

\* What the token of a call is worth if the server did not renew its tokens since
\* the call began: after the retry it comes from the server.
Fresh ==
    resets = 0 /\ skipRetry =>
        /\ mpc = "cache" => tokenCache = 0
        /\ mpc = "request" => token = epoch

Client ==
    /\ epoch \in Nat \ {0} /\ tokenCache \in Nat /\ token \in Nat
    /\ tries \in Nat /\ resets \in Nat /\ skipRetry \in BOOLEAN
    /\ mpc = "idle" => ~skipRetry
    /\ Fresh /\ FailsForCause

MetaNext ==
    \/ BeginCall \/ getWithToken \/ TransientError \/ RetriesExhausted \/ Rejected
    \/ EndCall \/ ForgetToken \/ ResetTokens \/ ExpireToken

LEMMA MetaSteps == [Next]_vars => [MetaNext]_metaVars
<1> SUFFICES ASSUME [Next]_vars PROVE [MetaNext]_metaVars
  OBVIOUS
<1>1. CASE Run
  BY <1>1 DEF Run, WaitEriInfo, SelectERIs, SelectAmong, Install, ProbeNext, ProbeRdma,
              ConfigSMCPnet, Request, NoConf, Configure, Restart, MetaNext
<1>2. CASE Serving \/ Surroundings \/ OtherProgram \/ UNCHANGED vars
  BY <1>2 DEF Serving, Surroundings, ListDevice, AttachENI, CreateRdma, OtherProgram, vars
<1>3. CASE MetadataServer
  BY <1>3 DEF MetadataServer, MetaNext
<1>4. CASE Fault
  BY <1>4 DEF Fault, PassedOver, SelectAmong, MetaNext
<1>5. CASE Kill \/ Reboot
  BY <1>5 DEF Kill, Reboot
<1> QED BY <1>1, <1>2, <1>3, <1>4, <1>5 DEF Next

LEMMA ClientKept == Client /\ [MetaNext]_metaVars => Client'
<1> SUFFICES ASSUME Client, [MetaNext]_metaVars PROVE Client'
  OBVIOUS
<1> USE DEF Client, Fresh, FailsForCause, Steps
<1>1. CASE BeginCall
  BY <1>1 DEF BeginCall
<1>2. CASE LookupToken
  BY <1>2 DEF LookupToken
<1>3. CASE FetchToken
  BY <1>3 DEF FetchToken
<1>4. CASE RequestOK
  BY <1>4 DEF RequestOK
<1>5. CASE Unauthorized
  <2>1. /\ skipRetry' \in BOOLEAN
        /\ \/ skipRetry /\ mpc' = "failed" /\ UNCHANGED tokenCache
           \/ mpc' = "cache" /\ tokenCache' = 0
    BY <1>5, Zenon DEF Unauthorized
  <2>2. mpc = "request" /\ token # epoch /\ UNCHANGED <<epoch, token, tries, resets>>
    BY <1>5 DEF Unauthorized
  <2> QED BY <2>1, <2>2
<1>6. CASE TransientError
  BY <1>6 DEF TransientError
<1>7. CASE RetriesExhausted
  BY <1>7 DEF RetriesExhausted
<1>8. CASE Rejected
  BY <1>8 DEF Rejected
<1>9. CASE EndCall \/ ForgetToken
  <2>1. skipRetry' \in BOOLEAN /\ ~skipRetry'
    BY <1>9, Zenon DEF EndCall, ForgetToken, NoCall
  <2>2. /\ mpc' = "idle" /\ token' = 0 /\ tries' = 0 /\ resets' = 0 /\ epoch' = epoch
        /\ tokenCache' \in {tokenCache, 0}
    BY <1>9 DEF EndCall, ForgetToken, NoCall
  <2> QED BY <2>1, <2>2
<1>10. CASE ResetTokens
  BY <1>10 DEF ResetTokens
<1>11. CASE ExpireToken
  BY <1>11 DEF ExpireToken
<1>12. CASE UNCHANGED metaVars
  BY <1>12 DEF metaVars
<1> QED BY <1>1, <1>2, <1>3, <1>4, <1>5, <1>6, <1>7, <1>8, <1>9, <1>10, <1>11, <1>12
        DEF MetaNext, getWithToken

\* A request to the metadata server fails only because the server renewed its
\* tokens meanwhile, because of four transient errors or because it was rejected:
\* the retry of getWithToken makes up for any token that was stale before it.
THEOREM FailedForCause == Spec => []FailsForCause
<1>1. Init => Client
  <2> SUFFICES ASSUME Init PROVE Client
    OBVIOUS
  <2>1. skipRetry \in BOOLEAN /\ ~skipRetry
    BY Zenon DEF Init, MetaInit
  <2>2. epoch = 1 /\ tokenCache = 0 /\ token = 0 /\ mpc = "idle" /\ tries = 0 /\ resets = 0
    BY DEF Init, MetaInit
  <2> QED BY <2>1, <2>2 DEF Client, Fresh, FailsForCause
<1>2. Client /\ [Next]_vars => Client'
  BY MetaSteps, ClientKept
<1>3. Client => FailsForCause
  BY DEF Client
<1> QED BY <1>1, <1>2, <1>3, PTL DEF Spec

---------------------------------------------------------------------------
(* Local discovery                                                         *)

RuleRec == [id : STRING, valid : BOOLEAN, devices : SUBSET (Link \union {Primary})]

\* What is selected is what the rules expose, once the node knows its name.
Discovery ==
    /\ rules \in Seq(RuleRec)
    /\ local /\ instanceID = "own" => \A i \in selected : Documented(Devices[i])

\* checkExpose exposes nothing that the documentation does not promise.
LEMMA ExposesDocumented ==
  ASSUME rules \in Seq(RuleRec), NEW l, checkExpose("own", l) = "yes"
  PROVE  Documented(l)
<1> DEFINE decisive == {i \in DOMAIN rules :
                          ~rules[i].valid \/ (rules[i].id = "own" /\ l \in rules[i].devices)}
           others == OfInstance("*")
<1> SUFFICES ASSUME rules # <<>>
             PROVE  \E i \in (IF OfInstance("own") # {} THEN OfInstance("own") ELSE others) :
                       l \in rules[i].devices
  BY DEF Documented
<1>1. Len(rules) \in Nat /\ DOMAIN rules = 1..Len(rules)
  OBVIOUS
<1>2. decisive \subseteq Nat /\ others \subseteq Nat /\ \A i \in others : i <= Len(rules)
  BY <1>1 DEF OfInstance
<1>3. CASE decisive # {}
  <2>1. PICK i : i = Min(decisive)
    OBVIOUS
  <2>2. i \in decisive
    BY <1>2, <1>3, <2>1, LeastOf
  <2>3. rules[i].valid
    BY <1>3, <2>1 DEF checkExpose
  <2> QED BY <2>2, <2>3 DEF OfInstance
<1>4. CASE decisive = {}
  <2>1. OfInstance("own") = {} /\ others # {} /\ l \in rules[Max(others)].devices
    BY <1>4 DEF checkExpose
  <2> HIDE DEF others
  <2>2. Max(others) \in others
    BY <1>1, <1>2, <2>1, GreatestOf
  <2> QED BY <2>1, <2>2
<1> QED BY <1>3, <1>4

LEMMA DiscoveryKept == Discovery /\ [Next]_vars => Discovery'
<1> SUFFICES ASSUME Discovery, [Next]_vars PROVE Discovery'
  OBVIOUS
<1>1. ASSUME UNCHANGED <<modeVars, instanceID, selected>> PROVE Discovery'
  BY <1>1 DEF Discovery, modeVars, Documented, OfInstance
<1>2. ASSUME NEW found, SelectAmong(found), UNCHANGED modeVars PROVE Discovery'
  <2>1. CASE UNCHANGED runVars
    BY <1>1, <1>2, <2>1 DEF runVars
  <2>2. CASE selected' = {i \in DOMAIN Devices :
                Devices[i] \in found /\ checkExpose(instanceID', Devices[i]) = "yes"}
    <3>1. rules' = rules /\ local' = local
      BY <1>2 DEF modeVars
    <3>2. ASSUME instanceID' = "own", NEW i \in selected' PROVE Documented(Devices[i])
      BY <2>2, <3>2, ExposesDocumented DEF Discovery
    <3> QED BY <3>1, <3>2 DEF Discovery, Documented, OfInstance
  <2> QED BY <1>2, <2>1, <2>2 DEF SelectAmong
<1>3. CASE WaitEriInfo
  BY <1>3 DEF WaitEriInfo, Discovery, modeVars
<1>4. CASE Restart
  BY <1>4 DEF Restart, Discovery, modeVars
<1>5. CASE \/ Install \/ ProbeNext \/ ProbeRdma \/ ConfigSMCPnet \/ Request \/ NoConf
           \/ Configure
  BY <1>1, <1>5 DEF Install, ProbeNext, ProbeRdma, ConfigSMCPnet, Request, NoConf, Configure,
                    runVars
<1>6. CASE Serving \/ Surroundings \/ MetadataServer \/ OtherProgram \/ UNCHANGED vars
  BY <1>1, <1>6 DEF Serving, Surroundings, ListDevice, AttachENI, CreateRdma, MetadataServer,
                    OtherProgram, vars, runVars
<1>7. CASE Fault
  BY <1>1, <1>2, <1>7 DEF Fault, PassedOver, runVars
<1>8. CASE Kill \/ Reboot
  BY <1>1, <1>8 DEF Kill, Reboot, runVars
<1> QED BY <1>2, <1>3, <1>4, <1>5, <1>6, <1>7, <1>8 DEF Next, Run, SelectERIs

\* A node that knows its instance ID serves no device that the documentation of
\* exposedLocalERIs does not expose on it, whatever the rules and their order
\* (checkExpose, SelectERIs).
THEOREM ExposedOnly == Spec => []ServesExposed
<1>1. Init => Discovery
  <2> SUFFICES ASSUME Init PROVE Discovery
    OBVIOUS
  <2>1. rules \in Seq(RuleRec)
    <3>1. rules = <<>> \/ rules \in RuleLists
      BY DEF Init
    <3>2. RuleLists \subseteq Seq(RuleRec)
      BY AgentAssumption DEF RuleRec
    <3>3. <<>> \in Seq(RuleRec)
      OBVIOUS
    <3> QED BY <3>1, <3>2, <3>3, Zenon
  <2>2. selected = {}
    BY DEF Init
  <2> QED BY <2>1, <2>2 DEF Discovery
<1>2. Discovery => ServesExposed
  BY DEF Discovery, ServesExposed
<1> QED BY <1>1, <1>2, DiscoveryKept, PTL DEF Spec

---------------------------------------------------------------------------
(* The configuration of the links                                          *)

\* Where EnsureNetDevice has set the link up, and where it has chosen metrics.
Mid     == {"addr", "auto", "find cidr", "add cidr", "find default", "add default",
            "move default", "undo"}
Chosen  == Mid \union {"look", "mtu", "keep", "check", "up"}
Probing == Chosen \union {"conf", "rdma"}   \* the loop is at a device
Loop    == Probing \union {"probe"}
Pcs     == Loop \union {"wait", "install", "pnet", "serving", "exit"}

LinkRec == [up : BOOLEAN, addr : BOOLEAN, other : BOOLEAN, jumbo : BOOLEAN]

Types ==
    /\ jumboFrame \in BOOLEAN
    /\ link \in [Link -> LinkRec] /\ routes \subseteq Route
    /\ pc \in Pcs /\ cur \in Link \union {Primary}
    /\ metric \in [Destination -> Nat]
    /\ selected \subseteq DOMAIN Devices /\ todo \subseteq selected
    /\ kills \in Nat

\* The metrics in use are bounded, those of the host among them, and the metrics
\* chosen for a link are above them.
Metrics ==
    /\ HostRoutes \subseteq routes
    /\ \E b \in Nat : \A r \in routes : r.metric <= b
    /\ pc \in Chosen => /\ cur \in Link
                        /\ \A d \in Destination : metric[d] > HostMetric /\ metric[d] > 0

\* A link nobody works on is configured, down or in use by another program.
Whole(l) == link[l].up => Configured(l) \/ link[l].other

Sized(l) == jumboFrame => link[l].jumbo

\* The route EnsureNetDevice is to give its link.
Mine(d) == [dev |-> cur, dst |-> d, metric |-> metric[d]]

\* What EnsureNetDevice has done for its link so far.
Partial(l) ==
    /\ link[l].up /\ Sized(l)
    /\ pc \in Mid \ {"addr", "undo"} => link[l].addr
    /\ pc = "add cidr" => RoutesOf(l, "cidr") \subseteq {Mine("cidr")}
    /\ pc \in {"find default", "add default", "move default"} =>
         RoutesOf(l, "cidr") = {Mine("cidr")}
    /\ pc \in {"add default", "move default"} => RoutesOf(l, "default") \subseteq {Mine("default")}

Links ==
    /\ \A l \in Link : IF pc \in Mid /\ cur = l THEN Partial(l) ELSE Whole(l)
    /\ pc \in {"up", "check", "rdma"} /\ cur \in Link => Sized(cur)
    /\ pc \in {"keep", "check", "rdma"} /\ cur \in Link => link[cur].up

\* The loop of Run: what it has probed has an RDMA device and is configured.
Probes ==
    /\ pc = "install" => todo = selected
    /\ pc \in Probing => todo # {} /\ cur = Devices[Min(todo)]
    /\ pc \in {"pnet", "serving"} => todo = {}

Probed ==
    pc \in Loop \union {"pnet", "serving"} =>
        \A i \in selected \ todo :
            /\ Devices[i] \in rdma
            /\ Devices[i] \in Link => link[Devices[i]].up /\ Sized(Devices[i])

\* As long as no process was killed in the middle.
Progressing == Types /\ Metrics /\ Probes /\ (kills = 0 => Links /\ Probed)

LEMMA Places ==
  /\ DOMAIN Devices \subseteq Nat
  /\ \A i \in DOMAIN Devices : Devices[i] \in Link \union {Primary}
<1>1. Devices \in Seq(Link \union {Primary})
  BY AgentAssumption
<1> QED BY <1>1

\* The metric chosen for a link is above that of the host's own route.
LEMMA AboveTheHost ==
  ASSUME Types, Metrics, NEW d \in Destination
  PROVE  selectMetric(d) \in Nat /\ selectMetric(d) > HostMetric /\ selectMetric(d) > 0
<1> DEFINE S == {defaultMetric} \union {r.metric + metricAddition : r \in {x \in routes : x.dst = d}}
           h == [dev |-> Primary, dst |-> d, metric |-> HostMetric]
<1>1. PICK b \in Nat : \A r \in routes : r.metric <= b
  BY DEF Metrics
<1>2. \A r \in routes : r.metric \in Nat
  BY DEF Types, Route
<1>3. S \subseteq Nat /\ 200 \in S
  BY <1>2 DEF defaultMetric, metricAddition
<1>4. b + 201 \in Nat /\ \A y \in S : y <= b + 201
  BY <1>1, <1>2 DEF defaultMetric, metricAddition
<1>5. h \in routes /\ h.dst = d /\ h.metric = HostMetric
  BY DEF Metrics, HostRoutes
<1>6. HostMetric + 1 \in S
  BY <1>5 DEF metricAddition
<1>7. selectMetric(d) = Max(S)
  BY DEF selectMetric
<1> HIDE DEF S, h
<1>8. Max(S) \in S /\ \A y \in S : y <= Max(S)
  BY <1>3, <1>4, GreatestOf
<1>9. Max(S) \in Nat /\ 200 <= Max(S) /\ HostMetric + 1 <= Max(S)
  BY <1>3, <1>6, <1>8
<1> QED BY <1>7, <1>9, LinkAssumption

LEMMA WholeKept ==
  ASSUME NEW l, jumboFrame' = jumboFrame, link'[l] = link[l], Whole(l),
         \A r : r.dev = l => (r \in routes' <=> r \in routes),
         routes \subseteq Route, routes' \subseteq Route
  PROVE  Whole(l)'
<1>1. \A d : RoutesOf(l, d)' = RoutesOf(l, d)
  BY DEF RoutesOf
<1> QED BY <1>1 DEF Whole, Configured

---------------------------------------------------------------------------
(* Steps that leave the links alone                                        *)

LEMMA LinksLeftAlone ==
  ASSUME Progressing, Types', UNCHANGED <<jumboFrame, link, routes, kills>>,
         pc \notin Mid, pc' \notin Chosen, pc' = "rdma" => cur' = Primary
  PROVE  Metrics' /\ (kills = 0 => Links')
<1>1. Metrics'
  BY DEF Progressing, Metrics
<1>2. ASSUME kills = 0 PROVE Links'
  <2>1. \A l \in Link : Whole(l)
    BY <1>2 DEF Progressing, Links
  <2>2. \A l \in Link : Whole(l)'
    BY <2>1, WholeKept DEF Progressing, Types
  <2>3. pc' \notin Mid \union {"keep", "check", "up"}
    BY DEF Chosen
  <2> QED BY <2>2, <2>3, LinkAssumption DEF Links
<1> QED BY <1>1, <1>2

LEMMA ProbedLeftAlone ==
  ASSUME Progressing, UNCHANGED <<jumboFrame, link, kills, selected, todo>>, rdma \subseteq rdma',
         kills = 0, pc \in Loop \union {"pnet", "serving"}
  PROVE  Probed'
  BY DEF Progressing, Probed, Sized

\* A step that ends the process, but in the middle of EnsureNetDevice.
LEMMA Exits ==
  ASSUME Progressing, UNCHANGED <<jumboFrame, link, routes, cur, metric, kills, selected, todo>>,
         pc \notin Mid, pc' = "exit"
  PROVE  Progressing'
<1>1. pc' \in Pcs /\ pc' \notin Loop \union {"pnet", "serving", "install"} /\ pc' # "rdma"
  BY DEF Pcs, Loop, Probing, Chosen, Mid
<1>2. Types'
  BY <1>1 DEF Progressing, Types
<1>3. Metrics' /\ (kills = 0 => Links')
  BY <1>1, <1>2, LinksLeftAlone DEF Loop, Probing
<1> QED BY <1>1, <1>2, <1>3 DEF Progressing, Probes, Probed, Loop

\* What only the metadata client or the surroundings change.
LEMMA Elsewhere ==
  ASSUME Progressing, UNCHANGED <<netVars, selected, todo, kills>>, rdma \subseteq rdma'
  PROVE  Progressing'
<1>1. UNCHANGED <<jumboFrame, link, routes, pc, cur, metric>>
  BY DEF netVars
<1>2. Types' /\ Metrics' /\ Probes'
  BY <1>1 DEF Progressing, Types, Metrics, Probes
<1>3. ASSUME kills = 0 PROVE Links' /\ Probed'
  <2>1. \A l \in Link : Partial(l) => Partial(l)'
    BY <1>1 DEF Partial, RoutesOf, Sized, Mine
  <2>2. \A l \in Link : Whole(l) => Whole(l)'
    BY <1>1, WholeKept DEF Progressing, Types
  <2>3. Links'
    BY <1>1, <1>3, <2>1, <2>2 DEF Progressing, Links, Sized
  <2>4. Probed'
    BY <1>1, <1>3 DEF Progressing, Probed, Sized
  <2> QED BY <2>3, <2>4
<1> QED BY <1>2, <1>3 DEF Progressing

---------------------------------------------------------------------------
(* The loop of Run                                                         *)

LEMMA WaitKeeps ==
  ASSUME Progressing, WaitEriInfo \/ \E found : SelectAmong(found), UNCHANGED kills
  PROVE  Progressing'
<1>1. /\ pc = "wait" /\ pc' \in {"install", "exit"} /\ selected' \subseteq DOMAIN Devices
      /\ pc' = "install" => todo' = selected'
      /\ pc' = "exit" => UNCHANGED <<selected, todo>>
      /\ UNCHANGED <<jumboFrame, link, routes, cur, metric, kills>>
  <2>1. CASE WaitEriInfo
    BY <2>1 DEF WaitEriInfo
  <2>2. CASE \E found : SelectAmong(found)
    BY <2>2 DEF SelectAmong, runVars, Progressing, Types
  <2> QED BY <2>1, <2>2
<1>2. pc \notin Mid
  BY <1>1 DEF Mid
<1>3. CASE pc' = "exit"
  BY <1>1, <1>2, <1>3, Exits
<1>4. CASE pc' = "install"
  <2>1. pc' \in Pcs /\ pc' \notin Loop /\ pc' \notin Probing /\ pc' \notin Chosen
    BY <1>4 DEF Pcs, Loop, Probing, Chosen, Mid
  <2>2. Types'
    BY <1>1, <1>4, <2>1 DEF Progressing, Types
  <2>3. Metrics' /\ (kills = 0 => Links')
    BY <1>1, <1>2, <1>4, <2>1, <2>2, LinksLeftAlone
  <2> QED BY <1>1, <1>4, <2>1, <2>2, <2>3 DEF Progressing, Probes, Probed
<1> QED BY <1>1, <1>3, <1>4

LEMMA InstallKeeps == ASSUME Progressing, Install PROVE Progressing'
<1>1. /\ pc = "install" /\ pc' = "probe"
      /\ UNCHANGED <<jumboFrame, link, routes, cur, metric, selected, todo, kills>>
  BY DEF Install, runVars, budget
<1>2. /\ pc \notin Mid /\ pc' \in Pcs /\ pc' \notin Chosen /\ pc' \notin Probing
  BY <1>1 DEF Pcs, Loop, Probing, Chosen, Mid
<1>3. Types'
  BY <1>1, <1>2 DEF Progressing, Types
<1>4. Metrics' /\ (kills = 0 => Links')
  BY <1>1, <1>2, <1>3, LinksLeftAlone
<1>5. todo = selected
  BY <1>1 DEF Progressing, Probes
<1> QED BY <1>1, <1>2, <1>3, <1>4, <1>5 DEF Progressing, Probes, Probed

LEMMA ProbeNextKeeps == ASSUME Progressing, ProbeNext PROVE Progressing'
<1>1. /\ pc = "probe"
      /\ UNCHANGED <<jumboFrame, link, routes, metric, selected, todo, rdma, kills>>
      /\ \/ todo # {} /\ cur' = Devices[Min(todo)] /\ pc' \in {"conf", "exit"}
         \/ todo = {} /\ pc' = "pnet" /\ cur' = cur
  BY DEF ProbeNext, runVars, envVars, budget
<1>2. todo # {} => Devices[Min(todo)] \in Link \union {Primary}
  <2>1. todo \subseteq DOMAIN Devices
    BY DEF Progressing, Types
  <2> QED BY <2>1, Places, LeastOf
<1>3. /\ pc \notin Mid /\ pc \in Loop /\ pc' \in Pcs /\ pc' \notin Chosen /\ pc' \notin Mid
      /\ pc' # "rdma" /\ pc' # "install" /\ pc' # "serving"
      /\ pc' = "exit" => pc' \notin Probing
      /\ pc' = "pnet" => pc' \notin Probing
  BY <1>1 DEF Pcs, Loop, Probing, Chosen, Mid
<1>4. Types'
  BY <1>1, <1>2, <1>3 DEF Progressing, Types
<1>5. Metrics' /\ (kills = 0 => Links')
  BY <1>1, <1>3, <1>4, LinksLeftAlone
<1>6. Probes'
  BY <1>1, <1>3 DEF Probes
<1>7. kills = 0 => Probed'
  BY <1>1, <1>3, ProbedLeftAlone
<1> QED BY <1>1, <1>4, <1>5, <1>6, <1>7 DEF Progressing

LEMMA ProbeRdmaKeeps == ASSUME Progressing, ProbeRdma PROVE Progressing'
<1>1. /\ pc = "rdma"
      /\ UNCHANGED <<jumboFrame, link, routes, cur, selected, rdma, kills>>
      /\ metric' = [d \in Destination |-> 0]
      /\ \/ cur \in rdma /\ todo' = todo \ {Min(todo)} /\ pc' = "probe"
         \/ pc' = "exit" /\ todo' = todo
  BY DEF ProbeRdma, envVars, budget
<1>2. /\ pc \notin Mid /\ pc \in Loop /\ pc \in Probing
      /\ pc' \in Pcs /\ pc' \notin Chosen /\ pc' \notin Probing /\ pc' \notin Mid
      /\ pc' # "rdma" /\ pc' \notin {"install", "pnet", "serving"}
      /\ pc' = "exit" => pc' \notin Loop
  BY <1>1 DEF Pcs, Loop, Probing, Chosen, Mid
<1>3. Types'
  BY <1>1, <1>2 DEF Progressing, Types
<1>4. Metrics' /\ (kills = 0 => Links')
  BY <1>1, <1>2, <1>3, LinksLeftAlone
<1>5. Probes'
  BY <1>2 DEF Probes
<1>6. ASSUME kills = 0 PROVE Probed'
  <2>1. CASE pc' = "exit"
    BY <1>2, <2>1 DEF Probed
  <2>2. CASE pc' = "probe"
    <3>1. cur \in rdma /\ todo' = todo \ {Min(todo)} /\ cur = Devices[Min(todo)]
      BY <1>1, <1>2, <2>2 DEF Progressing, Probes
    <3>2. cur \in Link => link[cur].up /\ Sized(cur)
      BY <1>1, <1>6 DEF Progressing, Links
    <3>3. \A i \in selected \ todo :
             /\ Devices[i] \in rdma
             /\ Devices[i] \in Link => link[Devices[i]].up /\ Sized(Devices[i])
      BY <1>2, <1>6 DEF Progressing, Probed
    <3>4. \A i \in selected' \ todo' : i \in selected \ todo \/ Devices[i] = cur
      BY <1>1, <3>1
    <3> QED BY <1>1, <1>2, <3>1, <3>2, <3>3, <3>4 DEF Probed, Sized
  <2> QED BY <1>1, <2>1, <2>2
<1> QED BY <1>1, <1>3, <1>4, <1>5, <1>6 DEF Progressing

LEMMA ServeKeeps == ASSUME Progressing, ConfigSMCPnet PROVE Progressing'
<1>1. /\ pc = "pnet" /\ pc' = "serving"
      /\ UNCHANGED <<jumboFrame, link, routes, cur, metric, selected, todo, rdma, kills>>
  BY DEF ConfigSMCPnet, runVars, envVars, budget
<1>2. /\ pc \notin Mid /\ pc' \in Pcs /\ pc' \notin Chosen /\ pc' \notin Probing /\ pc' \notin Mid
  BY <1>1 DEF Pcs, Loop, Probing, Chosen, Mid
<1>3. Types'
  BY <1>1, <1>2 DEF Progressing, Types
<1>4. Metrics' /\ (kills = 0 => Links')
  BY <1>1, <1>2, <1>3, LinksLeftAlone
<1>5. Probes'
  BY <1>1, <1>2 DEF Progressing, Probes
<1>6. kills = 0 => Probed'
  BY <1>1, <1>2, ProbedLeftAlone
<1> QED BY <1>1, <1>3, <1>4, <1>5, <1>6 DEF Progressing

LEMMA RestartKeeps == ASSUME Progressing, Restart PROVE Progressing'
<1>1. /\ pc = "exit" /\ pc' = "wait" /\ selected' = {} /\ todo' = {} /\ cur' = Primary
      /\ metric' = [d \in Destination |-> 0]
      /\ UNCHANGED <<jumboFrame, link, routes, kills>>
  BY DEF Restart, budget
<1>2. /\ pc \notin Mid /\ pc' \in Pcs /\ pc' \notin Chosen /\ pc' \notin Probing /\ pc' \notin Loop
  BY <1>1 DEF Pcs, Loop, Probing, Chosen, Mid
<1>3. Types'
  BY <1>1, <1>2 DEF Progressing, Types
<1>4. Metrics' /\ (kills = 0 => Links')
  BY <1>1, <1>2, <1>3, LinksLeftAlone
<1> QED BY <1>1, <1>2, <1>3, <1>4 DEF Progressing, Probes, Probed

---------------------------------------------------------------------------
(* EnsureNetDevice                                                         *)

After == (Chosen \ {"look"}) \union {"rdma", "exit"}

\* What EnsureNetDevice leaves alone at a link.
AtLink ==
    /\ UNCHANGED <<jumboFrame, cur, metric, selected, todo, rdma, kills>>
    /\ link' \in [Link -> LinkRec] /\ \A l \in Link : l # cur => link'[l] = link[l]
    /\ routes' \subseteq Route /\ \A r : r.dev # cur => (r \in routes' <=> r \in routes)
    /\ \E b \in Nat : \A r \in routes' : r.metric <= b
    /\ pc \in Chosen /\ pc' \in After

\* What it has to reach there.
Reached ==
    /\ IF pc' \in Mid THEN Partial(cur)' ELSE Whole(cur)'
    /\ pc' \in {"up", "check", "rdma"} => Sized(cur)'
    /\ pc' \in {"keep", "check", "rdma"} => link'[cur].up
    /\ pc' # "exit" => /\ link[cur].up => link'[cur].up
                       /\ Sized(cur) => Sized(cur)'

LEMMA AtLinkKeeps == ASSUME Progressing, AtLink, kills = 0 => Reached PROVE Progressing'
<1>0. Types /\ Metrics /\ Probes /\ cur \in Link /\ cur' = cur /\ cur # Primary
  BY LinkAssumption DEF Progressing, Metrics, AtLink
<1>1. /\ pc \in Probing /\ pc \in Loop /\ pc' \in Pcs /\ pc' \notin {"install", "pnet", "serving"}
      /\ pc' \in Probing \/ (pc' = "exit" /\ pc' \notin Probing /\ pc' \notin Loop)
  BY DEF AtLink, After, Pcs, Loop, Probing, Chosen, Mid
<1>2. Types'
  BY <1>0, <1>1 DEF AtLink, Types
<1>3. Metrics'
  <2>1. HostRoutes \subseteq routes'
    <3> SUFFICES ASSUME NEW r \in HostRoutes PROVE r \in routes'
      OBVIOUS
    <3>1. r.dev = Primary
      BY DEF HostRoutes
    <3> QED BY <1>0, <3>1 DEF Metrics, AtLink
  <2>2. \A d \in Destination : metric[d] > HostMetric /\ metric[d] > 0
    BY <1>0 DEF Metrics, AtLink
  <2> QED BY <1>0, <2>1, <2>2 DEF Metrics, AtLink
<1>4. Probes'
  BY <1>0, <1>1 DEF Probes, AtLink
<1>5. ASSUME kills = 0 PROVE Links'
  <2>1. \A l \in Link : l # cur => Whole(l)
    BY <1>5 DEF Progressing, Links
  <2>2. \A l \in Link : l # cur => Whole(l)'
    BY <1>0, <2>1, WholeKept DEF AtLink, Types
  <2> QED BY <1>0, <1>5, <2>2 DEF Links, Reached, AtLink, Sized
<1>6. ASSUME kills = 0 PROVE Probed'
  <2>0. CASE pc' = "exit"
    BY <2>0 DEF Probed, Loop, Probing, Chosen, Mid
  <2>1. CASE pc' # "exit"
    <3>1. ASSUME NEW i \in selected \ todo
          PROVE  /\ Devices[i] \in rdma
                 /\ Devices[i] \in Link => link'[Devices[i]].up /\ Sized(Devices[i])'
      <4>1. /\ Devices[i] \in rdma
            /\ Devices[i] \in Link => link[Devices[i]].up /\ Sized(Devices[i])
        BY <1>1, <1>6 DEF Progressing, Probed
      <4>2. CASE Devices[i] # cur
        BY <4>1, <4>2 DEF AtLink, Sized
      <4>3. CASE Devices[i] = cur
        BY <1>0, <1>6, <2>1, <4>1, <4>3 DEF Reached, Sized, AtLink
      <4> QED BY <4>2, <4>3
    <3> QED BY <3>1 DEF Probed, AtLink
  <2> QED BY <2>0, <2>1
<1> QED BY <1>2, <1>3, <1>4, <1>5, <1>6 DEF Progressing, AtLink

LEMMA GetConfKeeps ==
  ASSUME Progressing, GetConf, UNCHANGED <<selected, todo, rdma, kills>>
  PROVE  Progressing'
<1>1. /\ pc = "conf" /\ UNCHANGED <<jumboFrame, link, routes, cur>>
      /\ \/ cur = Primary /\ pc' = "rdma" /\ metric' = metric
         \/ /\ cur # Primary /\ pc' = "look"
            /\ metric' = [d \in Destination |-> selectMetric(d)]
  BY DEF GetConf
<1>2. /\ pc \notin Mid /\ pc \in Loop /\ pc \in Probing /\ pc' \in Pcs /\ pc' \in Probing
      /\ pc' \notin Mid /\ pc' \notin {"keep", "check", "up", "install", "pnet", "serving"}
      /\ pc' = "rdma" => pc' \notin Chosen
  BY <1>1 DEF Pcs, Loop, Probing, Chosen, Mid
<1>3. Types /\ Metrics
  BY DEF Progressing
<1>4. \A d \in Destination : selectMetric(d) \in Nat /\ selectMetric(d) > HostMetric
                             /\ selectMetric(d) > 0
  BY <1>3, AboveTheHost
<1>5. Types'
  BY <1>1, <1>2, <1>3, <1>4 DEF Types
<1>6. Metrics'
  BY <1>1, <1>2, <1>3, <1>4 DEF Metrics, Types
<1>7. Probes'
  BY <1>1, <1>2 DEF Progressing, Probes
<1>8. ASSUME kills = 0 PROVE Links'
  <2>1. \A l \in Link : Whole(l)
    BY <1>2, <1>8 DEF Progressing, Links
  <2>2. \A l \in Link : Whole(l)'
    BY <1>1, <1>3, <2>1, WholeKept DEF Types
  <2> QED BY <1>1, <1>2, <2>2, LinkAssumption DEF Links
<1>9. kills = 0 => Probed'
  BY <1>1, <1>2, ProbedLeftAlone
<1> QED BY <1>5, <1>6, <1>7, <1>8, <1>9 DEF Progressing

\* A step of EnsureNetDevice changes one field of its link at most.
Field(f, v) ==
    /\ link' \in [Link -> LinkRec] /\ \A l \in Link : l # cur => link'[l] = link[l]
    /\ link'[cur].up    = IF f = "up" THEN v ELSE link[cur].up
    /\ link'[cur].addr  = IF f = "addr" THEN v ELSE link[cur].addr
    /\ link'[cur].other = link[cur].other
    /\ link'[cur].jumbo = IF f = "jumbo" THEN v ELSE link[cur].jumbo

LEMMA FieldSet ==
  ASSUME Types, cur \in Link, NEW v \in BOOLEAN
  PROVE  /\ link' = [link EXCEPT ![cur].up = v] => Field("up", v)
         /\ link' = [link EXCEPT ![cur].addr = v] => Field("addr", v)
         /\ link' = [link EXCEPT ![cur].jumbo = v] => Field("jumbo", v)
         /\ link' = link => Field("none", v)
<1>1. link \in [Link -> LinkRec] /\ link[cur] \in LinkRec
  BY DEF Types
<1>2. ASSUME NEW n \in LinkRec, link' = [link EXCEPT ![cur] = n]
      PROVE  /\ link' \in [Link -> LinkRec] /\ link'[cur] = n
             /\ \A l \in Link : l # cur => link'[l] = link[l]
  BY <1>1, <1>2
<1>3. ASSUME link' = [link EXCEPT ![cur].up = v] PROVE Field("up", v)
  <2>1. [link[cur] EXCEPT !.up = v] \in LinkRec
    BY <1>1 DEF LinkRec
  <2> QED BY <1>1, <1>2, <1>3, <2>1 DEF Field, LinkRec
<1>4. ASSUME link' = [link EXCEPT ![cur].addr = v] PROVE Field("addr", v)
  <2>1. [link[cur] EXCEPT !.addr = v] \in LinkRec
    BY <1>1 DEF LinkRec
  <2> QED BY <1>1, <1>2, <1>4, <2>1 DEF Field, LinkRec
<1>5. ASSUME link' = [link EXCEPT ![cur].jumbo = v] PROVE Field("jumbo", v)
  <2>1. [link[cur] EXCEPT !.jumbo = v] \in LinkRec
    BY <1>1 DEF LinkRec
  <2> QED BY <1>1, <1>2, <1>5, <2>1 DEF Field, LinkRec
<1>6. link' = link => Field("none", v)
  BY <1>1 DEF Field
<1> QED BY <1>3, <1>4, <1>5, <1>6

\* It adds a route of its link, or removes routes of it.
LEMMA RoutesSet ==
  ASSUME Progressing, cur \in Link,
         NEW add, add \subseteq Route, NEW b \in Nat, \A r \in add : r.dev = cur /\ r.metric <= b,
         NEW del, \A r \in del : r.dev = cur,
         routes' = (routes \ del) \union add
  PROVE  /\ routes' \subseteq Route /\ \A r : r.dev # cur => (r \in routes' <=> r \in routes)
         /\ \E c \in Nat : \A r \in routes' : r.metric <= c
<1>1. routes \subseteq Route /\ \A r \in Route : r.metric \in Nat
  BY DEF Progressing, Types, Route
<1>2. PICK c \in Nat : \A r \in routes : r.metric <= c
  BY DEF Progressing, Metrics
<1>3. \A r \in routes' : r.metric <= b + c
  BY <1>1, <1>2
<1> QED BY <1>1, <1>3

LEMMA AutoRouteOf ==
  ASSUME NEW l \in Link
  PROVE  AutoRoute(l) \in Route /\ AutoRoute(l).dev = l /\ AutoRoute(l).dst = "cidr"
         /\ AutoRoute(l).metric = 0
  BY DEF AutoRoute, Route, Destination

\* Where EnsureNetDevice is, its link is the link of the loop.
LEMMA AtItsLink ==
  ASSUME Progressing, pc \in Chosen
  PROVE  /\ Types /\ cur \in Link /\ link[cur] \in LinkRec
         /\ \A d \in Destination : metric[d] \in Nat /\ metric[d] > HostMetric /\ metric[d] > 0
         /\ kills = 0 => IF pc \in Mid THEN Partial(cur) ELSE Whole(cur)
  BY DEF Progressing, Types, Metrics, Links

\* A step at a link, by the field of the link and the routes it sets.
LEMMA StepAtLink ==
  ASSUME Progressing, pc \in Chosen, pc' \in After,
         UNCHANGED <<jumboFrame, cur, metric, selected, todo, rdma, kills>>,
         NEW f, NEW v \in BOOLEAN, Field(f, v),
         NEW add, add \subseteq Route, NEW b \in Nat, \A r \in add : r.dev = cur /\ r.metric <= b,
         NEW del, \A r \in del : r.dev = cur,
         routes' = (routes \ del) \union add,
         kills = 0 => Reached
  PROVE  AtLink /\ Progressing'
<1>2. cur \in Link
  BY AtItsLink
<1>3. /\ routes' \subseteq Route /\ \A r : r.dev # cur => (r \in routes' <=> r \in routes)
      /\ \E c \in Nat : \A r \in routes' : r.metric <= c
  BY <1>2, RoutesSet
<1>4. AtLink
  BY <1>3 DEF AtLink, Field
<1>5. Progressing'
  BY <1>4, AtLinkKeeps
<1> QED BY <1>4, <1>5

\* A step that changes neither links nor routes.
LEMMA StandStill ==
  ASSUME Progressing, pc \in Chosen, pc' \in After,
         UNCHANGED <<jumboFrame, link, routes, cur, metric, selected, todo, rdma, kills>>,
         kills = 0 => Reached
  PROVE  AtLink /\ Progressing'
<1>1. Field("none", FALSE) /\ routes' = (routes \ {}) \union {}
  BY AtItsLink, FieldSet
<1> QED BY <1>1, StepAtLink

LEMMA SameWhole ==
  ASSUME Types, UNCHANGED <<jumboFrame, link, routes, cur>>, Whole(cur)
  PROVE  Whole(cur)'
  BY DEF Whole, Configured, RoutesOf

LEMMA LookKeeps ==
  ASSUME Progressing, LookAtLink \/ LookFails, UNCHANGED <<selected, todo, rdma, kills>>
  PROVE  AtLink /\ Progressing'
<1>1. /\ pc = "look" /\ UNCHANGED <<jumboFrame, link, routes, cur, metric>>
      /\ pc' = "mtu" \/ (pc' = "keep" /\ link[cur].up)
  BY DEF LookAtLink, LookFails
<1>2. /\ pc \in Chosen /\ pc \notin Mid /\ pc' \in After /\ pc' \notin Mid
  BY <1>1 DEF Chosen, Mid, After
<1>3. ASSUME kills = 0 PROVE Reached
  <2>1. Whole(cur)'
    BY <1>1, <1>2, <1>3, AtItsLink, SameWhole
  <2> QED BY <1>1, <1>2, <2>1 DEF Reached, Sized
<1> QED BY <1>1, <1>2, <1>3, StandStill

LEMMA CheckAddressKeeps ==
  ASSUME Progressing, CheckAddress, UNCHANGED <<selected, todo, rdma, kills>>
  PROVE  AtLink /\ Progressing'
<1>1. /\ pc = "check" /\ pc' = "rdma" /\ UNCHANGED <<jumboFrame, link, routes, cur, metric>>
  BY DEF CheckAddress
<1>2. /\ pc \in Chosen /\ pc \notin Mid /\ pc' \in After /\ pc' \notin Mid
  BY <1>1 DEF Chosen, Mid, After
<1>3. ASSUME kills = 0 PROVE Reached
  <2>1. Whole(cur)' /\ cur \in Link
    BY <1>1, <1>2, <1>3, AtItsLink, SameWhole
  <2>2. link[cur].up /\ Sized(cur)
    BY <1>1, <1>3, <2>1 DEF Progressing, Links
  <2> QED BY <1>1, <1>2, <2>1, <2>2 DEF Reached, Sized
<1> QED BY <1>1, <1>2, <1>3, StandStill

LEMMA EnsureMTUKeeps ==
  ASSUME Progressing, EnsureMTU, UNCHANGED <<selected, todo, rdma, kills>>
  PROVE  AtLink /\ Progressing'
<1>0. PICK v \in BOOLEAN : v <=> (link[cur].jumbo \/ jumboFrame)
  OBVIOUS
<1>1. /\ UNCHANGED <<jumboFrame, cur, metric>> /\ routes' = (routes \ {}) \union {}
      /\ (pc = "mtu" /\ pc' = "up") \/ (pc = "keep" /\ pc' = "check")
  BY DEF EnsureMTU
<1>2. pc \in Chosen /\ pc \notin Mid /\ pc' \in After /\ pc' \notin Mid
  BY <1>1 DEF Chosen, Mid, After
<1>3. Types /\ cur \in Link /\ link[cur] \in LinkRec
  BY <1>2, AtItsLink
<1>4. Field("jumbo", v)
  <2>1. (link[cur].jumbo \/ jumboFrame) \in BOOLEAN
    OBVIOUS
  <2>2. link \in [Link -> LinkRec] /\ link[cur].jumbo \in BOOLEAN
    BY <1>3 DEF Types, LinkRec
  <2>3. link' = [link EXCEPT ![cur].jumbo = link[cur].jumbo \/ jumboFrame]
    BY <1>3, <2>2 DEF EnsureMTU
  <2>4. v = (link[cur].jumbo \/ jumboFrame)
    BY <1>0, Zenon
  <2>5. link' = [link EXCEPT ![cur].jumbo = v]
    BY <2>3, <2>4, Zenon
  <2> QED BY <1>3, <2>5, FieldSet
<1>6. ASSUME kills = 0 PROVE Reached
  <2>1. /\ link'[cur].up = link[cur].up /\ link'[cur].addr = link[cur].addr
        /\ link'[cur].other = link[cur].other /\ link'[cur].jumbo = v
        /\ \A d : RoutesOf(cur, d)' = RoutesOf(cur, d)
    BY <1>1, <1>4 DEF Field, RoutesOf
  <2>2. Whole(cur)
    BY <1>2, <1>6, AtItsLink
  <2>3. Whole(cur)' /\ Sized(cur)'
    BY <1>0, <1>1, <2>1, <2>2 DEF Whole, Configured, Sized
  <2>4. pc = "keep" => link[cur].up
    BY <1>3, <1>6 DEF Progressing, Links
  <2> QED BY <1>1, <1>2, <2>1, <2>3, <2>4 DEF Reached
<1> QED BY <1>1, <1>2, <1>4, <1>6, StepAtLink

LEMMA EnsureUpLinkKeeps ==
  ASSUME Progressing, EnsureUpLink, UNCHANGED <<selected, todo, rdma, kills>>
  PROVE  AtLink /\ Progressing'
<1> DEFINE add == AutoRouteOnUp(cur)
<1>0. PICK v \in BOOLEAN : v = TRUE
  BY Zenon
<1>1. /\ pc = "up" /\ pc' = "addr" /\ UNCHANGED <<jumboFrame, cur, metric>>
      /\ routes' = (routes \ {}) \union add
  BY DEF EnsureUpLink
<1>2. /\ pc \in Chosen /\ pc \notin Mid /\ pc' \in Mid /\ pc' \in After /\ v
  BY <1>0, <1>1, Zenon DEF Chosen, Mid, After
<1>3. Types /\ cur \in Link
  BY <1>2, AtItsLink
<1>4. Field("up", v)
  <2>1. link' = [link EXCEPT ![cur].up = v]
    BY <1>0, Zenon DEF EnsureUpLink
  <2> QED BY <1>3, <2>1, FieldSet
<1>5. add \subseteq Route /\ \A r \in add : r.dev = cur /\ r.metric <= 0
  BY <1>3, AutoRouteOf DEF AutoRouteOnUp
<1>6. ASSUME kills = 0 PROVE Reached
  <2>1. /\ link'[cur].up /\ link'[cur].addr = link[cur].addr /\ link'[cur].jumbo = link[cur].jumbo
    BY <1>2, <1>4 DEF Field
  <2>2. Sized(cur)
    BY <1>1, <1>3, <1>6 DEF Progressing, Links
  <2>3. Partial(cur)'
    BY <1>1, <2>1, <2>2 DEF Partial, Sized
  <2> QED BY <1>1, <1>2, <2>1, <2>2, <2>3 DEF Reached, Sized
<1> HIDE DEF add
<1> QED BY <1>1, <1>2, <1>4, <1>5, <1>6, StepAtLink

LEMMA EnsureAddressKeeps ==
  ASSUME Progressing, EnsureAddress, UNCHANGED <<selected, todo, rdma, kills>>
  PROVE  AtLink /\ Progressing'
<1>0. PICK v \in BOOLEAN : v = TRUE
  BY Zenon
<1>1. /\ pc = "addr" /\ UNCHANGED <<jumboFrame, cur, metric>>
      /\ pc' \in {"find cidr", "auto"}
  BY DEF EnsureAddress
<1>2. /\ pc \in Chosen /\ pc \in Mid /\ v /\ pc' \in Mid /\ pc' \in After
  BY <1>0, <1>1, Zenon DEF Chosen, Mid, After
<1>3. Types /\ cur \in Link
  BY <1>2, AtItsLink
<1>4. kills = 0 => Partial(cur)
  BY <1>2, AtItsLink
<1>5. CASE link[cur].addr /\ link' = link /\ routes' = routes
  <2>1. kills = 0 => Partial(cur)'
    BY <1>1, <1>4, <1>5 DEF Partial, Sized, Mid
  <2>2. kills = 0 => Reached
    BY <1>1, <1>2, <1>5, <2>1 DEF Reached, Sized
  <2> QED BY <1>1, <1>2, <1>5, <2>2, StandStill
<1>6. CASE /\ link' = [link EXCEPT ![cur].addr = TRUE]
           /\ routes' = routes \union {AutoRoute(cur)}
  <2>1. Field("addr", v)
    <3>1. link' = [link EXCEPT ![cur].addr = v]
      BY <1>0, <1>6, Zenon
    <3> QED BY <1>3, <3>1, FieldSet
  <2>2. routes' = (routes \ {}) \union {AutoRoute(cur)}
    BY <1>6
  <2>3. {AutoRoute(cur)} \subseteq Route /\ \A r \in {AutoRoute(cur)} : r.dev = cur /\ r.metric <= 0
    BY <1>3, AutoRouteOf
  <2>4. link'[cur].up = link[cur].up /\ link'[cur].addr /\ link'[cur].jumbo = link[cur].jumbo
    BY <1>2, <2>1 DEF Field
  <2>5. kills = 0 => Partial(cur)'
    BY <1>1, <1>4, <2>4 DEF Partial, Sized
  <2>6. kills = 0 => Reached
    BY <1>1, <1>2, <2>4, <2>5 DEF Reached, Sized
  <2> QED BY <1>1, <1>2, <2>1, <2>2, <2>3, <2>6, StepAtLink
<1> QED BY <1>5, <1>6 DEF EnsureAddress

LEMMA RemoveAutoRouteKeeps ==
  ASSUME Progressing, RemoveAutoRoute, UNCHANGED <<selected, todo, rdma, kills>>
  PROVE  AtLink /\ Progressing'
<1>1. /\ pc = "auto" /\ pc' = "find cidr" /\ UNCHANGED <<jumboFrame, link, cur, metric>>
      /\ routes' = (routes \ {AutoRoute(cur)}) \union {}
  BY DEF RemoveAutoRoute
<1>2. /\ pc \in Chosen /\ pc \in Mid /\ pc' \in Mid /\ pc' \in After
  BY <1>1 DEF Chosen, Mid, After
<1>3. Types /\ cur \in Link /\ (kills = 0 => Partial(cur))
  BY <1>2, AtItsLink
<1>4. Field("none", FALSE)
  BY <1>1, <1>3, FieldSet
<1>5. \A r \in {AutoRoute(cur)} : r.dev = cur
  BY <1>3, AutoRouteOf
<1>6. ASSUME kills = 0 PROVE Reached
  <2>1. Partial(cur)'
    BY <1>1, <1>3, <1>6 DEF Partial, Sized, Mid
  <2> QED BY <1>1, <1>2, <2>1 DEF Reached, Sized
<1> QED BY <1>1, <1>2, <1>4, <1>5, <1>6, StepAtLink

LEMMA At ==
  /\ FindAt["cidr"] = "find cidr" /\ FindAt["default"] = "find default"
  /\ AddAt["cidr"] = "add cidr" /\ AddAt["default"] = "add default"
  /\ MoveAt["cidr"] = "add cidr" /\ MoveAt["default"] = "move default"
  /\ NextAt["cidr"] = "find default" /\ NextAt["default"] = "rdma"
  BY DEF FindAt, AddAt, MoveAt, NextAt

\* A link that is up with its address and the two routes is configured.
LEMMA BothRoutes ==
  ASSUME UNCHANGED <<jumboFrame, link, cur>>, link[cur].up, link[cur].addr, Sized(cur),
         RoutesOf(cur, "cidr")' = {Mine("cidr")}, RoutesOf(cur, "default")' = {Mine("default")},
         \A e \in Destination : metric[e] \in Nat /\ metric[e] > HostMetric
  PROVE  Whole(cur)'
<1>1. ASSUME NEW e \in Destination
      PROVE  /\ Cardinality(RoutesOf(cur, e)') = 1
             /\ \A r \in RoutesOf(cur, e)' : r.metric > HostMetric
  <2>1. RoutesOf(cur, e)' = {Mine(e)}
    <3>1. e = "cidr" \/ e = "default"
      BY DEF Destination
    <3> QED BY <3>1, Zenon
  <2>2. Mine(e).metric > HostMetric
    BY DEF Mine
  <2> QED BY <2>1, <2>2, FS_Singleton
<1> QED BY <1>1 DEF Whole, Configured, Sized

LEMMA FindRouteKeeps ==
  ASSUME Progressing, NEW d \in Destination, FindRoute(d), UNCHANGED <<selected, todo, rdma, kills>>
  PROVE  AtLink /\ Progressing'
<1> DEFINE wrong == {r \in RoutesOf(cur, d) : r.metric # metric[d]}
<1>1. /\ pc = FindAt[d] /\ UNCHANGED <<jumboFrame, link, cur, metric>>
      /\ routes' = (routes \ wrong) \union {}
      /\ \/ pc' \in {AddAt[d], MoveAt[d]}
         \/ pc' = NextAt[d] /\ wrong = {} /\ RoutesOf(cur, d) # {}
  BY DEF FindRoute
<1>2. \/ d = "cidr" /\ pc = "find cidr" /\ pc' \in {"add cidr", "find default"}
      \/ d = "default" /\ pc = "find default" /\ pc' \in {"add default", "move default", "rdma"}
  BY <1>1, At DEF Destination
<1>3. /\ pc \in Chosen /\ pc \in Mid /\ pc' \in After
      /\ pc' \in Mid <=> pc' # "rdma"
  BY <1>2 DEF Chosen, Mid, After
<1>4. /\ Types /\ cur \in Link /\ (kills = 0 => Partial(cur))
      /\ \A e \in Destination : metric[e] \in Nat /\ metric[e] > HostMetric
  BY <1>1, <1>3, AtItsLink
<1>5. Field("none", FALSE)
  BY <1>1, <1>4, FieldSet
<1>6. \A r \in wrong : r.dev = cur
  BY DEF RoutesOf
<1>7. ASSUME kills = 0 PROVE Reached
  <2>0. /\ link[cur].addr /\ link[cur].up /\ Sized(cur) /\ Sized(cur)'
        /\ \A e : Mine(e)' = Mine(e)
    BY <1>1, <1>2, <1>4, <1>7 DEF Partial, Mid, Sized, Mine
  <2>1. \A e \in Destination : e # d => RoutesOf(cur, e)' = RoutesOf(cur, e)
    BY <1>1 DEF RoutesOf
  <2>2. RoutesOf(cur, d)' \subseteq {Mine(d)}
    <3> SUFFICES ASSUME NEW r \in RoutesOf(cur, d)' PROVE r = Mine(d)
      OBVIOUS
    <3>1. r \in Route /\ r.dev = cur /\ r.dst = d /\ r.metric = metric[d]
      BY <1>1, <1>4 DEF RoutesOf, Types
    <3> QED BY <3>1 DEF Route, Mine
  <2>3. pc' = NextAt[d] /\ pc' \notin {AddAt[d], MoveAt[d]} => RoutesOf(cur, d)' = {Mine(d)}
    <3>1. wrong = {} => RoutesOf(cur, d)' = RoutesOf(cur, d)
      BY <1>1 DEF RoutesOf
    <3> QED BY <1>1, <2>2, <3>1
  <2>4. CASE d = "cidr"
    <3>1. Partial(cur)'
      BY <1>1, <1>2, <2>0, <2>2, <2>3, <2>4, At DEF Partial
    <3> QED BY <1>1, <1>2, <1>3, <2>0, <2>4, <3>1 DEF Reached
  <2>5. CASE d = "default"
    <3>1. RoutesOf(cur, "cidr")' = {Mine("cidr")}
      BY <1>2, <1>4, <1>7, <2>1, <2>5 DEF Partial, Destination
    <3>2. CASE pc' # "rdma"
      <4>1. Partial(cur)'
        BY <1>1, <1>2, <2>0, <2>2, <2>5, <3>1, <3>2 DEF Partial
      <4> QED BY <1>1, <1>2, <1>3, <2>0, <2>5, <3>2, <4>1 DEF Reached
    <3>3. CASE pc' = "rdma"
      <4>1. RoutesOf(cur, "default")' = {Mine("default")}
        BY <2>3, <2>5, <3>3, At
      <4>2. Whole(cur)'
        BY <1>1, <1>4, <2>0, <3>1, <4>1, BothRoutes
      <4> QED BY <1>1, <1>3, <2>0, <3>3, <4>2 DEF Reached
    <3> QED BY <3>2, <3>3
  <2> QED BY <2>4, <2>5 DEF Destination
<1> HIDE DEF wrong
<1> QED BY <1>1, <1>3, <1>5, <1>6, <1>7, StepAtLink

LEMMA AddRouteKeeps ==
  ASSUME Progressing, NEW d \in Destination, AddRoute(d), UNCHANGED <<selected, todo, rdma, kills>>
  PROVE  AtLink /\ Progressing'
<1> DEFINE new == [dev |-> cur, dst |-> d, metric |-> metric[d]]
<1>1. /\ pc \in {AddAt[d], MoveAt[d]} /\ UNCHANGED <<jumboFrame, link, cur, metric>>
      /\ routes' = (routes \ {}) \union {new} /\ pc' = NextAt[d]
  BY DEF AddRoute
<1>2. \/ d = "cidr" /\ pc = "add cidr" /\ pc' = "find default"
      \/ d = "default" /\ pc \in {"add default", "move default"} /\ pc' = "rdma"
  BY <1>1, At DEF Destination
<1>3. /\ pc \in Chosen /\ pc \in Mid /\ pc' \in After /\ "find default" \in Mid /\ "rdma" \notin Mid
  BY <1>2 DEF Chosen, Mid, After
<1>4. /\ Types /\ cur \in Link /\ (kills = 0 => Partial(cur))
      /\ \A e \in Destination : metric[e] \in Nat /\ metric[e] > HostMetric
  BY <1>1, <1>3, AtItsLink
<1>5. Field("none", FALSE)
  BY <1>1, <1>4, FieldSet
<1>7. {new} \subseteq Route /\ \A r \in {new} : r.dev = cur /\ r.metric <= metric[d]
  BY <1>4 DEF Route
<1>8. ASSUME kills = 0 PROVE Reached
  <2>0. /\ link[cur].addr /\ link[cur].up /\ Sized(cur) /\ Sized(cur)'
        /\ new = Mine(d) /\ \A e : Mine(e)' = Mine(e)
    BY <1>1, <1>2, <1>4, <1>8 DEF Partial, Mid, Sized, Mine
  <2>1. \A e \in Destination : e # d => RoutesOf(cur, e)' = RoutesOf(cur, e)
    BY <1>1 DEF RoutesOf
  <2>2. RoutesOf(cur, d) \subseteq {Mine(d)} => RoutesOf(cur, d)' = {Mine(d)}
    BY <1>1, <2>0 DEF RoutesOf
  <2>3. CASE d = "cidr"
    <3>1. RoutesOf(cur, "cidr")' = {Mine("cidr")}
      BY <1>2, <1>4, <1>8, <2>2, <2>3 DEF Partial
    <3>2. Partial(cur)'
      BY <1>1, <1>2, <2>0, <2>3, <3>1 DEF Partial
    <3> QED BY <1>1, <1>2, <1>3, <2>0, <2>3, <3>2 DEF Reached
  <2>4. CASE d = "default"
    <3>1. /\ RoutesOf(cur, "default")' = {Mine("default")}
          /\ RoutesOf(cur, "cidr")' = {Mine("cidr")}
      BY <1>2, <1>4, <1>8, <2>1, <2>2, <2>4 DEF Partial, Destination
    <3>2. Whole(cur)'
      BY <1>1, <1>4, <2>0, <3>1, BothRoutes
    <3> QED BY <1>1, <1>2, <1>3, <2>0, <2>4, <3>2 DEF Reached
  <2> QED BY <2>3, <2>4 DEF Destination
<1> HIDE DEF new
<1> QED BY <1>1, <1>3, <1>4, <1>5, <1>7, <1>8, StepAtLink

LEMMA SetLinkDownKeeps ==
  ASSUME Progressing, SetLinkDown, UNCHANGED <<selected, todo, rdma, kills>>
  PROVE  AtLink /\ Progressing'
<1> DEFINE del == {r \in routes : r.dev = cur}
<1>0. PICK v \in BOOLEAN : v = FALSE
  BY Zenon
<1>1. /\ pc = "undo" /\ pc' = "exit" /\ UNCHANGED <<jumboFrame, cur, metric>>
      /\ routes' = (routes \ del) \union {}
  BY DEF SetLinkDown
<1>2. /\ pc \in Chosen /\ pc' \in After /\ pc' \notin Mid /\ ~v
  BY <1>0, <1>1, Zenon DEF Chosen, Mid, After
<1>3. Types /\ cur \in Link
  BY <1>2, AtItsLink
<1>4. Field("up", v)
  <2>1. link' = [link EXCEPT ![cur].up = v]
    BY <1>0, Zenon DEF SetLinkDown
  <2> QED BY <1>3, <2>1, FieldSet
<1>5. Reached
  <2>1. ~link'[cur].up
    BY <1>2, <1>4 DEF Field
  <2> QED BY <1>1, <1>2, <2>1 DEF Reached, Whole
<1> HIDE DEF del
<1>6. \A r \in del : r.dev = cur
  BY DEF del
<1> QED BY <1>1, <1>2, <1>4, <1>5, <1>6, StepAtLink

LEMMA StepFailsKeeps ==
  ASSUME Progressing, StepFails \/ MoveRefused, UNCHANGED <<selected, todo, rdma, kills>>
  PROVE  Progressing'
<1>1. UNCHANGED <<jumboFrame, link, routes, cur, metric>>
  BY DEF StepFails, MoveRefused
<1>2. CASE pc \in {"conf", "mtu", "keep", "check", "up"} /\ pc' = "exit"
  <2>1. pc \notin Mid
    BY <1>2 DEF Mid
  <2> QED BY <1>1, <1>2, <2>1, Exits
<1>3. CASE \/ pc \in Mid \ {"undo"} /\ pc' = "undo"
           \/ pc = "auto" /\ pc' = "find cidr"
  <2>1. /\ pc \in Chosen /\ pc \in Mid /\ pc' \in Mid /\ pc' \in After
        /\ pc' = "undo" \/ (pc = "auto" /\ pc' = "find cidr")
    BY <1>3 DEF Chosen, Mid, After
  <2>2. kills = 0 => Partial(cur)
    BY <2>1, AtItsLink
  <2>3. ASSUME kills = 0 PROVE Reached
    <3>1. Partial(cur)'
      BY <1>1, <2>1, <2>2, <2>3 DEF Partial, Sized, Mid
    <3> QED BY <1>1, <2>1, <3>1 DEF Reached, Sized
  <2> QED BY <1>1, <2>1, <2>3, StandStill
<1> QED BY <1>2, <1>3 DEF StepFails, MoveRefused, Mid

LEMMA FaultKeeps == ASSUME Progressing, Fault PROVE Progressing'
<1>1. UNCHANGED kills
  BY DEF Fault
<1>2. CASE (StepFails \/ LookFails) /\ UNCHANGED <<runVars, envVars>>
  BY <1>1, <1>2, StepFailsKeeps, LookKeeps DEF runVars, envVars
<1>3. CASE InstallFails /\ UNCHANGED runVars
  <2>1. /\ pc = "install" /\ pc' = "exit" /\ UNCHANGED <<jumboFrame, link, routes, cur, metric>>
    BY <1>3 DEF InstallFails
  <2>2. pc \notin Mid
    BY <2>1 DEF Mid
  <2> QED BY <1>1, <1>3, <2>1, <2>2, Exits DEF runVars
<1>4. CASE UNCHANGED <<netVars, runVars, envVars>>
  BY <1>1, <1>4, Elsewhere DEF runVars, envVars
<1>5. CASE /\ pc \in {"wait", "probe", "rdma", "pnet"} /\ pc' = "exit"
           /\ UNCHANGED <<jumboFrame, link, routes, cur, metric, runVars>>
  <2>1. pc \notin Mid
    BY <1>5 DEF Mid
  <2> QED BY <1>1, <1>5, <2>1, Exits DEF runVars
<1>6. CASE PassedOver
  BY <1>1, <1>6, WaitKeeps DEF PassedOver
<1> QED BY <1>2, <1>3, <1>4, <1>5, <1>6 DEF Fault

LEMMA LinkUsed ==
  ASSUME Types, NEW l \in Link, UseLink(l)
  PROVE  /\ link' \in [Link -> LinkRec] /\ link'[l].up /\ link'[l].other
         /\ link'[l].addr = link[l].addr /\ link'[l].jumbo = link[l].jumbo
         /\ \A k \in Link : k # l => link'[k] = link[k]
<1> DEFINE n == [link[l] EXCEPT !.up = TRUE, !.other = TRUE]
<1>1. link \in [Link -> LinkRec] /\ link[l] \in LinkRec
  BY DEF Types
<1>2. link' = [link EXCEPT ![l] = n]
  BY <1>1 DEF UseLink
<1>3. n \in LinkRec /\ n.up /\ n.other /\ n.addr = link[l].addr /\ n.jumbo = link[l].jumbo
  BY <1>1 DEF LinkRec
<1> QED BY <1>1, <1>2, <1>3

\* Another program takes a link into use, perhaps the one at hand.
LEMMA OtherProgramKeeps == ASSUME Progressing, OtherProgram PROVE Progressing'
<1>1. PICK l \in Link : UseLink(l)
  BY DEF OtherProgram
<1>2. UNCHANGED <<jumboFrame, pc, cur, metric, selected, todo, rdma, kills>>
  BY <1>1 DEF OtherProgram, UseLink, runVars, envVars, budget
<1>3. Types /\ Metrics /\ Probes
  BY DEF Progressing
<1>4. /\ link' \in [Link -> LinkRec] /\ link'[l].up /\ link'[l].other
      /\ link'[l].addr = link[l].addr /\ link'[l].jumbo = link[l].jumbo
      /\ \A k \in Link : k # l => link'[k] = link[k]
  BY <1>1, <1>3, LinkUsed
<1>5. /\ routes' = routes \union AutoRouteOnUp(l) /\ AutoRouteOnUp(l) \subseteq {AutoRoute(l)}
      /\ AutoRoute(l) \in Route /\ AutoRoute(l).dev = l /\ AutoRoute(l).metric = 0
      /\ link[l].up => AutoRouteOnUp(l) = {}
  BY <1>1, AutoRouteOf DEF UseLink, AutoRouteOnUp
<1>6. Types'
  BY <1>2, <1>3, <1>4, <1>5 DEF Types
<1>7. Metrics'
  <2>1. PICK b \in Nat : \A r \in routes : r.metric <= b
    BY <1>3 DEF Metrics
  <2>2. \A r \in routes' : r.metric <= b
    BY <1>5, <2>1
  <2> QED BY <1>2, <1>3, <1>5, <2>2 DEF Metrics
<1>8. Probes'
  BY <1>2, <1>3 DEF Probes
<1>9. \A k \in Link : (link[k].up => link'[k].up) /\ (Sized(k) => Sized(k)')
  BY <1>2, <1>4 DEF Sized
<1>10. ASSUME kills = 0 PROVE Links' /\ Probed'
  <2>1. ASSUME NEW k \in Link PROVE IF pc \in Mid /\ cur = k THEN Partial(k)' ELSE Whole(k)'
    <3>1. CASE k # l
      <4>1. \A d : RoutesOf(k, d)' = RoutesOf(k, d)
        BY <1>5, <3>1 DEF RoutesOf
      <4>2. (Partial(k) => Partial(k)') /\ (Whole(k) => Whole(k)')
        BY <1>2, <1>4, <3>1, <4>1 DEF Partial, Whole, Configured, Sized, Mine
      <4> QED BY <1>10, <4>2 DEF Progressing, Links
    <3>2. CASE k = l /\ pc \in Mid /\ cur = k
      <4>1. Partial(k) /\ link[k].up
        BY <1>10, <3>2 DEF Progressing, Links, Partial
      <4>2. \A d : RoutesOf(k, d)' = RoutesOf(k, d)
        BY <1>5, <3>2, <4>1 DEF RoutesOf
      <4>3. Partial(k)'
        BY <1>2, <1>4, <3>2, <4>1, <4>2 DEF Partial, Sized, Mine
      <4> QED BY <3>2, <4>3
    <3>3. CASE k = l /\ ~(pc \in Mid /\ cur = k)
      BY <1>4, <3>3 DEF Whole
    <3> QED BY <3>1, <3>2, <3>3
  <2>2. Links'
    BY <1>2, <1>9, <1>10, <2>1 DEF Progressing, Links
  <2>3. Probed'
    BY <1>2, <1>9, <1>10 DEF Progressing, Probed
  <2> QED BY <2>2, <2>3
<1> QED BY <1>2, <1>6, <1>7, <1>8, <1>10 DEF Progressing

\* After a kill, or when the undo has failed, the links are anybody's guess.
LEMMA KillKeeps == ASSUME Progressing, Kill PROVE Progressing'
<1>1. /\ kills' = kills + 1 /\ pc' = "exit"
      /\ UNCHANGED <<jumboFrame, link, routes, cur, metric, selected, todo>>
  BY DEF Kill, UndoFails, runVars
<1>2. pc' \in Pcs /\ pc' \notin Chosen /\ pc' \notin Probing
  BY <1>1 DEF Pcs, Loop, Probing, Chosen, Mid
<1>3. Types' /\ kills' # 0
  BY <1>1, <1>2 DEF Progressing, Types
<1>4. Metrics' /\ Probes'
  BY <1>1, <1>2 DEF Progressing, Metrics, Probes
<1> QED BY <1>3, <1>4 DEF Progressing

LEMMA HostRoutesAlone ==
  /\ HostRoutes \subseteq Route /\ \A r \in HostRoutes : r.metric <= HostMetric
  /\ \A l \in Link : \A r \in HostRoutes : r.dev # l
  BY LinkAssumption DEF HostRoutes, Route

\* All links down, and only the host's routes.
LEMMA NodeUp ==
  ASSUME Types, routes = HostRoutes, link = [l \in Link |-> NoLink], pc \notin Chosen, pc # "rdma"
  PROVE  Metrics /\ Links
<1>1. Metrics
  BY HostRoutesAlone, LinkAssumption DEF Metrics
<1>2. \A l \in Link : ~link[l].up
  BY DEF NoLink
<1>3. \A l \in Link : Whole(l)
  BY <1>2 DEF Whole
<1> QED BY <1>1, <1>3 DEF Links, Chosen

LEMMA NoLinkType == NoLink \in LinkRec
  BY DEF NoLink, LinkRec

LEMMA RebootKeeps == ASSUME Progressing, Reboot PROVE Progressing'
<1>1. /\ link' = [l \in Link |-> NoLink] /\ routes' = HostRoutes /\ pc' = "exit"
      /\ UNCHANGED <<jumboFrame, cur, metric, selected, todo, kills>>
  BY DEF Reboot, runVars
<1>2. pc' \in Pcs /\ pc' \notin Chosen /\ pc' \notin Probing /\ pc' \notin Loop
  BY <1>1 DEF Pcs, Loop, Probing, Chosen, Mid
<1>3. Types'
  BY <1>1, <1>2, HostRoutesAlone, NoLinkType DEF Progressing, Types
<1>4. Metrics' /\ Links'
  <2>1. pc' \notin {"keep", "check", "up", "rdma"} /\ pc' \notin Mid
    BY <1>1 DEF Mid
  <2>2. Metrics'
    BY <1>1, <1>2, HostRoutesAlone, LinkAssumption DEF Metrics
  <2>3. ASSUME NEW l \in Link PROVE Whole(l)'
    <3>1. ~link'[l].up
      BY <1>1 DEF NoLink
    <3> QED BY <3>1 DEF Whole
  <2> QED BY <2>1, <2>2, <2>3 DEF Links
<1> QED BY <1>1, <1>2, <1>3, <1>4 DEF Progressing, Probes, Probed

---------------------------------------------------------------------------

LEMMA InitProgressing == Init => Progressing
<1> SUFFICES ASSUME Init PROVE Progressing
  OBVIOUS
<1>1. /\ link = [l \in Link |-> NoLink] /\ routes = HostRoutes /\ pc = "wait" /\ cur = Primary
      /\ metric = [d \in Destination |-> 0] /\ selected = {} /\ todo = {} /\ kills = 0
  BY DEF Init
<1>2. jumboFrame \in BOOLEAN
  <2>1. jumboFrame = JumboFrame \/ jumboFrame = FALSE
    BY Zenon DEF Init
  <2> QED BY <2>1, AgentAssumption, Zenon
<1>3. pc \in Pcs /\ pc \notin Chosen /\ pc \notin Probing /\ pc \notin Loop /\ pc # "rdma"
  BY <1>1 DEF Pcs, Loop, Probing, Chosen, Mid
<1>4. Types
  BY <1>1, <1>2, <1>3, HostRoutesAlone, NoLinkType DEF Types
<1>5. Metrics /\ Links
  BY <1>1, <1>3, <1>4, NodeUp
<1> QED BY <1>1, <1>3, <1>4, <1>5 DEF Progressing, Probes, Probed

LEMMA NextProgressing == Progressing /\ [Next]_vars => Progressing'
<1> SUFFICES ASSUME Progressing, [Next]_vars PROVE Progressing'
  OBVIOUS
<1>1. CASE NoConf
  <2>1. /\ pc = "conf" /\ pc' = "exit"
        /\ UNCHANGED <<jumboFrame, link, routes, cur, metric, kills, selected, todo>>
    BY <1>1 DEF NoConf, runVars, budget
  <2>2. pc \notin Mid
    BY <2>1 DEF Mid
  <2> QED BY <2>1, <2>2, Exits
<1>2. CASE Configure
  <2>1. EnsureNetDevice /\ UNCHANGED <<selected, todo, rdma, kills>>
    BY <1>2 DEF Configure, runVars, envVars, budget
  <2> QED BY <2>1, GetConfKeeps, LookKeeps, EnsureMTUKeeps, CheckAddressKeeps, EnsureUpLinkKeeps,
             EnsureAddressKeeps, RemoveAutoRouteKeeps, FindRouteKeeps, AddRouteKeeps,
             StepFailsKeeps, SetLinkDownKeeps
          DEF EnsureNetDevice
<1>3. CASE Run /\ ~NoConf /\ ~Configure /\ ~Request
  <2>1. WaitEriInfo \/ SelectERIs => UNCHANGED kills
    BY DEF WaitEriInfo, SelectERIs, budget
  <2> QED BY <1>3, <2>1, WaitKeeps, InstallKeeps, ProbeNextKeeps, ProbeRdmaKeeps, ServeKeeps,
             RestartKeeps
          DEF Run, SelectERIs
<1>4. CASE Request \/ Serving \/ Surroundings \/ MetadataServer \/ UNCHANGED vars
  <2>1. UNCHANGED <<netVars, selected, todo, kills>> /\ rdma \subseteq rdma'
    BY <1>4 DEF Request, Serving, Surroundings, ListDevice, AttachENI, CreateRdma, MetadataServer,
                vars, runVars, envVars, budget
  <2> QED BY <2>1, Elsewhere
<1>5. CASE OtherProgram \/ Fault \/ Kill \/ Reboot
  BY <1>5, OtherProgramKeeps, FaultKeeps, KillKeeps, RebootKeeps
<1> QED BY <1>1, <1>2, <1>3, <1>4, <1>5 DEF Next, Run

\* When the device plugin serves, every device it serves has its RDMA device and
\* its link is up with its address, the MTU that was asked for and its two routes
\* and no other, none preferred to the host's own, however many netlink calls
\* (those of hasNonLinkLocalAddr too), metadata requests and attempts failed and
\* reboots came on the way (EnsureNetDevice, Agent.Run), as long as no process was
\* killed and no undo failed; a link another program brought up with an address of
\* its own is only sure to be up with its MTU.
THEOREM ConfiguredWhenServed == Spec => []ServedConfigured
<1>1. Progressing => ServedConfigured
  <2> SUFFICES ASSUME Progressing, pc = "serving", kills = 0, NEW i \in selected
               PROVE  /\ Devices[i] \in rdma
                      /\ Devices[i] \in Link => Configured(Devices[i]) \/ Lent(Devices[i])
    BY DEF ServedConfigured, AllConfigured
  <2>1. todo = {} /\ pc \notin Mid
    BY DEF Progressing, Probes, Mid
  <2>2. /\ Devices[i] \in rdma
        /\ Devices[i] \in Link => link[Devices[i]].up /\ Sized(Devices[i])
    BY <2>1 DEF Progressing, Probed
  <2>3. Devices[i] \in Link => Whole(Devices[i])
    BY <2>1 DEF Progressing, Links
  <2> QED BY <2>2, <2>3 DEF Whole, Lent, Sized
<1> QED BY <1>1, InitProgressing, NextProgressing, PTL DEF Spec

---------------------------------------------------------------------------
(* Configured links stay configured                                        *)

\* Where EnsureNetDevice configures its link.
AtHand == Mid \union {"mtu", "up"}

\* A link that is not up with its address has no default route, nor has the one at
\* hand if its addresses were read: the default route comes last.
InHand ==
    /\ reboots \in Nat
    /\ \A l \in Link : (link[l].up /\ link[l].addr) \/ RoutesOf(l, "default") = {}
    /\ pc \in AtHand /\ ~unread => RoutesOf(cur, "default") = {}
    /\ pc \in Mid => link[cur].up
    /\ pc \in Mid \ {"addr", "undo"} => link[cur].addr

\* What the property says of a step.
Stay ==
    reboots' = reboots =>
        \A l \in Link : Configured(l) /\ ~(unread /\ l = cur) => Configured(l)'

LEMMA OtherLink ==
  ASSUME NEW l, jumboFrame' = jumboFrame, link'[l] = link[l],
         \A r : r.dev = l => (r \in routes' <=> r \in routes)
  PROVE  /\ Configured(l) => Configured(l)'
         /\ RoutesOf(l, "default")' = RoutesOf(l, "default")
<1>1. \A d : RoutesOf(l, d)' = RoutesOf(l, d)
  BY DEF RoutesOf
<1> QED BY <1>1 DEF Configured

LEMMA NotConfigured ==
  ASSUME InHand, pc \in AtHand, ~unread
  PROVE  ~Configured(cur)
<1>1. Cardinality(RoutesOf(cur, "default")) = 0
  BY FS_EmptySet DEF InHand
<1> QED BY <1>1 DEF Configured, Destination

\* A step that leaves the links as they are.
LEMMA LinksAsTheyAre ==
  ASSUME InHand, UNCHANGED <<jumboFrame, link, routes, reboots>>,
         \/ pc' \notin AtHand
         \/ /\ pc \in AtHand /\ UNCHANGED <<cur, unread>>
            /\ pc' \in {pc, "undo"} /\ (pc' = "undo" => pc \in Mid)
         \/ UNCHANGED <<cur, unread>> /\ pc = "auto" /\ pc' = "find cidr"
  PROVE  InHand' /\ Stay
<1>1. \A l, d : RoutesOf(l, d)' = RoutesOf(l, d)
  BY DEF RoutesOf
<1>2. Stay
  BY OtherLink DEF Stay
<1> QED BY <1>1, <1>2 DEF InHand, AtHand, Mid

\* A step of EnsureNetDevice at the link at hand.
LEMMA LinkAtHand ==
  ASSUME InHand, AtLink, pc \in AtHand, pc' \notin {"mtu", "up"}, UNCHANGED <<reboots, unread>>,
         (link'[cur].up /\ link'[cur].addr) \/ RoutesOf(cur, "default")' = {},
         pc' \in Mid => /\ ~unread => RoutesOf(cur, "default")' = {}
                        /\ link'[cur].up
                        /\ pc' \notin {"addr", "undo"} => link'[cur].addr
  PROVE  InHand' /\ Stay
<1>1. ASSUME NEW l \in Link, l # cur
      PROVE  /\ Configured(l) => Configured(l)'
             /\ RoutesOf(l, "default")' = RoutesOf(l, "default") /\ link'[l] = link[l]
  BY <1>1, OtherLink DEF AtLink
<1>2. cur' = cur
  BY DEF AtLink
<1>3. ASSUME NEW l \in Link
      PROVE  (link'[l].up /\ link'[l].addr) \/ RoutesOf(l, "default")' = {}
  <2>1. CASE l = cur
    BY <1>2, <2>1 DEF RoutesOf
  <2>2. CASE l # cur
    BY <1>1, <2>2 DEF InHand
  <2> QED BY <2>1, <2>2
<1>4. InHand'
  BY <1>2, <1>3 DEF InHand, AtHand
<1> QED BY <1>1, <1>4, NotConfigured DEF Stay

LEMMA LookInHand ==
  ASSUME InHand, LookAtLink \/ LookFails, cur \in Link, reboots' = reboots
  PROVE  InHand' /\ Stay
<1>1. /\ pc = "look" /\ UNCHANGED <<jumboFrame, link, routes, cur>>
      /\ pc' = "keep" \/ (pc' = "mtu" /\ (~unread' => ~(link[cur].up /\ link[cur].addr)))
  BY DEF LookAtLink, LookFails
<1>2. pc' \notin Mid
  BY <1>1 DEF Mid
<1>3. \A l, d : RoutesOf(l, d)' = RoutesOf(l, d)
  BY <1>1 DEF RoutesOf
<1>4. InHand'
  BY <1>1, <1>2, <1>3 DEF InHand, AtHand
<1>5. Stay
  BY <1>1, OtherLink DEF Stay
<1> QED BY <1>4, <1>5

LEMMA MTUInHand ==
  ASSUME Progressing, InHand, EnsureMTU, reboots' = reboots
  PROVE  InHand' /\ Stay
<1>1. /\ UNCHANGED <<jumboFrame, routes, cur, unread>>
      /\ (pc = "mtu" /\ pc' = "up") \/ (pc = "keep" /\ pc' = "check")
      /\ link' = [link EXCEPT ![cur].jumbo = @ \/ jumboFrame]
  BY DEF EnsureMTU
<1>2. pc \in Chosen /\ pc' \notin Mid
  BY <1>1 DEF Chosen, Mid
<1>3. Types /\ cur \in Link
  BY <1>2, AtItsLink
<1>4. /\ \A l \in Link : link'[l].up = link[l].up /\ link'[l].addr = link[l].addr
      /\ \A l \in Link : (jumboFrame => link[l].jumbo) => (jumboFrame => link'[l].jumbo)
  BY <1>1, <1>3 DEF Types, LinkRec
<1>5. \A l, d : RoutesOf(l, d)' = RoutesOf(l, d)
  BY <1>1 DEF RoutesOf
<1>6. InHand'
  <2>1. pc' \in AtHand => pc \in AtHand
    BY <1>1 DEF AtHand, Mid
  <2> QED BY <1>1, <1>2, <1>3, <1>4, <1>5, <2>1 DEF InHand
<1>7. Stay
  BY <1>1, <1>4, <1>5 DEF Stay, Configured
<1> QED BY <1>6, <1>7

LEMMA UseInHand ==
  ASSUME Progressing, InHand, NEW l \in Link, UseLink(l), reboots' = reboots
  PROVE  InHand' /\ Stay
<1>0. Types
  BY DEF Progressing
<1>1. UNCHANGED <<jumboFrame, pc, cur, unread>>
  BY DEF UseLink
<1>2. /\ link'[l].up /\ link'[l].addr = link[l].addr /\ link'[l].jumbo = link[l].jumbo
      /\ \A k \in Link : k # l => link'[k] = link[k]
  BY <1>0, LinkUsed
<1>3. /\ routes' = routes \union AutoRouteOnUp(l) /\ AutoRouteOnUp(l) \subseteq {AutoRoute(l)}
      /\ AutoRoute(l).dev = l /\ AutoRoute(l).dst = "cidr"
      /\ link[l].up => AutoRouteOnUp(l) = {}
  BY AutoRouteOf DEF UseLink, AutoRouteOnUp
<1>4. \A k : RoutesOf(k, "default")' = RoutesOf(k, "default")
  BY <1>3 DEF RoutesOf
<1>5. InHand'
  <2>1. cur \in Link => (link[cur].up => link'[cur].up) /\ link'[cur].addr = link[cur].addr
    BY <1>2
  <2>2. pc \in Mid => cur \in Link
    BY AtItsLink DEF Chosen
  <2> QED BY <1>1, <1>2, <1>4, <2>1, <2>2 DEF InHand
<1>6. ASSUME NEW k \in Link, Configured(k) PROVE Configured(k)'
  <2>1. link[k].up
    BY <1>6 DEF Configured
  <2>2. \A d : RoutesOf(k, d)' = RoutesOf(k, d)
    BY <1>3, <2>1 DEF RoutesOf
  <2> QED BY <1>1, <1>2, <1>6, <2>1, <2>2 DEF Configured
<1> QED BY <1>5, <1>6 DEF Stay

\* The steps past the MTU: only AddRoute gives the link at hand a default route, and
\* it is the last.
LEMMA StepsInHand ==
  ASSUME Progressing, InHand, UNCHANGED <<selected, todo, rdma, kills, reboots>>,
         \/ EnsureUpLink \/ EnsureAddress \/ RemoveAutoRoute \/ SetLinkDown
         \/ \E d \in Destination : FindRoute(d) \/ AddRoute(d)
  PROVE  InHand' /\ Stay
<1>1. AtLink
  BY EnsureUpLinkKeeps, EnsureAddressKeeps, RemoveAutoRouteKeeps, FindRouteKeeps, AddRouteKeeps,
     SetLinkDownKeeps
<1>2. pc \in AtHand /\ pc' \notin {"mtu", "up"} /\ unread' = unread
  BY At DEF EnsureUpLink, EnsureAddress, RemoveAutoRoute, SetLinkDown, FindRoute, AddRoute,
            AtHand, Mid, Destination
<1>3. /\ cur \in Link /\ cur' = cur /\ Types /\ AutoRoute(cur).dst = "cidr" /\ pc \in Chosen
      /\ ~unread => RoutesOf(cur, "default") = {}
      /\ (link[cur].up /\ link[cur].addr) \/ RoutesOf(cur, "default") = {}
  <2>1. pc \in Chosen
    BY <1>2 DEF AtHand, Chosen
  <2> QED BY <1>1, <1>2, <2>1, AtItsLink, AutoRouteOf DEF AtLink, InHand
<1>4. CASE EnsureUpLink
  <2>1. link'[cur].up /\ link'[cur].addr = link[cur].addr /\ pc' = "addr"
    BY <1>3, <1>4 DEF EnsureUpLink, Types, LinkRec
  <2>2. RoutesOf(cur, "default")' = RoutesOf(cur, "default")
    BY <1>3, <1>4 DEF EnsureUpLink, AutoRouteOnUp, RoutesOf
  <2> QED BY <1>1, <1>2, <1>3, <2>1, <2>2, LinkAtHand
<1>5. CASE EnsureAddress
  <2>1. link'[cur].up /\ link'[cur].addr
    BY <1>3, <1>5 DEF EnsureAddress, Types, LinkRec, InHand, Mid
  <2>2. RoutesOf(cur, "default")' = RoutesOf(cur, "default")
    BY <1>3, <1>5 DEF EnsureAddress, RoutesOf
  <2> QED BY <1>1, <1>2, <1>3, <2>1, <2>2, LinkAtHand
<1>6. CASE RemoveAutoRoute \/ \E d \in Destination : FindRoute(d)
  <2>1. link' = link /\ routes' \subseteq routes /\ pc \in Mid \ {"addr", "undo"}
    BY <1>6, At DEF RemoveAutoRoute, FindRoute, Mid, Destination
  <2>2. /\ ~unread => RoutesOf(cur, "default")' = {}
        /\ link'[cur].up /\ link'[cur].addr
    BY <1>3, <2>1 DEF RoutesOf, InHand
  <2> QED BY <1>1, <1>2, <2>2, LinkAtHand
<1>7. CASE \E d \in Destination : AddRoute(d)
  <2>1. /\ link' = link /\ pc \in Mid \ {"addr", "undo"}
        /\ pc' = "find default" \/ pc' = "rdma"
        /\ pc' = "find default" =>
             routes' = routes \union {[dev |-> cur, dst |-> "cidr", metric |-> metric["cidr"]]}
    <3>1. PICK d \in Destination : AddRoute(d)
      BY <1>7
    <3>2. /\ link' = link /\ pc \in {AddAt[d], MoveAt[d]} /\ pc' = NextAt[d]
          /\ routes' = routes \union {[dev |-> cur, dst |-> d, metric |-> metric[d]]}
      BY <3>1 DEF AddRoute
    <3>3. CASE d = "cidr"
      BY <3>2, <3>3, At DEF Mid
    <3>4. CASE d = "default"
      BY <3>2, <3>4, At DEF Mid
    <3> QED BY <3>3, <3>4 DEF Destination
  <2>2. link'[cur].up /\ link'[cur].addr /\ "rdma" \notin Mid
    BY <1>3, <2>1 DEF InHand, Mid
  <2>3. ASSUME pc' \in Mid, ~unread PROVE RoutesOf(cur, "default")' = {}
    <3>1. PICK r : r = [dev |-> cur, dst |-> "cidr", metric |-> metric["cidr"]]
      OBVIOUS
    <3>2. routes' = routes \union {r} /\ r.dst # "default"
      BY <2>1, <2>2, <2>3, <3>1
    <3> QED BY <1>3, <2>3, <3>2 DEF RoutesOf
  <2> QED BY <1>1, <1>2, <2>2, <2>3, LinkAtHand
<1>8. CASE SetLinkDown
  <2>1. RoutesOf(cur, "default")' = {} /\ pc' \notin Mid
    BY <1>3, <1>8 DEF SetLinkDown, RoutesOf, Mid
  <2> QED BY <1>1, <1>2, <2>1, LinkAtHand
<1> QED BY <1>4, <1>5, <1>6, <1>7, <1>8

LEMMA NextInHand == ASSUME Progressing, InHand, [Next]_vars PROVE InHand' /\ Stay
<1>1. CASE Configure
  <2>1. EnsureNetDevice /\ UNCHANGED <<selected, todo, rdma, kills, reboots>>
    BY <1>1 DEF Configure, runVars, envVars, budget
  <2>2. CASE GetConf
    <3>1. UNCHANGED <<jumboFrame, link, routes>> /\ pc' \notin AtHand
      BY <2>2 DEF GetConf, AtHand, Mid
    <3> QED BY <2>1, <3>1, LinksAsTheyAre
  <2>3. CASE LookAtLink
    <3>1. pc \in Chosen
      BY <2>3 DEF LookAtLink, Chosen
    <3> QED BY <2>1, <2>3, <3>1, AtItsLink, LookInHand
  <2>4. CASE CheckAddress
    <3>1. UNCHANGED <<jumboFrame, link, routes>> /\ pc' \notin AtHand
      BY <2>4 DEF CheckAddress, AtHand, Mid
    <3> QED BY <2>1, <3>1, LinksAsTheyAre
  <2>5. CASE MoveRefused
    <3>1. /\ UNCHANGED <<jumboFrame, link, routes, cur, unread>>
          /\ pc \in AtHand /\ pc \in Mid /\ pc' = "undo"
      BY <2>5 DEF MoveRefused, AtHand, Mid
    <3> QED BY <2>1, <3>1, LinksAsTheyAre
  <2> QED BY <2>1, <2>2, <2>3, <2>4, <2>5, MTUInHand, StepsInHand DEF EnsureNetDevice
<1>2. CASE Run /\ ~Configure /\ ~Request
  <2>1. UNCHANGED <<jumboFrame, link, routes, reboots>> /\ pc' \notin AtHand
    BY <1>2 DEF Run, WaitEriInfo, SelectERIs, SelectAmong, Install, ProbeNext, ProbeRdma,
                ConfigSMCPnet, NoConf, Restart, AtHand, Mid, budget
  <2> QED BY <2>1, LinksAsTheyAre
<1>3. CASE Request \/ Serving \/ Surroundings \/ MetadataServer \/ UNCHANGED vars
  <2>1. UNCHANGED <<jumboFrame, link, routes, pc, cur, unread, reboots>>
    BY <1>3 DEF Request, Serving, Surroundings, ListDevice, AttachENI, CreateRdma, MetadataServer,
                vars, netVars, budget
  <2>2. pc \in AtHand => (pc = "undo" => pc \in Mid)
    BY DEF Mid
  <2> QED BY <2>1, <2>2, LinksAsTheyAre
<1>4. CASE Fault
  <2>1. CASE LookFails
    <3>1. pc \in Chosen /\ reboots' = reboots
      BY <1>4, <2>1 DEF LookFails, Chosen, Fault
    <3> QED BY <2>1, <3>1, AtItsLink, LookInHand
  <2>2. CASE ~LookFails
    <3>1. UNCHANGED <<jumboFrame, link, routes, reboots>>
      BY <1>4, <2>2 DEF Fault, StepFails, InstallFails, PassedOver, SelectAmong, netVars
    <3>2. \/ pc' \notin AtHand
          \/ /\ pc \in AtHand /\ UNCHANGED <<cur, unread>>
             /\ pc' \in {pc, "undo"} /\ (pc' = "undo" => pc \in Mid)
          \/ UNCHANGED <<cur, unread>> /\ pc = "auto" /\ pc' = "find cidr"
      BY <1>4, <2>2 DEF Fault, StepFails, InstallFails, PassedOver, SelectAmong, netVars,
                        AtHand, Mid
    <3> QED BY <3>1, <3>2, LinksAsTheyAre
  <2> QED BY <2>1, <2>2
<1>5. CASE Kill
  <2>1. UNCHANGED <<jumboFrame, link, routes, reboots>> /\ pc' \notin AtHand
    BY <1>5 DEF Kill, UndoFails, AtHand, Mid
  <2> QED BY <2>1, LinksAsTheyAre
<1>6. CASE Reboot
  <2>1. reboots' = reboots + 1 /\ routes' = HostRoutes /\ pc' \notin AtHand /\ pc' \notin Mid
    BY <1>6 DEF Reboot, AtHand, Mid
  <2>2. \A l \in Link : RoutesOf(l, "default")' = {}
    BY <2>1, HostRoutesAlone DEF RoutesOf
  <2>3. InHand' /\ reboots' # reboots
    BY <2>1, <2>2 DEF InHand
  <2> QED BY <2>3 DEF Stay
<1>7. CASE OtherProgram
  BY <1>7, UseInHand DEF OtherProgram, budget
<1> QED BY <1>1, <1>2, <1>3, <1>4, <1>5, <1>6, <1>7 DEF Next

\* Besides a reboot, only an attempt that cannot read the addresses of a configured
\* link takes it out of service, whatever else fails or is killed at whatever point:
\* EnsureNetDevice keeps such a link, and when its deferred LinkSetDown runs for one
\* whose addresses were read, the link was not configured yet (its default route,
\* which comes last, is missing).
THEOREM LinksStayConfigured == Spec => ConfiguredStays
<1>1. Init => InHand
  <2> SUFFICES ASSUME Init PROVE InHand
    OBVIOUS
  <2>1. routes = HostRoutes /\ pc = "wait" /\ reboots = 0
    BY DEF Init
  <2>2. \A l \in Link : RoutesOf(l, "default") = {}
    BY <2>1, HostRoutesAlone DEF RoutesOf
  <2> QED BY <2>1, <2>2 DEF InHand, AtHand, Mid
<1>2. Progressing /\ InHand /\ [Next]_vars => InHand' /\ Stay
  BY NextInHand
<1>3. Stay => [reboots' = reboots =>
                 \A l \in Link : Configured(l) /\ ~(unread /\ l = cur) => Configured(l)']_vars
  BY DEF Stay
<1>4. Spec => [][reboots' = reboots =>
                 \A l \in Link : Configured(l) /\ ~(unread /\ l = cur) => Configured(l)']_vars
  BY <1>1, <1>2, <1>3, InitProgressing, NextProgressing, PTL DEF Spec
<1> QED BY <1>4 DEF ConfiguredStays
===============================================================================

--------------------------- MODULE PodStartProofs ---------------------------
(***************************************************************************)
(* What holds of module PodStart for any number of pods, devices, failures *)
(* and deaths: SmcrReady, OnlyAskedFor, HostUntouched.                     *)
(*                                                                         *)
(* The argument: ids are never shared by two pods the kubelet accounts for *)
(* (Accounts), so the pod a call finds is the one it was made for, or one  *)
(* that took over an id of a pod that is gone (Calls).  A namespace starts *)
(* clean with its sandbox and settings are only added to it, so what a job *)
(* has set is there when it ends well (SetUp), unless the sandbox was      *)
(* replaced, and then the container is not started on its answer.          *)
(***************************************************************************)
EXTENDS PodStart, TLAPS, FiniteSetTheorems

SpecRec == [smcr : STRING, host : BOOLEAN, want : Nat]
Containers == {"init", "app"}
KubeStates == {"new", "admit", "sync", "calling", "running", "rejected", "gone"}

\* Where a job changes the namespace, and where it has found its pod.
Setting == {"tcp2smc", "ipv6", "show", "add"}
InPod   == Setting \union {"config"}
JobPcs  == InPod \union {"idle", "lookup", "ok", "failed"}

SettingsRec == [tcp2smc : BOOLEAN, noIPv6 : BOOLEAN, pnet : Device \union {None}]
JobRec == [pc : JobPcs, pod : Pod \union {None}, epoch : Nat, dev : Device \union {None}]

Types ==
    /\ spec \in [Pod -> SpecRec] /\ config \in Configs
    /\ ids \in [Pod -> [Containers -> SUBSET ID]]
    /\ granted \in [Pod -> [Containers -> SUBSET Device]]
    /\ pnetEnv \in [Pod -> Device \union {None}]
    /\ live \subseteq Pod /\ up \subseteq Pod /\ injected \subseteq Pod /\ inited \subseteq Pod
    /\ sandbox \in [Pod -> Nat]
    /\ netns \in [Pod \union {Host} -> SettingsRec]
    /\ job \in [Job -> JobRec]
    /\ kube \in [Pod -> KubeStates]

---------------------------------------------------------------------------
(* The devices                                                             *)

Living == {"admit", "sync", "calling", "running"}
Placed == {"sync", "calling", "running", "gone"}  \* all devices are assigned
Held(p) == ids[p]["init"] \union ids[p]["app"]

\* The kubelet's accounts: what a pod is to have by the state it is in, and no id
\* with two pods it accounts for.
Accounts ==
    /\ \A p \in Pod : p \in live <=> kube[p] \in Living
    /\ \A p \in Pod : kube[p] \notin Placed => ids[p]["app"] = {}
    /\ \A p \in Pod : kube[p] = "new" => ids[p]["init"] = {} /\ p \notin injected
    /\ \A p \in Pod : kube[p] = "admit" => spec[p].want > 0
    /\ \A p \in live : \A q \in live : p # q => Held(p) \intersect Held(q) = {}

\* What Allocate gave the containers follows from their ids.
Grants ==
    \A p \in Pod :
        /\ ids[p]["init"] # {} => pnetEnv[p] \in Asked(ids[p]["init"])
        /\ kube[p] \in Placed =>
             /\ p \in injected => ids[p]["init"] # {}
             /\ spec[p].want > 0 => /\ ids[p]["init"] \subseteq ids[p]["app"]
                                    /\ granted[p]["app"] = Asked(ids[p]["app"])
             /\ spec[p].want = 0 => ids[p]["app"] = {}

\* Who has the init container, and where.
Injections ==
    /\ \A p \in Pod : p \in injected => podWebhook(p)
    /\ \A p \in Pod : p \in answered /\ podWebhook(p) => p \in injected

---------------------------------------------------------------------------
(* The jobs                                                                *)

\* A device the namespace of the pod may be tied to.
Allowed(p, d) ==
    \/ d \in granted[p]["app"]
    \/ \E q \in Strays(p) : d \in DevicesOf(ids[q]["app"])

\* A job of the init container works for its own pod in the sandbox that is up.
InitOK(p) ==
    LET r == job[<<p, "init">>] IN
    /\ r.pc \notin {"lookup", "config"}
    /\ r.pc \in Setting \union {"ok"} =>
         p \in up /\ p \in injected /\ p \notin inited /\ kube[p] = "sync"
    /\ r.pc \in Setting => r.pod = p /\ r.epoch = sandbox[p] /\ r.dev = pnetEnv[p]

InitJobs == \A p \in Pod : InitOK(p)

\* A call of PreStartContainer: made for a pod that has all its devices, it finds
\* that pod, or one that took over an id of it.
CallOK(p, k) ==
    LET r == job[<<p, k>>] IN
    /\ r.pc = "idle" => r = Idle
    /\ k = "call" /\ r.pc # "idle" => kube[p] = "calling"
    /\ r.pc # "idle" => config.preStart /\ kube[p] \in Placed /\ spec[p].want > 0
    /\ r.pc \in InPod => /\ r.pod \in Pod /\ kube[r.pod] \in Placed
                         /\ r.pod = p \/ p \in Strays(r.pod)
    /\ r.pc \in Setting => SMCR(r.pod) = "true" /\ r.dev \in DevicesOf(ids[p]["app"])
    /\ k = "call" /\ r.pc \in Setting => r.epoch = sandbox[p]

Calls == \A p \in Pod : \A k \in ({"call"} \union Late) : CallOK(p, k)

\* The settings a job has to make, and those made when it is at pc.
Complete(n) == n.tcp2smc /\ n.noIPv6 /\ n.pnet # None
SoFar(n, pc) ==
    /\ pc \in {"ipv6", "show", "add"} => n.tcp2smc
    /\ pc \in {"show", "add"} => n.noIPv6

\* The namespace of a pod is new with its sandbox and tied to one of its devices.
SpaceOK(p) ==
    /\ p \in up => kube[p] \in {"sync", "calling", "running"}
    /\ p \notin up => netns[p] = Clean
    /\ netns[p].pnet # None => Allowed(p, netns[p].pnet)

Namespaces == \A p \in Pod : SpaceOK(p)

\* What the jobs the kubelet waits for, and those that ended well, have done.
SetUpOK(p) ==
    LET n == netns[NetnsOf(p)] IN
    /\ p \in inited => p \in up /\ Complete(n)
    /\ kube[p] = "running" =>
         /\ p \in up /\ (p \in injected => p \in inited)
         /\ PreStartRequired(p) /\ SMCR(p) = "true" => Complete(n)
    /\ p \in up =>
         /\ SoFar(n, job[<<p, "init">>].pc) /\ SoFar(n, job[<<p, "call">>].pc)
         /\ job[<<p, "init">>].pc = "ok" => Complete(n)
         /\ job[<<p, "call">>].pc = "ok" /\ SMCR(p) = "true" => Complete(n)

SetUp == \A p \in Pod : SetUpOK(p)

Devices  == Accounts /\ Grants /\ Injections
Inductive == Types /\ Devices /\ InitJobs /\ Calls /\ Namespaces /\ SetUp

---------------------------------------------------------------------------
(* The operators                                                           *)

LEMMA DevicesOfIds == ASSUME NEW s \in SUBSET ID PROVE DevicesOf(s) \subseteq Device
  BY DEF DevicesOf, ID

LEMMA AskedTypes ==
  ASSUME NEW s \in SUBSET ID
  PROVE  Asked(s) \subseteq Device /\ DevicesOf(s) \subseteq Asked(s)
  BY DevicesOfIds DEF Asked

LEMMA AskedMonotone ==
  ASSUME NEW s, NEW t, s \subseteq t
  PROVE  Asked(s) \subseteq Asked(t)
  BY DEF Asked, DevicesOf

\* A request with one container is answered with what it asks for, if at all.
LEMMA AllocateOne ==
  ASSUME NEW s, 1 \in DOMAIN Allocate(<<s>>)
  PROVE  Allocate(<<s>>)[1] = Asked(s)
<1> DEFINE given == [i \in DOMAIN <<s>> |->
                       Asked(<<s>>[i]) \ UNION {Asked(<<s>>[k]) : k \in 1..(i - 1)}]
           served == {i \in DOMAIN given : given[i] # {}}
           nth(k) == CHOOSE i \in served : Cardinality({h \in served : h <= i}) = k
<1>1. DOMAIN <<s>> = {1} /\ <<s>>[1] = s
  OBVIOUS
<1>2. DOMAIN given = {1} /\ given[1] = Asked(s)
  <2>1. 1..(1 - 1) = {}
    OBVIOUS
  <2>2. UNION {Asked(<<s>>[k]) : k \in 1..(1 - 1)} = {}
    BY <2>1
  <2> QED BY <1>1, <2>2
<1>3. Allocate(<<s>>) = [k \in 1..Cardinality(served) |-> given[nth(k)]]
  BY DEF Allocate, Responses
<1> HIDE DEF given
<1>4. served = {1}
  <2>1. served # {}
    <3> SUFFICES ASSUME served = {} PROVE FALSE
      OBVIOUS
    <3>1. Cardinality(served) = 0
      BY FS_EmptySet
    <3>2. DOMAIN Allocate(<<s>>) = 1..0
      BY <1>3, <3>1
    <3> QED BY <3>2
  <2> QED BY <1>2, <2>1
<1>5. nth(1) = 1
  <2>1. {h \in {1} : h <= 1} = {1} /\ Cardinality({1}) = 1
    BY FS_Singleton
  <2>2. \A i \in {1} : Cardinality({h \in {1} : h <= i}) = 1 /\ i = 1
    BY <2>1
  <2>3. (CHOOSE i \in {1} : Cardinality({h \in {1} : h <= i}) = 1) = 1
    BY <2>2
  <2> QED BY <1>4, <2>3
<1>6. 1 \in 1..Cardinality(served)
  BY <1>4, FS_Singleton
<1> HIDE DEF served, nth
<1>7. Allocate(<<s>>)[1] = given[nth(1)]
  BY <1>3, <1>6
<1> QED BY <1>2, <1>5, <1>7

\* The ids offered for a container are free, or those of the init container.
LEMMA AssignableIds ==
  ASSUME Types, NEW p \in Pod, NEW c \in Containers, NEW s \in Assignable(p, c)
  PROVE  /\ s \subseteq ID
         /\ s \subseteq Free \union ids[p]["init"]
         /\ c = "init" => s # {} /\ s \subseteq Free
         /\ c = "app" => ids[p]["init"] \subseteq s
<1>1. Free \subseteq ID
  BY DEF Free
<1>2. ids[p]["init"] \subseteq ID
  BY DEF Types, Containers
<1>3. CASE c = "init"
  <2>1. s \in kSubset(1, Free)
    BY <1>3 DEF Assignable
  <2>2. s \subseteq Free /\ Cardinality(s) = 1
    BY <2>1 DEF kSubset
  <2>3. s # {}
    BY <2>2, FS_EmptySet
  <2> QED BY <1>1, <1>3, <2>2, <2>3
<1>4. CASE c = "app"
  <2>1. PICK t \in kSubset(spec[p].want - Cardinality(ids[p]["init"]), Free) :
          s = ids[p]["init"] \union t
    BY <1>4 DEF Assignable
  <2>2. t \subseteq Free
    BY <2>1 DEF kSubset
  <2> QED BY <1>1, <1>2, <1>4, <2>1, <2>2
<1> QED BY <1>3, <1>4 DEF Containers

\* A free id is held by no pod the kubelet accounts for.
LEMMA FreeIsFree ==
  ASSUME NEW q \in live
  PROVE  Free \intersect Held(q) = {}
  BY DEF Free, Held

---------------------------------------------------------------------------
(* The initial state                                                       *)

LEMMA InitInductive == Init => Inductive
<1> SUFFICES ASSUME Init PROVE Inductive
  OBVIOUS
<1>1. Types
  <2>1. spec \in [Pod -> SpecRec] /\ config \in Configs
    BY StartAssumption DEF Init, SpecRec
  <2>2. /\ ids \in [Pod -> [Containers -> SUBSET ID]]
        /\ granted \in [Pod -> [Containers -> SUBSET Device]]
    BY DEF Init, Containers
  <2>3. netns \in [Pod \union {Host} -> SettingsRec] /\ job \in [Job -> JobRec]
    BY DEF Init, Clean, Idle, SettingsRec, JobRec, JobPcs, InPod, Setting
  <2> QED BY <2>1, <2>2, <2>3 DEF Init, Types, KubeStates
<1>2. Devices
  BY <1>1 DEF Init, Devices, Accounts, Grants, Injections, Held, Living, Placed, Types, Containers
<1>3. \A p \in Pod : \A k \in ({"init", "call"} \union Late) : job[<<p, k>>] = Idle
  BY DEF Init, Job
<1>4. InitJobs /\ Calls
  <2>1. Idle.pc = "idle" /\ Idle.pc \notin InPod \union {"ok", "lookup"}
    BY DEF Idle, InPod, Setting
  <2>2. InitJobs
    BY <1>3, <2>1 DEF InitJobs, InitOK, InPod
  <2>3. Calls
    BY <1>3, <2>1 DEF Calls, CallOK, InPod
  <2> QED BY <2>2, <2>3
<1>5. \A n \in Pod \union {Host} : netns[n] = Clean
  BY DEF Init
<1>6. Namespaces
  BY <1>5 DEF Init, Namespaces, SpaceOK, Clean
<1>7. SetUp
  BY <1>3 DEF Init, SetUp, SetUpOK, SoFar, Idle
<1> QED BY <1>1, <1>2, <1>4, <1>6, <1>7 DEF Inductive

---------------------------------------------------------------------------
(* The steps of a job                                                      *)

\* What a step of one job leaves alone.
Works(j) ==
    /\ UNCHANGED <<spec, config, ids, live, sandbox, up, kubeVars>>
    /\ \A i \in Job : i # j => job'[i] = job[i]

\* One namespace gains a setting.
Grown(a, b, d) ==
    /\ a.tcp2smc => b.tcp2smc
    /\ a.noIPv6 => b.noIPv6
    /\ b.pnet = a.pnet \/ (a.pnet = None /\ b.pnet = d)

\* getDevPod found a pod.
Finds(j) ==
    /\ job[j].pc = "lookup" /\ netns' = netns
    /\ \E p \in live : /\ ids[j[1]]["app"] \intersect ids[p]["app"] # {}
                       /\ job'[j].pc = "config" /\ job'[j].pod = p

\* getPodConfig found an annotation to act on.
Enters(j) ==
    /\ job[j].pc = "config" /\ netns' = netns
    /\ SMCR(job[j].pod) = "true"
    /\ job'[j].pc = "tcp2smc" /\ job'[j].pod = job[j].pod
    /\ job'[j].epoch = sandbox[job[j].pod]
    /\ job'[j].dev \in DevicesOf(ids[j[1]]["app"])

\* The job ends without having done anything.
Ends(j) ==
    /\ job[j].pc \in InPod \union {"lookup"} /\ netns' = netns
    /\ \/ job'[j] = After(j, "failed")
       \/ /\ job[j].pc = "config" /\ SMCR(job[j].pod) # "true"
          /\ job'[j] = After(j, "ok")

\* The job works in the namespace of its pod.
Sets(j) ==
    LET t == NetnsOf(job[j].pod) IN
    /\ job[j].pc \in Setting /\ Reaches(j)
    /\ netns' = [netns EXCEPT ![t] = netns'[t]]
    /\ Grown(netns[t], netns'[t], job[j].dev)
    /\ \/ job'[j] = After(j, "failed")
       \/ /\ job'[j] = After(j, "ok")
          /\ SoFar(netns[t], job[j].pc) => Complete(netns'[t])
       \/ \E pc \in Setting : /\ job'[j] = After(j, pc)
                              /\ SoFar(netns[t], job[j].pc) => SoFar(netns'[t], pc)

LEMMA JobParts ==
  ASSUME NEW j \in Job
  PROVE  \E p \in Pod : \E k \in ({"init", "call"} \union Late) : j = <<p, k>>
<1> DEFINE Names == {"init", "call"} \union Late
<1>1. j \in Pod \X Names
  BY DEF Job
<1> HIDE DEF Names
<1>2. j[1] \in Pod /\ j[2] \in Names /\ j = <<j[1], j[2]>>
  BY <1>1
<1>3. \E p \in Pod : \E k \in Names : j = <<p, k>>
  BY <1>2
<1> QED BY <1>3 DEF Names

\* A job that works has a pod and a device its namespace may be tied to.
LEMMA WorkOfAJob ==
  ASSUME Inductive, NEW j \in Job, job[j].pc \in Setting
  PROVE  /\ job[j].pod \in Pod /\ job[j].dev \in Device
         /\ kube[job[j].pod] \in Placed
         /\ Allowed(job[j].pod, job[j].dev)
<1>1. PICK p \in Pod, k \in ({"init", "call"} \union Late) : j = <<p, k>>
  BY JobParts
<1>2. CASE k = "init"
  <2>1. /\ p \in injected /\ kube[p] = "sync"
        /\ job[j].pod = p /\ job[j].dev = pnetEnv[p]
    BY <1>1, <1>2 DEF Inductive, InitJobs, InitOK
  <2>2. spec[p].want > 0
    BY <2>1 DEF Inductive, Devices, Injections, podWebhook
  <2>3. /\ ids[p]["init"] # {} /\ ids[p]["init"] \subseteq ids[p]["app"]
        /\ granted[p]["app"] = Asked(ids[p]["app"])
        /\ pnetEnv[p] \in Asked(ids[p]["init"])
    BY <2>1, <2>2 DEF Inductive, Devices, Grants, Placed
  <2>4. ids[p]["app"] \in SUBSET ID
    BY DEF Inductive, Types, Containers
  <2>5. pnetEnv[p] \in Asked(ids[p]["app"])
    BY <2>3, AskedMonotone
  <2>6. pnetEnv[p] \in Device
    BY <2>4, <2>5, AskedTypes
  <2> QED BY <2>1, <2>3, <2>5, <2>6 DEF Allowed, Placed
<1>3. CASE k # "init"
  <2>1. /\ kube[p] \in Placed /\ spec[p].want > 0
        /\ job[j].pod \in Pod /\ kube[job[j].pod] \in Placed
        /\ job[j].pod = p \/ p \in Strays(job[j].pod)
        /\ job[j].dev \in DevicesOf(ids[p]["app"])
    <3>1. k \in ({"call"} \union Late) /\ job[j].pc # "idle" /\ job[j].pc \in InPod
      BY <1>3 DEF InPod, Setting
    <3> QED BY <1>1, <3>1 DEF Inductive, Calls, CallOK
  <2>2. ids[p]["app"] \in SUBSET ID
    BY DEF Inductive, Types, Containers
  <2>3. granted[p]["app"] = Asked(ids[p]["app"])
    BY <2>1 DEF Inductive, Devices, Grants
  <2>4. DevicesOf(ids[p]["app"]) \subseteq Device /\ DevicesOf(ids[p]["app"]) \subseteq granted[p]["app"]
    BY <2>2, <2>3, DevicesOfIds, AskedTypes
  <2> QED BY <2>1, <2>4 DEF Allowed
<1> QED BY <1>2, <1>3

\* How a job goes on after a step that ends it, or does not.
LEMMA AfterCases ==
  ASSUME Types, NEW j \in Job, NEW pc \in JobPcs
  PROVE  /\ After(j, pc) \in JobRec
         /\ pc \in {"ok", "failed"} =>
              \/ j[2] \in Late /\ After(j, pc) = Idle
              \/ j[2] \notin Late /\ After(j, pc) = [Idle EXCEPT !.pc = pc]
         /\ pc \notin {"ok", "failed"} =>
              /\ After(j, pc).pc = pc /\ After(j, pc).pod = job[j].pod
              /\ After(j, pc).epoch = job[j].epoch /\ After(j, pc).dev = job[j].dev
<1>1. job[j] \in JobRec
  BY DEF Types
<1>2. Idle \in JobRec /\ [Idle EXCEPT !.pc = pc] \in JobRec
  BY DEF Idle, JobRec, JobPcs
<1>3. [job[j] EXCEPT !.pc = pc] \in JobRec
  BY <1>1 DEF JobRec
<1>4. CASE pc \in {"ok", "failed"}
  BY <1>2, <1>4 DEF After
<1>5. CASE pc \notin {"ok", "failed"}
  <2>1. After(j, pc) = [job[j] EXCEPT !.pc = pc]
    BY <1>5 DEF After
  <2> QED BY <1>1, <1>3, <1>5, <2>1 DEF JobRec
<1> QED BY <1>4, <1>5

LEMMA MoveWorks ==
  ASSUME Types, NEW j \in Job, NEW pc \in JobPcs, Move(j, pc),
         UNCHANGED <<spec, config, ids, live, sandbox, up, kubeVars>>
  PROVE  Works(j) /\ job'[j] = After(j, pc) /\ job' \in [Job -> JobRec]
<1>1. job \in [Job -> JobRec] /\ After(j, pc) \in JobRec
  BY AfterCases DEF Types
<1> QED BY <1>1 DEF Move, Works

LEMMA SetInWorks ==
  ASSUME Inductive, NEW j \in Job, NEW n \in SettingsRec, NEW pc \in JobPcs, SetIn(j, n, pc),
         job[j].pc \in Setting, UNCHANGED kubeVars
  PROVE  LET t == NetnsOf(job[j].pod) IN
         /\ Works(j) /\ job'[j] = After(j, pc) /\ job' \in [Job -> JobRec]
         /\ t \in Pod \union {Host} /\ netns[t] \in SettingsRec
         /\ netns' = [netns EXCEPT ![t] = n] /\ netns'[t] = n
         /\ netns' \in [Pod \union {Host} -> SettingsRec]
<1>1. Types
  BY DEF Inductive
<1>2. Works(j) /\ job'[j] = After(j, pc) /\ job' \in [Job -> JobRec]
  BY <1>1, MoveWorks DEF SetIn
<1>3. NetnsOf(job[j].pod) \in Pod \union {Host}
  BY WorkOfAJob DEF NetnsOf
<1>4. netns \in [Pod \union {Host} -> SettingsRec]
  BY <1>1 DEF Types
<1> QED BY <1>2, <1>3, <1>4 DEF SetIn

\* Every step of a job is one of the four.
LEMMA WorkCases ==
  ASSUME Inductive, NEW j \in Job, JobStep(j) \/ JobFails(j), UNCHANGED kubeVars
  PROVE  /\ Works(j) /\ job' \in [Job -> JobRec]
         /\ netns' \in [Pod \union {Host} -> SettingsRec]
         /\ Finds(j) \/ Enters(j) \/ Ends(j) \/ Sets(j)
<1> DEFINE t == NetnsOf(job[j].pod)
<1>0. Types /\ job[j] \in JobRec /\ netns \in [Pod \union {Host} -> SettingsRec]
  BY DEF Inductive, Types
<1>1. \A pc \in {"ok", "failed", "ipv6", "show", "add"} : pc \in JobPcs
  BY DEF JobPcs, InPod, Setting
<1>2. CASE getDevPod(j)
  <2>0. job[j].pc = "lookup" /\ netns' = netns
        /\ UNCHANGED <<spec, config, ids, live, sandbox, up, kubeVars>>
    BY <1>2 DEF getDevPod
  <2>1. CASE Move(j, "failed")
    <3>1. Works(j) /\ job'[j] = After(j, "failed") /\ job' \in [Job -> JobRec]
      BY <1>0, <1>1, <2>0, <2>1, MoveWorks
    <3> QED BY <1>0, <2>0, <3>1 DEF Ends
  <2>2. CASE \E id \in ids[j[1]]["app"] : \E p \in getPodDevices(id) :
                job' = [job EXCEPT ![j].pc = "config", ![j].pod = p]
    <3>0. PICK id \in ids[j[1]]["app"] : \E p \in getPodDevices(id) :
                job' = [job EXCEPT ![j].pc = "config", ![j].pod = p]
      BY <2>2
    <3>1. PICK p \in getPodDevices(id) : job' = [job EXCEPT ![j].pc = "config", ![j].pod = p]
      BY <3>0
    <3>2. p \in live /\ id \in ids[p]["app"] /\ p \in Pod
      BY <1>0, <3>1 DEF getPodDevices, Types
    <3>3. job \in [Job -> JobRec]
      BY <1>0 DEF Types
    <3>4. job' = [job EXCEPT ![j] = [job[j] EXCEPT !.pc = "config", !.pod = p]]
      BY <3>1, <3>3
    <3>5. [job[j] EXCEPT !.pc = "config", !.pod = p] \in JobRec
      BY <1>0, <3>2 DEF JobRec, JobPcs, InPod
    <3>6. /\ job' \in [Job -> JobRec] /\ job'[j] = [job[j] EXCEPT !.pc = "config", !.pod = p]
          /\ \A i \in Job : i # j => job'[i] = job[i]
      BY <3>3, <3>4, <3>5
    <3>7. job'[j].pc = "config" /\ job'[j].pod = p
      BY <1>0, <3>6 DEF JobRec
    <3> QED BY <1>0, <2>0, <3>1, <3>2, <3>6, <3>7 DEF Finds, Works
  <2> QED BY <1>2, <2>1, <2>2 DEF getDevPod
<1>3. CASE getPodConfig(j)
  <2>0. job[j].pc = "config" /\ netns' = netns
        /\ UNCHANGED <<spec, config, ids, live, sandbox, up, kubeVars>>
    BY <1>3 DEF getPodConfig
  <2>1. CASE Move(j, "failed")
    <3>1. Works(j) /\ job'[j] = After(j, "failed") /\ job' \in [Job -> JobRec]
      BY <1>0, <1>1, <2>0, <2>1, MoveWorks
    <3> QED BY <1>0, <2>0, <3>1 DEF Ends, InPod
  <2>2. CASE SMCR(job[j].pod) = "false" /\ Move(j, "ok")
    <3>1. Works(j) /\ job'[j] = After(j, "ok") /\ job' \in [Job -> JobRec]
      BY <1>0, <1>1, <2>0, <2>2, MoveWorks
    <3> QED BY <1>0, <2>0, <2>2, <3>1 DEF Ends, InPod
  <2>3. CASE /\ job[j].pod \in up /\ SMCR(job[j].pod) = "true"
             /\ \E d \in DevicesOf(ids[j[1]]["app"]) :
                   job' = [job EXCEPT ![j] = [pc |-> "tcp2smc", pod |-> job[j].pod,
                                              epoch |-> sandbox[job[j].pod], dev |-> d]]
    <3>1. PICK d \in DevicesOf(ids[j[1]]["app"]) :
                   job' = [job EXCEPT ![j] = [pc |-> "tcp2smc", pod |-> job[j].pod,
                                              epoch |-> sandbox[job[j].pod], dev |-> d]]
      BY <2>3
    <3>2. job \in [Job -> JobRec] /\ job[j].pod \in Pod /\ sandbox[job[j].pod] \in Nat
      BY <1>0, <2>3 DEF Types
    <3>3. d \in Device
      <4>1. j[1] \in Pod
        BY DEF Job
      <4>2. ids[j[1]]["app"] \in SUBSET ID
        BY <1>0, <4>1 DEF Types, Containers
      <4> QED BY <3>1, <4>2, DevicesOfIds
    <3>4. [pc |-> "tcp2smc", pod |-> job[j].pod, epoch |-> sandbox[job[j].pod], dev |-> d]
            \in JobRec
      BY <3>2, <3>3 DEF JobRec, JobPcs, InPod, Setting
    <3>5. /\ job' \in [Job -> JobRec]
          /\ job'[j] = [pc |-> "tcp2smc", pod |-> job[j].pod,
                        epoch |-> sandbox[job[j].pod], dev |-> d]
          /\ \A i \in Job : i # j => job'[i] = job[i]
      BY <3>1, <3>2, <3>4
    <3> QED BY <1>0, <2>0, <2>3, <3>1, <3>5 DEF Enters, Works
  <2> QED BY <1>3, <2>1, <2>2, <2>3 DEF getPodConfig
<1>4. CASE SetTcp2smc(j)
  <2>1. job[j].pc = "tcp2smc" /\ job[j].pc \in Setting /\ Reaches(j)
    BY <1>4 DEF SetTcp2smc, Setting
  <2>2. t \in Pod \union {Host} /\ netns[t] \in SettingsRec
    BY <1>0, <2>1, WorkOfAJob DEF NetnsOf
  <2> DEFINE n == [netns[t] EXCEPT !.tcp2smc = TRUE]
  <2>3. n \in SettingsRec /\ n.tcp2smc /\ n.noIPv6 = netns[t].noIPv6 /\ n.pnet = netns[t].pnet
    BY <2>2 DEF SettingsRec
  <2>4. SetIn(j, n, "ipv6")
    BY <1>4 DEF SetTcp2smc, Settings
  <2> HIDE DEF n
  <2>5. /\ Works(j) /\ job'[j] = After(j, "ipv6") /\ job' \in [Job -> JobRec]
        /\ netns' = [netns EXCEPT ![t] = n] /\ netns'[t] = n
        /\ netns' \in [Pod \union {Host} -> SettingsRec]
    BY <1>1, <2>1, <2>3, <2>4, SetInWorks
  <2>6. Grown(netns[t], n, job[j].dev) /\ SoFar(n, "ipv6")
    BY <2>2, <2>3 DEF Grown, SoFar, SettingsRec
  <2> QED BY <2>1, <2>5, <2>6 DEF Sets, Setting
<1>5. CASE DisableIPv6(j)
  <2>1. job[j].pc = "ipv6" /\ job[j].pc \in Setting /\ Reaches(j)
    BY <1>5 DEF DisableIPv6, Setting
  <2>2. t \in Pod \union {Host} /\ netns[t] \in SettingsRec
    BY <1>0, <2>1, WorkOfAJob DEF NetnsOf
  <2> DEFINE n == [netns[t] EXCEPT !.noIPv6 = TRUE]
  <2>3. n \in SettingsRec /\ n.tcp2smc = netns[t].tcp2smc /\ n.noIPv6 /\ n.pnet = netns[t].pnet
    BY <2>2 DEF SettingsRec
  <2>4. SetIn(j, n, "show")
    BY <1>5 DEF DisableIPv6, Settings
  <2> HIDE DEF n
  <2>5. /\ Works(j) /\ job'[j] = After(j, "show") /\ job' \in [Job -> JobRec]
        /\ netns' = [netns EXCEPT ![t] = n] /\ netns'[t] = n
        /\ netns' \in [Pod \union {Host} -> SettingsRec]
    BY <1>1, <2>1, <2>3, <2>4, SetInWorks
  <2>6. Grown(netns[t], n, job[j].dev) /\ (SoFar(netns[t], job[j].pc) => SoFar(n, "show"))
    BY <2>1, <2>2, <2>3 DEF Grown, SoFar, SettingsRec
  <2> QED BY <2>1, <2>5, <2>6 DEF Sets, Setting
<1>6. CASE ShowPnet(j)
  <2>1. job[j].pc = "show" /\ job[j].pc \in Setting /\ Reaches(j)
    BY <1>6 DEF ShowPnet, Setting
  <2>2. t \in Pod \union {Host} /\ netns[t] \in SettingsRec
    BY <1>0, <2>1, WorkOfAJob DEF NetnsOf
  <2> DEFINE pc == IF netns[t].pnet # None THEN "ok" ELSE "add"
  <2>3. SetIn(j, netns[t], pc) /\ pc \in JobPcs
    BY <1>1, <1>6 DEF ShowPnet, Settings
  <2>4. /\ Works(j) /\ job'[j] = After(j, pc) /\ job' \in [Job -> JobRec]
        /\ netns' = [netns EXCEPT ![t] = netns[t]] /\ netns'[t] = netns[t]
        /\ netns' \in [Pod \union {Host} -> SettingsRec]
    BY <2>1, <2>2, <2>3, SetInWorks
  <2>5. /\ Grown(netns[t], netns[t], job[j].dev)
        /\ SoFar(netns[t], job[j].pc) =>
              IF pc = "ok" THEN Complete(netns[t]) ELSE pc = "add" /\ SoFar(netns[t], "add")
    BY <2>1 DEF Grown, SoFar, Complete
  <2>6. pc = "ok" \/ pc = "add"
    OBVIOUS
  <2> HIDE DEF pc
  <2> QED BY <2>1, <2>4, <2>5, <2>6 DEF Sets, Setting
<1>7. CASE AddPnet(j)
  <2>1. job[j].pc = "add" /\ job[j].pc \in Setting /\ Reaches(j)
    BY <1>7 DEF AddPnet, Setting
  <2>2. t \in Pod \union {Host} /\ netns[t] \in SettingsRec /\ job[j].dev \in Device
    BY <1>0, <2>1, WorkOfAJob DEF NetnsOf
  <2>3. CASE netns[t].pnet # None
    <3>1. SetIn(j, netns[t], "failed")
      BY <1>7, <2>3 DEF AddPnet, Settings
    <3>2. /\ Works(j) /\ job'[j] = After(j, "failed") /\ job' \in [Job -> JobRec]
          /\ netns' = [netns EXCEPT ![t] = netns[t]] /\ netns'[t] = netns[t]
          /\ netns' \in [Pod \union {Host} -> SettingsRec]
      BY <1>1, <2>1, <2>2, <3>1, SetInWorks
    <3> QED BY <2>1, <3>2 DEF Sets, Grown
  <2>4. CASE netns[t].pnet = None
    <3> DEFINE n == [netns[t] EXCEPT !.pnet = job[j].dev]
    <3>1. /\ n \in SettingsRec /\ n.tcp2smc = netns[t].tcp2smc /\ n.noIPv6 = netns[t].noIPv6
          /\ n.pnet = job[j].dev
      BY <2>2 DEF SettingsRec
    <3>2. SetIn(j, n, "ok")
      BY <1>7, <2>4 DEF AddPnet, Settings
    <3> HIDE DEF n
    <3>3. /\ Works(j) /\ job'[j] = After(j, "ok") /\ job' \in [Job -> JobRec]
          /\ netns' = [netns EXCEPT ![t] = n] /\ netns'[t] = n
          /\ netns' \in [Pod \union {Host} -> SettingsRec]
      BY <1>1, <2>1, <3>1, <3>2, SetInWorks
    <3>4. job[j].dev # None
      BY <2>2, PodAssumption
    <3>5. Grown(netns[t], n, job[j].dev) /\ (SoFar(netns[t], job[j].pc) => Complete(n))
      BY <2>1, <2>2, <2>4, <3>1, <3>4 DEF Grown, SoFar, Complete, SettingsRec
    <3> QED BY <2>1, <3>3, <3>5 DEF Sets
  <2> QED BY <2>3, <2>4
<1>8. CASE CannotSet(j) \/ JobFails(j)
  <2>1. /\ job[j].pc \in InPod \union {"lookup"} /\ netns' = netns /\ Move(j, "failed")
        /\ UNCHANGED <<spec, config, ids, live, sandbox, up, kubeVars>>
    BY <1>8 DEF CannotSet, JobFails, InPod, Setting
  <2>2. Works(j) /\ job'[j] = After(j, "failed") /\ job' \in [Job -> JobRec]
    BY <1>0, <1>1, <2>1, MoveWorks
  <2> QED BY <1>0, <2>1, <2>2 DEF Ends
<1> QED BY <1>2, <1>3, <1>4, <1>5, <1>6, <1>7, <1>8 DEF JobStep

---------------------------------------------------------------------------
(* The kubelet's accounts                                                  *)

\* A step that assigns nothing: pods that have their devices may move on.
Quiet ==
    /\ UNCHANGED <<spec, config, ids, granted, pnetEnv, injected, answered>>
    /\ \A p \in Pod :
         \/ kube'[p] = kube[p] /\ (p \in live' <=> p \in live)
         \/ /\ kube[p] \in {"sync", "calling", "running"} /\ kube'[p] \in Placed
            /\ p \in live' <=> kube'[p] # "gone"

LEMMA QuietDevices == ASSUME Inductive, Types', Quiet PROVE Devices'
<1>1. Accounts /\ Grants /\ Injections /\ live \subseteq Pod /\ live' \subseteq Pod
  BY DEF Inductive, Devices, Types
<1>2. \A p \in Pod : (kube'[p] \in Placed <=> kube[p] \in Placed)
                     /\ (kube'[p] \notin Placed => kube'[p] = kube[p])
  BY DEF Quiet, Placed
<1>3. live' \subseteq live
  BY <1>1 DEF Quiet, Accounts, Living
<1>4. Accounts'
  <2>1. \A p \in Pod : p \in live' <=> kube'[p] \in Living
    BY <1>1 DEF Accounts, Quiet, Living, Placed
  <2>2. \A p \in live' : \A q \in live' : p # q => Held(p)' \intersect Held(q)' = {}
    BY <1>1, <1>3 DEF Accounts, Quiet, Held
  <2>3. \A p \in Pod : kube'[p] \in {"new", "admit"} => kube'[p] = kube[p]
    BY DEF Quiet, Placed
  <2>4. \A p \in Pod : kube'[p] \notin Placed => ids'[p]["app"] = {}
    BY <1>1, <1>2 DEF Accounts, Quiet
  <2> QED BY <1>1, <2>1, <2>2, <2>3, <2>4 DEF Accounts, Quiet
<1>5. Grants'
  BY <1>1, <1>2 DEF Grants, Quiet, Asked
<1>6. Injections'
  BY <1>1 DEF Injections, Quiet, podWebhook
<1> QED BY <1>4, <1>5, <1>6 DEF Devices

LEMMA CreateDevices == ASSUME Inductive, Types', NEW p \in Pod, Create(p) PROVE Devices'
<1>1. Accounts /\ Grants /\ Injections /\ live \subseteq Pod /\ kube \in [Pod -> KubeStates]
  BY DEF Inductive, Devices, Types
<1>2. /\ kube[p] = "new" /\ live' = live \union {p}
      /\ UNCHANGED <<spec, config, ids, granted, pnetEnv>>
      /\ kube'[p] = IF spec[p].want = 0 THEN "sync" ELSE "admit"
      /\ \A q \in Pod : q # p => kube'[q] = kube[q]
  BY <1>1 DEF Create, KubeMove
<1>3. /\ \A q \in Pod : q # p => (q \in injected' <=> q \in injected)
                              /\ (q \in answered' <=> q \in answered)
      /\ p \in injected' => podWebhook(p)
      /\ p \in answered' /\ podWebhook(p) => p \in injected' \/ p \in answered
  BY <1>1, <1>2 DEF Create, Accounts
<1>4. Injections'
  <2>1. \A q : podWebhook(q)' <=> podWebhook(q)
    BY <1>2 DEF podWebhook
  <2>2. injected \subseteq injected'
    BY DEF Create
  <2> QED BY <1>1, <1>3, <2>1, <2>2 DEF Injections
<1>5. p \notin live /\ Held(p) = {} /\ ids[p]["app"] = {} /\ ids[p]["init"] = {}
  BY <1>1, <1>2 DEF Accounts, Held, Living, Placed
<1>6. spec[p].want \in Nat
  BY DEF Inductive, Types, SpecRec
<1>7. Accounts'
  <2>1. \A q \in Pod : q \in live' <=> kube'[q] \in Living
    BY <1>1, <1>2 DEF Accounts, Living
  <2>2. \A q \in Pod : kube'[q] \notin Placed => ids'[q]["app"] = {}
    BY <1>1, <1>2, <1>5 DEF Accounts
  <2>3. \A q \in Pod : kube'[q] = "new" => ids'[q]["init"] = {} /\ q \notin injected'
    BY <1>1, <1>2, <1>3 DEF Accounts
  <2>4. \A q \in Pod : kube'[q] = "admit" => spec'[q].want > 0
    BY <1>1, <1>2, <1>6 DEF Accounts
  <2>5. \A q : Held(q)' = Held(q)
    BY <1>2 DEF Held
  <2>6. \A r \in live' : \A q \in live' : r # q => Held(r)' \intersect Held(q)' = {}
    BY <1>1, <1>2, <1>5, <2>5 DEF Accounts
  <2> QED BY <2>1, <2>2, <2>3, <2>4, <2>6 DEF Accounts
<1>8. Grants'
  <2>1. \A s : Asked(s)' = Asked(s)
    BY <1>2 DEF Asked
  <2>2. \A q \in Pod : q # p => /\ kube'[q] = kube[q] /\ (q \in injected' <=> q \in injected)
    BY <1>2, <1>3
  <2>3. kube'[p] \in Placed => spec[p].want = 0 /\ p \notin injected'
    <3>1. podWebhook(p) => spec[p].want > 0
      BY DEF podWebhook
    <3> QED BY <1>2, <1>3, <1>6, <3>1 DEF Placed
  <2> QED BY <1>1, <1>2, <1>5, <1>6, <2>1, <2>2, <2>3 DEF Grants
<1> QED BY <1>4, <1>7, <1>8 DEF Devices

\* What an answer of Allocate changes.
Allocated(p, c, s) ==
    /\ c = NextContainer(p) /\ s \in Assignable(p, c)
    /\ kube[p] = "admit" /\ kube' = [kube EXCEPT ![p] = IF c = "app" THEN "sync" ELSE "admit"]
    /\ granted' = [granted EXCEPT ![p][c] = Asked(s)]
    /\ ids' = [ids EXCEPT ![p][c] = s]
    /\ \/ c = "init" /\ \E d \in Asked(s) : pnetEnv' = [pnetEnv EXCEPT ![p] = d]
       \/ c = "app" /\ pnetEnv' = pnetEnv
    /\ UNCHANGED <<spec, config, live, sandbox, up, netns, job, answered, injected, inited>>

LEMMA AllocateChanges ==
  ASSUME NEW p \in Pod, CallAllocate(p)
  PROVE  \E c \in Containers : \E s : Allocated(p, c, s)
<1> DEFINE c == NextContainer(p)
<1>1. c \in Containers
  BY DEF NextContainer, Containers
<1>2. PICK s \in Assignable(p, c) :
         /\ 1 \in DOMAIN Allocate(<<s>>)
         /\ granted' = [granted EXCEPT ![p][c] = Allocate(<<s>>)[1]]
         /\ \/ c = "init" /\ \E d \in Allocate(<<s>>)[1] : pnetEnv' = [pnetEnv EXCEPT ![p] = d]
            \/ c = "app"  /\ UNCHANGED pnetEnv
         /\ ids' = [ids EXCEPT ![p][c] = s]
         /\ KubeMove(p, IF c = "app" THEN "sync" ELSE "admit")
  BY DEF CallAllocate
<1>3. Allocate(<<s>>)[1] = Asked(s)
  BY <1>2, AllocateOne
<1> HIDE DEF c
<1>4. Allocated(p, c, s)
  BY <1>2, <1>3 DEF CallAllocate, Allocated, KubeMove, c
<1> QED BY <1>1, <1>4

LEMMA AllocateDevices ==
  ASSUME Inductive, Types', NEW p \in Pod, CallAllocate(p) PROVE Devices'
<1>1. Accounts /\ Grants /\ Injections /\ live \subseteq Pod /\ kube \in [Pod -> KubeStates]
  BY DEF Inductive, Devices, Types
<1>2. PICK c \in Containers : \E s : Allocated(p, c, s)
  BY AllocateChanges
<1>3. PICK s : Allocated(p, c, s)
  BY <1>2
<1>4. /\ s \subseteq ID /\ s \subseteq Free \union ids[p]["init"]
      /\ c = "init" => s # {} /\ s \subseteq Free
      /\ c = "app" => ids[p]["init"] \subseteq s
  BY <1>3, AssignableIds DEF Inductive, Allocated
<1>5. /\ ids \in [Pod -> [Containers -> SUBSET ID]]
      /\ granted \in [Pod -> [Containers -> SUBSET Device]]
      /\ pnetEnv \in [Pod -> Device \union {None}]
  BY DEF Inductive, Types
<1>6. /\ \A q \in Pod : q # p => ids'[q] = ids[q] /\ granted'[q] = granted[q]
                              /\ pnetEnv'[q] = pnetEnv[q] /\ kube'[q] = kube[q]
      /\ ids'[p][c] = s /\ granted'[p][c] = Asked(s)
      /\ \A k \in Containers : k # c => ids'[p][k] = ids[p][k] /\ granted'[p][k] = granted[p][k]
      /\ kube[p] = "admit" /\ kube'[p] = (IF c = "app" THEN "sync" ELSE "admit")
      /\ UNCHANGED <<spec, config, live, answered, injected>>
  BY <1>1, <1>3, <1>5 DEF Allocated
<1>7. c \in {"init", "app"} /\ ids[p]["app"] = {} /\ spec[p].want > 0 /\ p \in live
  BY <1>1, <1>6 DEF Accounts, Containers, Placed, Living
<1>8. Injections'
  BY <1>1, <1>6 DEF Injections, podWebhook
<1>9. Accounts'
  <2>1. \A q \in Pod : q \in live' <=> kube'[q] \in Living
    BY <1>1, <1>6 DEF Accounts, Living
  <2>2. \A q \in Pod : kube'[q] \notin Placed => ids'[q]["app"] = {}
    BY <1>1, <1>6, <1>7 DEF Accounts, Containers, Placed
  <2>3. \A q \in Pod : kube'[q] = "new" => ids'[q]["init"] = {} /\ q \notin injected'
    BY <1>1, <1>6 DEF Accounts
  <2>4. \A q \in Pod : kube'[q] = "admit" => spec'[q].want > 0
    BY <1>1, <1>6 DEF Accounts
  <2>5. \A q \in Pod : q # p => Held(q)' = Held(q)
    BY <1>6 DEF Held
  <2>6. Held(p)' \subseteq Held(p) \union Free
    BY <1>4, <1>6, <1>7 DEF Held, Containers
  <2>7. \A r \in live' : \A q \in live' : r # q => Held(r)' \intersect Held(q)' = {}
    <3>1. \A q \in live : q # p => Held(p)' \intersect Held(q) = {}
      BY <1>1, <1>7, <2>6, FreeIsFree DEF Accounts
    <3> QED BY <1>1, <1>6, <2>5, <3>1 DEF Accounts
  <2> QED BY <2>1, <2>2, <2>3, <2>4, <2>7 DEF Accounts
<1>10. Grants'
  <2>1. \A t : Asked(t)' = Asked(t)
    BY <1>6 DEF Asked
  <2>2. \A q \in Pod : q # p =>
          /\ ids'[q] = ids[q] /\ granted'[q] = granted[q] /\ pnetEnv'[q] = pnetEnv[q]
          /\ kube'[q] = kube[q] /\ (q \in injected' <=> q \in injected) /\ spec'[q] = spec[q]
    BY <1>6
  <2>3. CASE c = "init"
    <3>1. pnetEnv'[p] \in Asked(s) /\ ids'[p]["init"] = s /\ kube'[p] \notin Placed
      BY <1>3, <1>5, <1>6, <2>3 DEF Allocated, Placed
    <3> QED BY <1>1, <2>1, <2>2, <3>1 DEF Grants
  <2>4. CASE c = "app"
    <3>1. pnetEnv' = pnetEnv /\ ids'[p]["init"] = ids[p]["init"] /\ ids'[p]["app"] = s
          /\ granted'[p]["app"] = Asked(s)
      BY <1>3, <1>6, <2>4 DEF Allocated, Containers
    <3>2. p \in injected => ids[p]["init"] # {}
      BY <1>3, <2>4 DEF Allocated, NextContainer
    <3>3. spec[p].want # 0
      BY <1>7 DEF Inductive, Types, SpecRec
    <3> QED BY <1>1, <1>4, <1>6, <2>1, <2>2, <2>4, <3>1, <3>2, <3>3 DEF Grants
  <2> QED BY <1>7, <2>3, <2>4
<1> QED BY <1>8, <1>9, <1>10 DEF Devices

LEMMA RejectDevices == ASSUME Inductive, Types', NEW p \in Pod, Reject(p) PROVE Devices'
<1>1. Accounts /\ Grants /\ Injections /\ live \subseteq Pod /\ kube \in [Pod -> KubeStates]
  BY DEF Inductive, Devices, Types
<1>2. /\ kube[p] = "admit" /\ kube'[p] = "rejected" /\ live' = live \ {p}
      /\ \A q \in Pod : q # p => kube'[q] = kube[q]
      /\ UNCHANGED <<spec, config, ids, answered, injected, granted, pnetEnv>>
  BY <1>1 DEF Reject, KubeMove
<1>3. Injections'
  BY <1>1, <1>2 DEF Injections, podWebhook
<1>4. \A q : Held(q)' = Held(q)
  BY <1>2 DEF Held
<1>5. Accounts'
  <2>1. \A q \in Pod : q \in live' <=> kube'[q] \in Living
    BY <1>1, <1>2 DEF Accounts, Living
  <2>2. \A q \in Pod : kube'[q] \notin Placed => ids'[q]["app"] = {}
    BY <1>1, <1>2 DEF Accounts, Placed
  <2>3. \A r \in live' : \A q \in live' : r # q => Held(r)' \intersect Held(q)' = {}
    BY <1>1, <1>2, <1>4 DEF Accounts
  <2> QED BY <1>1, <1>2, <2>1, <2>2, <2>3 DEF Accounts
<1>6. Grants'
  <2>1. \A t : Asked(t)' = Asked(t)
    BY <1>2 DEF Asked
  <2>2. kube'[p] \notin Placed
    BY <1>2 DEF Placed
  <2> QED BY <1>1, <1>2, <2>1, <2>2 DEF Grants
<1> QED BY <1>3, <1>5, <1>6 DEF Devices

---------------------------------------------------------------------------
(* The types, and the two kinds of steps                                   *)

\* A step of the admission of a pod: nothing of the pods that have their devices
\* changes, and no job, sandbox or namespace.
Admission ==
    /\ UNCHANGED <<spec, config, job, up, sandbox, netns, inited>>
    /\ live' \subseteq Pod
    /\ \A p \in Pod :
         \/ /\ kube'[p] = kube[p] /\ kube[p] \notin {"new", "admit"}
            /\ (p \in injected' <=> p \in injected) /\ (p \in live' <=> p \in live)
            /\ ids'[p] = ids[p] /\ granted'[p] = granted[p] /\ pnetEnv'[p] = pnetEnv[p]
         \/ /\ kube[p] \in {"new", "admit"}
            /\ kube'[p] \in {"new", "admit", "sync", "rejected"}

LEMMA AdmissionStep ==
  ASSUME Inductive, NEW p \in Pod, Create(p) \/ CallAllocate(p) \/ Reject(p)
  PROVE  Admission /\ Types'
<1>1. Types /\ kube \in [Pod -> KubeStates] /\ live \subseteq Pod /\ injected \subseteq Pod
  BY DEF Inductive, Types
<1>2. CASE Create(p)
  <2>1. /\ kube' = [kube EXCEPT ![p] = IF spec[p].want = 0 THEN "sync" ELSE "admit"]
        /\ kube[p] = "new" /\ live' = live \union {p}
        /\ injected \subseteq injected' /\ injected' \subseteq injected \union {p}
        /\ UNCHANGED <<spec, config, ids, sandbox, up, netns, job, inited, granted, pnetEnv>>
    BY <1>2 DEF Create, KubeMove
  <2>2. Admission
    BY <1>1, <2>1 DEF Admission
  <2>3. kube' \in [Pod -> KubeStates] /\ live' \subseteq Pod /\ injected' \subseteq Pod
    BY <1>1, <2>1 DEF KubeStates
  <2> QED BY <1>1, <2>1, <2>2, <2>3 DEF Types
<1>3. CASE CallAllocate(p)
  <2>1. PICK c \in Containers : \E s : Allocated(p, c, s)
    BY <1>3, AllocateChanges
  <2>2. PICK s : Allocated(p, c, s)
    BY <2>1
  <2>3. s \in SUBSET ID
    BY <1>1, <2>2, AssignableIds DEF Allocated
  <2>4. /\ ids \in [Pod -> [Containers -> SUBSET ID]]
        /\ granted \in [Pod -> [Containers -> SUBSET Device]]
        /\ pnetEnv \in [Pod -> Device \union {None}]
    BY <1>1 DEF Types
  <2>5. Asked(s) \in SUBSET Device
    BY <2>3, AskedTypes
  <2>6. /\ ids' = [ids EXCEPT ![p] = [ids[p] EXCEPT ![c] = s]]
        /\ granted' = [granted EXCEPT ![p] = [granted[p] EXCEPT ![c] = Asked(s)]]
    BY <2>2, <2>4 DEF Allocated
  <2>7. /\ [ids[p] EXCEPT ![c] = s] \in [Containers -> SUBSET ID]
        /\ [granted[p] EXCEPT ![c] = Asked(s)] \in [Containers -> SUBSET Device]
    BY <2>3, <2>4, <2>5
  <2>8. /\ ids' \in [Pod -> [Containers -> SUBSET ID]]
        /\ granted' \in [Pod -> [Containers -> SUBSET Device]]
        /\ \A q \in Pod : q # p => ids'[q] = ids[q] /\ granted'[q] = granted[q]
    BY <2>4, <2>6, <2>7
  <2>9. /\ pnetEnv' \in [Pod -> Device \union {None}]
        /\ \A q \in Pod : q # p => pnetEnv'[q] = pnetEnv[q]
    BY <2>2, <2>4, <2>5 DEF Allocated
  <2>10. /\ kube' \in [Pod -> KubeStates] /\ kube'[p] \in {"sync", "admit"} /\ kube[p] = "admit"
         /\ \A q \in Pod : q # p => kube'[q] = kube[q]
         /\ UNCHANGED <<spec, config, live, sandbox, up, netns, job, answered, injected, inited>>
    BY <1>1, <2>2 DEF Allocated, KubeStates
  <2>11. \A q \in Pod : q # p => kube'[q] = kube[q] /\ ids'[q] = ids[q]
                                 /\ granted'[q] = granted[q] /\ pnetEnv'[q] = pnetEnv[q]
    BY <2>8, <2>9, <2>10
  <2>12. \A q \in Pod : kube[q] \in {"new", "admit"} /\ q # p => kube'[q] \in {"new", "admit"}
    BY <2>10
  <2>13. Admission
    BY <1>1, <2>10, <2>11, <2>12 DEF Admission
  <2>14. Types'
    BY <1>1, <2>8, <2>9, <2>10 DEF Types
  <2> QED BY <2>13, <2>14
<1>4. CASE Reject(p)
  <2>1. /\ kube' = [kube EXCEPT ![p] = "rejected"] /\ kube[p] = "admit" /\ live' = live \ {p}
        /\ UNCHANGED <<spec, config, ids, sandbox, up, netns, job, injected, inited, granted,
                       pnetEnv>>
    BY <1>4 DEF Reject, KubeMove
  <2>2. Admission
    BY <1>1, <2>1 DEF Admission
  <2>3. kube' \in [Pod -> KubeStates] /\ live' \subseteq Pod
    BY <1>1, <2>1 DEF KubeStates
  <2> QED BY <1>1, <2>1, <2>2, <2>3 DEF Types
<1> QED BY <1>2, <1>3, <1>4

\* The operators that do not depend on what changes.
LEMMA Fixed ==
  ASSUME spec' = spec, config' = config, NEW p
  PROVE  /\ SMCR(p)' = SMCR(p) /\ NetnsOf(p)' = NetnsOf(p)
         /\ podWebhook(p)' = podWebhook(p) /\ PreStartRequired(p)' = PreStartRequired(p)
         /\ Asked(p)' = Asked(p)
<1>1. SMCR(p)' = SMCR(p)
  BY DEF SMCR
<1>2. NetnsOf(p)' = NetnsOf(p)
  BY DEF NetnsOf
<1>3. podWebhook(p)' = podWebhook(p)
  BY DEF podWebhook
<1>4. PreStartRequired(p)' = PreStartRequired(p)
  BY DEF PreStartRequired
<1>5. Asked(p)' = Asked(p)
  BY DEF Asked
<1> QED BY <1>1, <1>2, <1>3, <1>4, <1>5

\* A device the namespace of a pod may be tied to stays one, and so does a stray.
LEMMA StaysAllowed ==
  ASSUME Inductive, Types', Quiet \/ Admission, NEW p \in Pod, kube[p] \in Placed
  PROVE  /\ kube'[p] \in Placed /\ ids'[p] = ids[p] /\ granted'[p] = granted[p]
         /\ pnetEnv'[p] = pnetEnv[p] /\ (p \in injected' <=> p \in injected)
         /\ Strays(p) \subseteq Strays(p)'
         /\ \A d : Allowed(p, d) => Allowed(p, d)'
<1>1. \A q \in Pod : kube[q] \in Placed =>
        /\ kube'[q] \in Placed /\ ids'[q] = ids[q] /\ granted'[q] = granted[q]
        /\ pnetEnv'[q] = pnetEnv[q] /\ (q \in injected' <=> q \in injected)
  <2>1. CASE Quiet
    BY <2>1 DEF Quiet, Placed
  <2>2. CASE Admission
    BY <2>2 DEF Admission, Placed
  <2> QED BY <2>1, <2>2
<1>2. \A q \in Pod : kube[q] \in Placed /\ q \notin live => q \notin live'
  <2>1. Accounts
    BY DEF Inductive, Devices
  <2>2. CASE Quiet
    BY <2>1, <2>2 DEF Quiet, Accounts, Living, Placed
  <2>3. CASE Admission
    BY <2>1, <2>3 DEF Admission, Accounts, Living, Placed
  <2> QED BY <2>2, <2>3
<1>3. \A q \in Strays(p) : q \in Pod /\ kube[q] \in Placed /\ q \notin live
  BY DEF Strays, Inductive, Devices, Accounts
<1>4. \A q \in Strays(p) : q \in Strays(p)' /\ ids'[q] = ids[q]
  BY <1>1, <1>2, <1>3 DEF Strays
<1>5. \A d : Allowed(p, d) => Allowed(p, d)'
  BY <1>1, <1>4 DEF Allowed
<1> QED BY <1>1, <1>4, <1>5

\* A call that does not move keeps what is known of it.
LEMMA CallKept ==
  ASSUME Inductive, Types', Quiet \/ Admission, NEW p \in Pod, NEW k \in ({"call"} \union Late),
         job'[<<p, k>>] = job[<<p, k>>],
         k = "call" /\ job[<<p, k>>].pc # "idle" =>
            kube'[p] = "calling" /\ sandbox'[p] = sandbox[p]
  PROVE  CallOK(p, k)'
<1>1. spec' = spec /\ config' = config
  BY DEF Quiet, Admission
<1>2. PICK r : r = job[<<p, k>>]
  OBVIOUS
<1>3. /\ r.pc = "idle" => r = Idle
      /\ r.pc # "idle" => config.preStart /\ kube[p] \in Placed /\ spec[p].want > 0
      /\ r.pc \in InPod => /\ r.pod \in Pod /\ kube[r.pod] \in Placed
                           /\ r.pod = p \/ p \in Strays(r.pod)
      /\ r.pc \in Setting => SMCR(r.pod) = "true" /\ r.dev \in DevicesOf(ids[p]["app"])
      /\ k = "call" /\ r.pc \in Setting => r.epoch = sandbox[p]
  BY <1>2 DEF Inductive, Calls, CallOK
<1>4. "idle" \notin InPod /\ Setting \subseteq InPod
  BY DEF InPod, Setting
<1>5. r.pc # "idle" => kube'[p] \in Placed /\ ids'[p] = ids[p]
  BY <1>3, StaysAllowed
<1>6. r.pc \in InPod => kube'[r.pod] \in Placed /\ Strays(r.pod) \subseteq Strays(r.pod)'
  BY <1>3, StaysAllowed
<1>7. SMCR(r.pod)' = SMCR(r.pod)
  BY <1>1, Fixed
<1>8. job'[<<p, k>>] = r
  BY <1>2
<1> QED BY <1>1, <1>2, <1>3, <1>4, <1>5, <1>6, <1>7, <1>8 DEF CallOK

LEMMA AdmissionKeeps ==
  ASSUME Inductive, Types', Devices', Admission
  PROVE  InitJobs' /\ Calls' /\ Namespaces' /\ SetUp'
<1>1. /\ spec' = spec /\ config' = config /\ job' = job /\ up' = up /\ sandbox' = sandbox
      /\ netns' = netns /\ inited' = inited
  BY DEF Admission
<1>2. \A p \in Pod : kube[p] \notin {"new", "admit"} =>
         /\ kube'[p] = kube[p] /\ pnetEnv'[p] = pnetEnv[p]
         /\ (p \in injected' <=> p \in injected)
  BY DEF Admission
<1>3. \A p \in Pod : kube'[p] \in {"calling", "running"} => kube'[p] = kube[p]
  BY DEF Admission
<1>4. InitJobs'
  BY <1>1, <1>2 DEF InitJobs, InitOK, Inductive
<1>5. Calls'
  <2>1. \A p \in Pod : job[<<p, "call">>].pc # "idle" => kube'[p] = "calling"
    BY <1>2 DEF Inductive, Calls, CallOK
  <2>2. \A p \in Pod : \A k \in ({"call"} \union Late) : CallOK(p, k)'
    BY <1>1, <2>1, CallKept
  <2> QED BY <2>2 DEF Calls
<1>6. Namespaces'
  <2>1. \A p \in Pod : p \in up => kube[p] \in Placed /\ kube'[p] = kube[p]
    BY <1>2 DEF Inductive, Namespaces, SpaceOK, Placed
  <2>2. \A p \in Pod : p \notin up => netns[p].pnet = None
    BY DEF Inductive, Namespaces, SpaceOK, Clean
  <2>3. \A p \in Pod : netns[p].pnet # None => Allowed(p, netns[p].pnet)'
    BY <1>1, <2>1, <2>2, StaysAllowed DEF Inductive, Namespaces, SpaceOK
  <2> QED BY <1>1, <2>1, <2>3 DEF Inductive, Namespaces, SpaceOK
<1>7. SetUp'
  <2>1. \A p : /\ SMCR(p)' = SMCR(p) /\ NetnsOf(p)' = NetnsOf(p)
               /\ PreStartRequired(p)' = PreStartRequired(p)
    BY <1>1, Fixed
  <2>2. \A p \in Pod : p \in inited \/ p \in up => kube[p] \notin {"new", "admit"}
    BY DEF Inductive, Namespaces, SpaceOK, SetUp, SetUpOK
  <2>3. \A p \in Pod : kube'[p] = "running" /\ p \in injected' => p \in inited
    BY <1>2, <1>3 DEF Inductive, SetUp, SetUpOK
  <2> QED BY <1>1, <1>3, <2>1, <2>3 DEF Inductive, SetUp, SetUpOK
<1> QED BY <1>4, <1>5, <1>6, <1>7

---------------------------------------------------------------------------
(* A job moves                                                             *)

\* The call the kubelet waits for has found the pod it was made for.
LEMMA OwnPod ==
  ASSUME Inductive, NEW p \in Pod, job[<<p, "call">>].pc \in InPod
  PROVE  job[<<p, "call">>].pod = p /\ p \in live
<1>1. kube[p] = "calling" /\ (job[<<p, "call">>].pod = p \/ p \in Strays(job[<<p, "call">>].pod))
  BY DEF Inductive, Calls, CallOK, InPod, Setting
<1>2. p \in live
  BY <1>1 DEF Inductive, Devices, Accounts, Living
<1> QED BY <1>1, <1>2 DEF Strays

LEMMA IdleFields == /\ Idle.pc = "idle"
                    /\ \A pc : [Idle EXCEPT !.pc = pc].pc = pc
  BY DEF Idle

\* Namespaces only gain settings while jobs work.
LEMMA OnlyGrown ==
  ASSUME Inductive, NEW j \in Job, Finds(j) \/ Enters(j) \/ Ends(j) \/ Sets(j),
         NEW x \in Pod \union {Host}
  PROVE  /\ Complete(netns[x]) => Complete(netns'[x])
         /\ \A pc : SoFar(netns[x], pc) => SoFar(netns'[x], pc)
<1>1. CASE netns' = netns
  BY <1>1
<1>2. CASE Sets(j)
  <2>1. PICK t \in Pod \union {Host} : t = NetnsOf(job[j].pod)
    BY <1>2, WorkOfAJob DEF Sets, NetnsOf
  <2>2. netns \in [Pod \union {Host} -> SettingsRec]
    BY DEF Inductive, Types
  <2>3. /\ netns' = [netns EXCEPT ![t] = netns'[t]]
        /\ Grown(netns[t], netns'[t], job[j].dev)
    BY <1>2, <2>1 DEF Sets
  <2>4. x # t => netns'[x] = netns[x]
    BY <2>2, <2>3
  <2>5. CASE x = t
    BY <2>3, <2>5 DEF Grown, Complete, SoFar
  <2> QED BY <2>4, <2>5
<1> QED BY <1>1, <1>2 DEF Finds, Enters, Ends

\* What a job has made is there after its step.
LEMMA SetsMakes ==
  ASSUME Inductive, NEW j \in Job, Sets(j), NEW t, t = NetnsOf(job[j].pod),
         SoFar(netns[t], job[j].pc)
  PROVE  /\ SoFar(netns'[t], job'[j].pc)
         /\ job'[j].pc = "ok" => Complete(netns'[t])
<1>1. \/ job'[j] = After(j, "failed")
      \/ job'[j] = After(j, "ok") /\ Complete(netns'[t])
      \/ \E pc \in Setting : job'[j] = After(j, pc) /\ SoFar(netns'[t], pc)
  BY DEF Sets
<1>2. \A pc \in {"ok", "failed"} : After(j, pc).pc \in {"idle", pc}
  <2>1. {"ok", "failed"} \subseteq JobPcs /\ Types
    BY DEF JobPcs, Inductive
  <2>2. \A pc \in {"ok", "failed"} :
          After(j, pc) = Idle \/ After(j, pc) = [Idle EXCEPT !.pc = pc]
    BY <2>1, AfterCases
  <2> QED BY <2>2, IdleFields
<1>3. \A pc \in Setting : After(j, pc).pc = pc /\ pc # "ok"
  <2>1. Setting \subseteq JobPcs /\ (\A pc \in Setting : pc \notin {"ok", "failed"}) /\ Types
    BY DEF JobPcs, InPod, Setting, Inductive
  <2> QED BY <2>1, AfterCases
<1>4. SoFar(netns'[t], "idle") /\ SoFar(netns'[t], "ok") /\ SoFar(netns'[t], "failed")
  BY DEF SoFar
<1>5. CASE job'[j] = After(j, "failed")
  <2>1. job'[j].pc = "idle" \/ job'[j].pc = "failed"
    BY <1>2, <1>5
  <2> QED BY <1>4, <2>1
<1>6. CASE job'[j] = After(j, "ok") /\ Complete(netns'[t])
  <2>1. job'[j].pc = "idle" \/ job'[j].pc = "ok"
    BY <1>2, <1>6
  <2> QED BY <1>4, <1>6, <2>1
<1>7. CASE \E pc \in Setting : job'[j] = After(j, pc) /\ SoFar(netns'[t], pc)
  BY <1>3, <1>7
<1> QED BY <1>1, <1>5, <1>6, <1>7

LEMMA WorkKeeps ==
  ASSUME Inductive, NEW j \in Job, JobStep(j) \/ JobFails(j), UNCHANGED kubeVars
  PROVE  /\ Types' /\ Quiet
         /\ InitJobs' /\ Calls' /\ Namespaces' /\ SetUp'
<1>1. /\ Works(j) /\ job' \in [Job -> JobRec]
      /\ netns' \in [Pod \union {Host} -> SettingsRec]
      /\ Finds(j) \/ Enters(j) \/ Ends(j) \/ Sets(j)
  BY WorkCases
<1>2. /\ spec' = spec /\ config' = config /\ ids' = ids /\ live' = live /\ sandbox' = sandbox
      /\ up' = up /\ kube' = kube /\ answered' = answered /\ injected' = injected
      /\ inited' = inited /\ granted' = granted /\ pnetEnv' = pnetEnv
      /\ \A i \in Job : i # j => job'[i] = job[i]
  BY <1>1 DEF Works, kubeVars
<1>3. Types'
  BY <1>1, <1>2 DEF Inductive, Types
<1>4. Quiet
  BY <1>2 DEF Quiet
<1>5. PICK q \in Pod, k \in ({"init", "call"} \union Late) : j = <<q, k>>
  BY JobParts
<1>6. \A p : SMCR(p)' = SMCR(p) /\ NetnsOf(p)' = NetnsOf(p)
             /\ PreStartRequired(p)' = PreStartRequired(p)
  BY <1>2, Fixed
<1>7. Types /\ InitJobs /\ Calls /\ Namespaces /\ SetUp /\ Accounts
  BY DEF Inductive, Devices
<1>8. \A pc \in {"ok", "failed"} : After(j, pc) = Idle \/ After(j, pc).pc = pc
  <2>1. {"ok", "failed"} \subseteq JobPcs
    BY DEF JobPcs
  <2>2. \A pc \in {"ok", "failed"} :
          After(j, pc) = Idle \/ After(j, pc) = [Idle EXCEPT !.pc = pc]
    BY <1>7, <2>1, AfterCases
  <2> QED BY <2>2, IdleFields
<1>9. \A pc \in Setting : /\ After(j, pc).pc = pc /\ After(j, pc).pod = job[j].pod
                          /\ After(j, pc).epoch = job[j].epoch /\ After(j, pc).dev = job[j].dev
  <2>1. Setting \subseteq JobPcs /\ \A pc \in Setting : pc \notin {"ok", "failed"}
    BY DEF JobPcs, InPod, Setting
  <2> QED BY <1>7, <2>1, AfterCases
\* What the job is after the step.
<1>10. \/ Finds(j) \/ Enters(j)
       \/ job'[j] = Idle \/ job'[j].pc = "failed"
       \/ job'[j].pc = "ok" /\ job[j].pc = "config" /\ SMCR(job[j].pod) # "true"
       \/ Sets(j) /\ job'[j].pc = "ok"
       \/ /\ Sets(j) /\ job'[j].pc \in Setting /\ job'[j].pod = job[j].pod
          /\ job'[j].epoch = job[j].epoch /\ job'[j].dev = job[j].dev
  <2>1. CASE Ends(j)
    <3>1. \/ job'[j] = After(j, "failed")
          \/ job[j].pc = "config" /\ SMCR(job[j].pod) # "true" /\ job'[j] = After(j, "ok")
      BY <2>1 DEF Ends
    <3> QED BY <1>8, <3>1
  <2>2. CASE Sets(j)
    <3>1. \/ job'[j] = After(j, "failed") \/ job'[j] = After(j, "ok")
          \/ \E pc \in Setting : job'[j] = After(j, pc)
      BY <2>2 DEF Sets
    <3> QED BY <1>8, <1>9, <2>2, <3>1
  <2> QED BY <1>1, <2>1, <2>2
<1>11. /\ job[j].pc \in InPod \union {"lookup"} /\ job[j].pc # "idle"
       /\ Finds(j) => job[j].pc = "lookup" /\ job'[j].pc = "config"
       /\ Enters(j) => job[j].pc = "config" /\ job'[j].pc = "tcp2smc"
       /\ Sets(j) => job[j].pc \in Setting
  BY <1>1 DEF Finds, Enters, Ends, Sets, InPod, Setting
<1>12. /\ "idle" \notin Setting /\ "failed" \notin Setting /\ "ok" \notin Setting
       /\ "config" \notin Setting /\ "lookup" \notin Setting /\ "tcp2smc" \in Setting
       /\ "idle" \notin InPod /\ "failed" \notin InPod /\ "ok" \notin InPod
       /\ Setting \subseteq InPod /\ "config" \in InPod
  BY DEF InPod, Setting
<1>13. InitJobs'
  <2> SUFFICES ASSUME NEW p \in Pod PROVE InitOK(p)'
    BY DEF InitJobs
  <2>0. InitOK(p) /\ <<p, "init">> \in Job
    BY <1>7 DEF InitJobs, Job
  <2>1. CASE job'[<<p, "init">>] = job[<<p, "init">>]
    BY <1>2, <2>0, <2>1 DEF InitOK
  <2>2. CASE j = <<p, "init">>
    <3>1. job[j].pc \notin {"lookup", "config"}
      BY <2>0, <2>2 DEF InitOK
    <3>2. job[j].pc \in Setting /\ ~Finds(j) /\ ~Enters(j)
      BY <1>11, <3>1 DEF InPod
    <3>3. /\ p \in up /\ p \in injected /\ p \notin inited /\ kube[p] = "sync"
          /\ job[j].pod = p /\ job[j].epoch = sandbox[p] /\ job[j].dev = pnetEnv[p]
      BY <2>0, <2>2, <3>2 DEF InitOK
    <3>4. \/ job'[j].pc \in {"idle", "failed", "ok"}
          \/ /\ job'[j].pc \in Setting /\ job'[j].pod = p
             /\ job'[j].epoch = sandbox[p] /\ job'[j].dev = pnetEnv[p]
      BY <1>10, <3>2, <3>3, IdleFields
    <3> QED BY <1>2, <1>12, <2>2, <3>3, <3>4 DEF InitOK
  <2> QED BY <1>2, <2>0, <2>1, <2>2
<1>14. Calls'
  <2> SUFFICES ASSUME NEW p \in Pod, NEW h \in ({"call"} \union Late) PROVE CallOK(p, h)'
    BY DEF Calls
  <2>0. CallOK(p, h) /\ <<p, h>> \in Job
    BY <1>7 DEF Calls, Job
  <2>1. CASE job'[<<p, h>>] = job[<<p, h>>]
    <3>1. h = "call" /\ job[<<p, h>>].pc # "idle" =>
            kube'[p] = "calling" /\ sandbox'[p] = sandbox[p]
      BY <1>2, <2>0 DEF CallOK
    <3> QED BY <1>3, <1>4, <2>1, <3>1, CallKept
  <2>2. CASE j = <<p, h>>
    <3>1. /\ h = "call" => kube[p] = "calling"
          /\ config.preStart /\ kube[p] \in Placed /\ spec[p].want > 0
          /\ job[j].pc \in InPod => /\ job[j].pod \in Pod /\ kube[job[j].pod] \in Placed
                                    /\ job[j].pod = p \/ p \in Strays(job[j].pod)
          /\ job[j].pc \in Setting =>
               SMCR(job[j].pod) = "true" /\ job[j].dev \in DevicesOf(ids[p]["app"])
          /\ h = "call" /\ job[j].pc \in Setting => job[j].epoch = sandbox[p]
      BY <1>11, <2>0, <2>2 DEF CallOK
    <3>2. PICK r : r = job'[j]
      OBVIOUS
    <3>3. \A x : Strays(x)' = Strays(x)
      BY <1>2 DEF Strays
    <3>4. CASE Finds(j)
      <4>1. PICK x \in live : /\ ids[p]["app"] \intersect ids[x]["app"] # {}
                              /\ r.pc = "config" /\ r.pod = x
        BY <2>2, <3>2, <3>4 DEF Finds
      <4>2. x \in Pod /\ kube[x] \in Placed
        BY <1>7, <4>1 DEF Types, Accounts
      <4>3. x = p \/ p \in Strays(x)
        <5>1. ids[p]["app"] \intersect ids[x]["app"] \subseteq Held(p) \intersect Held(x)
          BY DEF Held
        <5>2. x # p => p \notin live
          BY <1>7, <4>1, <5>1 DEF Accounts
        <5> QED BY <4>1, <5>2 DEF Strays
      <4> QED BY <1>2, <1>12, <2>2, <3>1, <3>2, <3>3, <4>1, <4>2, <4>3 DEF CallOK
    <3>5. CASE Enters(j)
      <4>1. /\ r.pc = "tcp2smc" /\ r.pod = job[j].pod /\ SMCR(r.pod) = "true"
            /\ r.epoch = sandbox[r.pod] /\ r.dev \in DevicesOf(ids[p]["app"])
        BY <2>2, <3>2, <3>5 DEF Enters
      <4>2. job[j].pc \in InPod
        BY <1>11, <1>12, <3>5
      <4>3. h = "call" => r.pod = p
        BY <2>2, <4>1, <4>2, OwnPod
      <4> QED BY <1>2, <1>6, <1>12, <2>2, <3>1, <3>2, <3>3, <4>1, <4>2, <4>3 DEF CallOK
    <3>6. CASE r = Idle
      BY <1>12, <2>2, <3>2, <3>6, IdleFields DEF CallOK
    <3>7. CASE r.pc \in {"failed", "ok"}
      BY <1>2, <1>12, <2>2, <3>1, <3>2, <3>7 DEF CallOK
    <3>8. CASE /\ Sets(j) /\ r.pc \in Setting /\ r.pod = job[j].pod
               /\ r.epoch = job[j].epoch /\ r.dev = job[j].dev
      <4>1. job[j].pc \in Setting /\ job[j].pc \in InPod
        BY <1>11, <1>12, <3>8
      <4>2. SMCR(r.pod)' = "true"
        BY <1>6, <3>1, <3>8, <4>1
      <4> QED BY <1>2, <1>12, <2>2, <3>1, <3>2, <3>3, <3>8, <4>1, <4>2 DEF CallOK
    <3> QED BY <1>10, <3>2, <3>4, <3>5, <3>6, <3>7, <3>8
  <2> QED BY <1>2, <2>0, <2>1, <2>2
<1>15. Namespaces'
  <2> SUFFICES ASSUME NEW p \in Pod PROVE SpaceOK(p)'
    BY DEF Namespaces
  <2>0. SpaceOK(p)
    BY <1>7 DEF Namespaces
  <2>1. \A d : Allowed(p, d)' <=> Allowed(p, d)
    BY <1>2 DEF Allowed, Strays
  <2>2. CASE netns'[p] = netns[p]
    BY <1>2, <2>0, <2>1, <2>2 DEF SpaceOK
  <2>3. CASE netns'[p] # netns[p]
    <3>1. Sets(j)
      BY <1>1, <2>3 DEF Finds, Enters, Ends
    <3>2. PICK t \in Pod \union {Host} : t = NetnsOf(job[j].pod)
      BY <3>1, WorkOfAJob DEF Sets, NetnsOf
    <3>3. netns' = [netns EXCEPT ![t] = netns'[t]] /\ Grown(netns[t], netns'[t], job[j].dev)
      BY <3>1, <3>2 DEF Sets
    <3>4. p = t
      BY <1>7, <2>3, <3>3 DEF Types
    <3>5. job[j].pod = p /\ p # Host /\ p \in up
      <4>1. p # Host
        BY PodAssumption
      <4>2. job[j].pod = p
        BY <3>2, <3>4, <4>1 DEF NetnsOf
      <4> QED BY <3>1, <3>2, <3>4, <4>1, <4>2 DEF Sets, Reaches
    <3>6. Allowed(p, job[j].dev)
      BY <3>1, <3>5, WorkOfAJob DEF Sets
    <3>7. netns'[p].pnet # None => Allowed(p, netns'[p].pnet)
      BY <2>0, <3>3, <3>4, <3>6 DEF Grown, SpaceOK
    <3>8. netns'[p].pnet # None => Allowed(p, netns[p].pnet)'
      BY <2>1, <3>7
    <3> QED BY <1>2, <2>0, <3>5, <3>8 DEF SpaceOK
  <2> QED BY <2>2, <2>3
<1>16. SetUp'
  <2> SUFFICES ASSUME NEW p \in Pod PROVE SetUpOK(p)'
    BY DEF SetUp
  <2>0. SetUpOK(p) /\ <<p, "init">> \in Job /\ <<p, "call">> \in Job
    BY <1>7 DEF SetUp, Job
  <2>1. PICK t \in Pod \union {Host} : t = NetnsOf(p)
    BY DEF NetnsOf
  <2>2. /\ Complete(netns[t]) => Complete(netns'[t])
        /\ \A pc : SoFar(netns[t], pc) => SoFar(netns'[t], pc)
    BY <1>1, OnlyGrown
  <2>3. p \in up => /\ SoFar(netns'[t], job'[<<p, "init">>].pc)
                    /\ job'[<<p, "init">>].pc = "ok" => Complete(netns'[t])
    <3> SUFFICES ASSUME p \in up
                 PROVE  /\ SoFar(netns'[t], job'[<<p, "init">>].pc)
                        /\ job'[<<p, "init">>].pc = "ok" => Complete(netns'[t])
      OBVIOUS
    <3>0. /\ SoFar(netns[t], job[<<p, "init">>].pc)
          /\ job[<<p, "init">>].pc = "ok" => Complete(netns[t])
      BY <2>0, <2>1 DEF SetUpOK
    <3>1. CASE job'[<<p, "init">>] = job[<<p, "init">>]
      BY <2>2, <3>0, <3>1
    <3>2. CASE j = <<p, "init">>
      <4>1. job[j].pc \notin {"lookup", "config"}
        BY <1>7, <3>2 DEF InitJobs, InitOK
      <4>2. job[j].pc \in Setting /\ job[j].pod = p
        BY <1>7, <1>11, <3>2, <4>1 DEF InitJobs, InitOK, InPod
      <4>3. Ends(j) => job'[j].pc \in {"idle", "failed"}
        BY <1>8, <4>1, IdleFields DEF Ends
      <4>4. CASE Sets(j)
        BY <2>1, <3>0, <3>2, <4>2, <4>4, SetsMakes
      <4> QED BY <1>1, <1>11, <3>2, <4>1, <4>3, <4>4 DEF SoFar
    <3> QED BY <1>2, <2>0, <3>1, <3>2
  <2>4. p \in up => /\ SoFar(netns'[t], job'[<<p, "call">>].pc)
                    /\ job'[<<p, "call">>].pc = "ok" /\ SMCR(p) = "true" => Complete(netns'[t])
    <3> SUFFICES ASSUME p \in up
                 PROVE  /\ SoFar(netns'[t], job'[<<p, "call">>].pc)
                        /\ job'[<<p, "call">>].pc = "ok" /\ SMCR(p) = "true" => Complete(netns'[t])
      OBVIOUS
    <3>0. /\ SoFar(netns[t], job[<<p, "call">>].pc)
          /\ job[<<p, "call">>].pc = "ok" /\ SMCR(p) = "true" => Complete(netns[t])
      BY <2>0, <2>1 DEF SetUpOK
    <3>1. CASE job'[<<p, "call">>] = job[<<p, "call">>]
      BY <2>2, <3>0, <3>1
    <3>2. CASE j = <<p, "call">>
      <4>1. job[j].pc \in InPod => job[j].pod = p
        BY <3>2, OwnPod
      <4>2. CASE Finds(j) \/ Enters(j)
        BY <1>11, <3>2, <4>2 DEF SoFar
      <4>3. CASE Ends(j)
        BY <1>8, <1>12, <3>2, <4>1, <4>3, IdleFields DEF Ends, SoFar
      <4>4. CASE Sets(j)
        <5>1. job[j].pod = p
          BY <1>11, <1>12, <4>1, <4>4
        <5> QED BY <2>1, <3>0, <3>2, <5>1, <4>4, SetsMakes
      <4> QED BY <1>1, <4>2, <4>3, <4>4
    <3> QED BY <1>2, <2>0, <3>1, <3>2
  <2>5. NetnsOf(p)' = t
    BY <1>6, <2>1
  <2> QED BY <1>2, <1>6, <2>0, <2>1, <2>2, <2>3, <2>4, <2>5 DEF SetUpOK
<1> QED BY <1>3, <1>4, <1>13, <1>14, <1>15, <1>16

---------------------------------------------------------------------------
(* Sandboxes, starts and deaths                                            *)

LateOK(x) == \A l \in Late : CallOK(x, l)

PodOK(x) ==
    InitOK(x) /\ CallOK(x, "call") /\ LateOK(x) /\ SpaceOK(x) /\ SetUpOK(x)

\* A pod that a step of another one leaves alone.
Undisturbed(x) ==
    /\ kube'[x] = kube[x] /\ (x \in up' <=> x \in up) /\ (x \in inited' <=> x \in inited)
    /\ sandbox'[x] = sandbox[x] /\ netns'[x] = netns[x] /\ netns'[Host] = netns[Host]
    /\ \A k \in ({"init", "call"} \union Late) : job'[<<x, k>>] = job[<<x, k>>]

LEMMA LateKept ==
  ASSUME Inductive, Types', Quiet, NEW x \in Pod,
         \A l \in Late : job'[<<x, l>>] = job[<<x, l>>]
  PROVE  LateOK(x)'
<1> SUFFICES ASSUME NEW l \in Late PROVE CallOK(x, l)'
  BY DEF LateOK
<1>1. l # "call" /\ l \in ({"call"} \union Late)
  BY PodAssumption
<1> QED BY <1>1, CallKept

LEMMA UndisturbedKept ==
  ASSUME Inductive, Types', Quiet, NEW x \in Pod, Undisturbed(x)
  PROVE  PodOK(x)'
<1>1. /\ spec' = spec /\ config' = config /\ (x \in injected' <=> x \in injected)
      /\ pnetEnv' = pnetEnv /\ ids' = ids /\ granted' = granted
  BY DEF Quiet
<1>2. /\ SMCR(x)' = SMCR(x) /\ NetnsOf(x)' = NetnsOf(x)
      /\ PreStartRequired(x)' = PreStartRequired(x)
  BY <1>1, Fixed
<1>3. InitOK(x)'
  BY <1>1 DEF Inductive, InitJobs, InitOK, Undisturbed
<1>4. \A k \in ({"call"} \union Late) : CallOK(x, k)'
  <2>1. job[<<x, "call">>].pc # "idle" => kube[x] = "calling"
    BY DEF Inductive, Calls, CallOK
  <2> QED BY <2>1, CallKept DEF Undisturbed
<1>5. SpaceOK(x)'
  <2>1. SpaceOK(x)
    BY DEF Inductive, Namespaces
  <2>2. netns[x].pnet # None => kube[x] \in Placed /\ Allowed(x, netns[x].pnet)
    BY <2>1 DEF SpaceOK, Clean, Placed
  <2>3. netns[x].pnet # None => \A d : d = netns[x].pnet => Allowed(x, d)'
    BY <2>2, StaysAllowed
  <2>4. netns'[x].pnet # None => Allowed(x, netns[x].pnet)'
    BY <2>3 DEF Undisturbed
  <2> QED BY <2>1, <2>4 DEF SpaceOK, Undisturbed
<1>6. SetUpOK(x)'
  <2>1. PICK t : t = NetnsOf(x) /\ NetnsOf(x)' = t
    BY <1>2
  <2>2. netns'[t] = netns[t]
    BY <2>1 DEF NetnsOf, Undisturbed
  <2>3. SetUpOK(x)
    BY DEF Inductive, SetUp
  <2> QED BY <1>1, <1>2, <2>1, <2>2, <2>3 DEF SetUpOK, Undisturbed
<1> QED BY <1>3, <1>4, <1>5, <1>6 DEF PodOK, LateOK

LEMMA AllPodsOK ==
  ASSUME Types', \A x \in Pod : PodOK(x)'
  PROVE  InitJobs' /\ Calls' /\ Namespaces' /\ SetUp'
<1>1. \A x \in Pod : /\ InitOK(x)' /\ CallOK(x, "call")' /\ LateOK(x)'
                     /\ SpaceOK(x)' /\ SetUpOK(x)'
  BY DEF PodOK
<1>2. Calls'
  <2> SUFFICES ASSUME NEW x \in Pod, NEW k \in ({"call"} \union Late) PROVE CallOK(x, k)'
    BY DEF Calls
  <2>1. CASE k = "call"
    BY <1>1, <2>1
  <2>2. CASE k \in Late
    BY <1>1, <2>2 DEF LateOK
  <2> QED BY <2>1, <2>2
<1> QED BY <1>1, <1>2 DEF InitJobs, Namespaces, SetUp

LEMMA IdleCallOK ==
  ASSUME NEW p, NEW k, job'[<<p, k>>] = Idle
  PROVE  CallOK(p, k)'
<1>1. Idle.pc = "idle" /\ Idle.pc \notin InPod /\ Idle.pc \notin Setting
  BY DEF Idle, InPod, Setting
<1> QED BY <1>1 DEF CallOK

LEMMA JobNames ==
  /\ \A x \in Pod : <<x, "init">> \in Job /\ <<x, "call">> \in Job
  /\ \A x \in Pod : \A l \in Late : <<x, l>> \in Job
  /\ \A l \in Late : l # "init" /\ l # "call"
  /\ Idle \in JobRec /\ Clean \in SettingsRec
  BY PodAssumption DEF Job, Idle, JobRec, JobPcs, Clean, SettingsRec

LEMMA CreateSandboxKeeps ==
  ASSUME Inductive, NEW p \in Pod, CreateSandbox(p)
  PROVE  Types' /\ Quiet /\ InitJobs' /\ Calls' /\ Namespaces' /\ SetUp'
<1>0. Types /\ InitOK(p) /\ CallOK(p, "call") /\ LateOK(p) /\ SpaceOK(p) /\ SetUpOK(p)
  BY DEF Inductive, InitJobs, Calls, LateOK, Namespaces, SetUp
<1>1. /\ kube[p] = "sync" /\ p \notin up /\ up' = up \union {p}
      /\ sandbox' = [sandbox EXCEPT ![p] = @ + 1]
      /\ UNCHANGED <<spec, config, ids, live, netns, job, kube, answered, injected, inited,
                     granted, pnetEnv>>
  BY DEF CreateSandbox, kubeVars
<1>2. Types'
  BY <1>0, <1>1 DEF Types
<1>3. Quiet
  BY <1>1 DEF Quiet
<1>4. \A x \in Pod : x # p => Undisturbed(x)
  BY <1>0, <1>1 DEF Undisturbed, Types
<1>5. /\ job[<<p, "init">>].pc \notin Setting \union {"ok"}
      /\ job[<<p, "call">>].pc = "idle"
  BY <1>0, <1>1 DEF InitOK, CallOK
<1>6. InitOK(p)'
  BY <1>0, <1>1, <1>5 DEF InitOK
<1>7. CallOK(p, "call")' /\ LateOK(p)'
  BY <1>1, <1>2, <1>3, <1>5, CallKept, LateKept
<1>8. SpaceOK(p)'
  BY <1>0, <1>1 DEF SpaceOK, Clean
<1>9. SetUpOK(p)'
  <2>1. p \notin inited
    BY <1>0, <1>1 DEF SetUpOK
  <2>2. \A n : SoFar(n, job[<<p, "init">>].pc) /\ SoFar(n, job[<<p, "call">>].pc)
    BY <1>5 DEF SoFar, Setting
  <2> QED BY <1>1, <1>5, <2>1, <2>2 DEF SetUpOK
<1>10. PodOK(p)'
  BY <1>6, <1>7, <1>8, <1>9 DEF PodOK
<1>11. \A x \in Pod : PodOK(x)'
  BY <1>2, <1>3, <1>4, <1>10, UndisturbedKept
<1> QED BY <1>2, <1>3, <1>11, AllPodsOK

LEMMA RunInitKeeps ==
  ASSUME Inductive, NEW p \in Pod, RunInit(p)
  PROVE  Types' /\ Quiet /\ InitJobs' /\ Calls' /\ Namespaces' /\ SetUp'
<1> DEFINE j == <<p, "init">>
           start == [pc |-> "tcp2smc", pod |-> p, epoch |-> sandbox[p], dev |-> pnetEnv[p]]
<1>0. Types /\ InitOK(p) /\ CallOK(p, "call") /\ LateOK(p) /\ SpaceOK(p) /\ SetUpOK(p)
  BY DEF Inductive, InitJobs, Calls, LateOK, Namespaces, SetUp
<1>1. /\ kube[p] = "sync" /\ p \in up /\ p \in injected /\ p \notin inited
      /\ \/ job' = [job EXCEPT ![j] = start] /\ inited' = inited
         \/ job[j].pc = "ok" /\ job' = [job EXCEPT ![j] = Idle] /\ inited' = inited \union {p}
      /\ UNCHANGED <<spec, config, ids, live, sandbox, up, netns, kube, answered, injected,
                     granted, pnetEnv>>
  BY DEF RunInit
<1>2. start \in JobRec
  BY <1>0 DEF Types, JobRec, JobPcs, InPod, Setting
<1> HIDE DEF start
<1>3. Types'
  BY <1>0, <1>1, <1>2, JobNames DEF Types
<1>4. Quiet
  BY <1>1 DEF Quiet
<1>5. \A x \in Pod : x # p => Undisturbed(x)
  BY <1>0, <1>1, JobNames DEF Undisturbed, Types
<1>6. /\ job'[<<p, "call">>] = job[<<p, "call">>] /\ \A l \in Late : job'[<<p, l>>] = job[<<p, l>>]
      /\ \/ job'[j] = start /\ inited' = inited
         \/ job[j].pc = "ok" /\ job'[j] = Idle /\ inited' = inited \union {p}
  BY <1>0, <1>1, JobNames DEF Types
<1>7. job[<<p, "call">>].pc = "idle"
  BY <1>0, <1>1 DEF CallOK
<1>8. CallOK(p, "call")' /\ LateOK(p)'
  BY <1>1, <1>3, <1>4, <1>6, <1>7, CallKept, LateKept
<1>9. InitOK(p)'
  <2>1. CASE job'[j] = start /\ inited' = inited
    BY <1>1, <2>1 DEF InitOK, start
  <2>2. CASE job'[j] = Idle
    BY <2>2 DEF InitOK, Idle, Setting
  <2> QED BY <1>6, <2>1, <2>2
<1>10. SpaceOK(p)'
  BY <1>0, <1>1 DEF SpaceOK, Allowed, Strays
<1>11. SetUpOK(p)'
  <2>1. PICK t : t = NetnsOf(p) /\ NetnsOf(p)' = t
    BY <1>1, Fixed
  <2>2. job[j].pc = "ok" => Complete(netns[t])
    BY <1>0, <1>1, <2>1 DEF SetUpOK
  <2>3. \A n : SoFar(n, "tcp2smc") /\ SoFar(n, "idle")
    BY DEF SoFar
  <2>4. job'[j].pc \in {"tcp2smc", "idle"}
    BY <1>6 DEF start, Idle
  <2>5. job'[<<p, "call">>].pc = "idle"
    BY <1>6, <1>7
  <2>6. p \in inited' => Complete(netns'[t])
    BY <1>1, <1>6, <2>2
  <2> QED BY <1>1, <2>1, <2>3, <2>4, <2>5, <2>6 DEF SetUpOK
<1>12. PodOK(p)'
  BY <1>8, <1>9, <1>10, <1>11 DEF PodOK
<1>13. \A x \in Pod : PodOK(x)'
  BY <1>3, <1>4, <1>5, <1>12, UndisturbedKept
<1> QED BY <1>3, <1>4, <1>13, AllPodsOK

\* The chart does not enable the webhook together with PreStartContainer.
LEMMA OneWay ==
  ASSUME Inductive, config.preStart, NEW p \in Pod
  PROVE  p \notin injected
<1>1. config.file.webhook = "false"
  BY StartAssumption DEF Inductive, Types
<1>2. p \in injected => podWebhook(p)
  BY DEF Inductive, Devices, Injections
<1>3. ~podWebhook(p)
  BY <1>1 DEF podWebhook, parseConfig
<1> QED BY <1>2, <1>3

LEMMA StartContainerKeeps ==
  ASSUME Inductive, NEW p \in Pod, StartContainer(p)
  PROVE  Types' /\ Quiet /\ InitJobs' /\ Calls' /\ Namespaces' /\ SetUp'
<1> DEFINE j == <<p, "call">>
           start == [Idle EXCEPT !.pc = "lookup"]
<1>0. Types /\ InitOK(p) /\ CallOK(p, "call") /\ LateOK(p) /\ SpaceOK(p) /\ SetUpOK(p)
  BY DEF Inductive, InitJobs, Calls, LateOK, Namespaces, SetUp
<1>1. /\ kube[p] = "sync" /\ p \in up /\ (p \in injected => p \in inited)
      /\ \/ ~PreStartRequired(p) /\ kube' = [kube EXCEPT ![p] = "running"] /\ job' = job
         \/ /\ PreStartRequired(p) /\ kube' = [kube EXCEPT ![p] = "calling"]
            /\ job' = [job EXCEPT ![j] = start]
      /\ UNCHANGED <<spec, config, ids, live, sandbox, up, netns, answered, injected, inited,
                     granted, pnetEnv>>
  BY DEF StartContainer, ReadyToStart, KubeMove
<1>2. start \in JobRec /\ start.pc = "lookup"
  BY DEF Idle, JobRec, JobPcs
<1> HIDE DEF start
<1>3. Types'
  <2>1. job' \in [Job -> JobRec]
    BY <1>0, <1>1, <1>2, JobNames DEF Types
  <2>2. kube' \in [Pod -> KubeStates]
    BY <1>0, <1>1 DEF Types, KubeStates
  <2> QED BY <1>0, <1>1, <2>1, <2>2 DEF Types
<1>4. p \in live
  BY <1>1 DEF Inductive, Devices, Accounts, Living
<1>5. Quiet
  BY <1>0, <1>1, <1>4 DEF Quiet, Types, Placed
<1>6. \A x \in Pod : x # p => Undisturbed(x)
  BY <1>0, <1>1, JobNames DEF Undisturbed, Types
<1>7. /\ job'[<<p, "init">>] = job[<<p, "init">>] /\ \A l \in Late : job'[<<p, l>>] = job[<<p, l>>]
      /\ \/ ~PreStartRequired(p) /\ kube'[p] = "running" /\ job'[j] = job[j]
         \/ PreStartRequired(p) /\ kube'[p] = "calling" /\ job'[j] = start
  BY <1>0, <1>1, JobNames DEF Types
<1>8. job[j].pc = "idle" /\ job[<<p, "init">>].pc \notin Setting \union {"ok"}
  BY <1>0, <1>1 DEF CallOK, InitOK
<1>9. InitOK(p)'
  BY <1>0, <1>7, <1>8 DEF InitOK
<1>10. LateOK(p)'
  BY <1>3, <1>5, <1>7, LateKept
<1>11. CallOK(p, "call")'
  <2>1. CASE job'[j] = job[j]
    BY <1>3, <1>5, <1>8, <2>1, CallKept
  <2>2. CASE PreStartRequired(p) /\ kube'[p] = "calling" /\ job'[j] = start
    BY <1>1, <1>2, <2>2 DEF CallOK, PreStartRequired, InPod, Setting, Placed
  <2> QED BY <1>7, <2>1, <2>2
<1>12. SpaceOK(p)'
  BY <1>0, <1>1, <1>7 DEF SpaceOK, Allowed, Strays
<1>13. SetUpOK(p)'
  <2>1. PICK t : t = NetnsOf(p) /\ NetnsOf(p)' = t
    BY <1>1, Fixed
  <2>2. PreStartRequired(p)' = PreStartRequired(p) /\ SMCR(p)' = SMCR(p)
    BY <1>1, Fixed
  <2>3. \A n : SoFar(n, job[<<p, "init">>].pc) /\ SoFar(n, "idle") /\ SoFar(n, "lookup")
    BY <1>8 DEF SoFar, Setting
  <2>4. job'[j].pc \in {"idle", "lookup"} /\ job'[<<p, "init">>].pc # "ok"
    BY <1>2, <1>7, <1>8
  <2>5. kube'[p] = "running" => ~PreStartRequired(p)
    BY <1>7
  <2>6. p \in inited => Complete(netns[t])
    BY <1>0, <2>1 DEF SetUpOK
  <2> QED BY <1>1, <1>7, <2>1, <2>2, <2>3, <2>4, <2>5, <2>6 DEF SetUpOK
<1>14. PodOK(p)'
  BY <1>9, <1>10, <1>11, <1>12, <1>13 DEF PodOK
<1>15. \A x \in Pod : PodOK(x)'
  BY <1>3, <1>5, <1>6, <1>14, UndisturbedKept
<1> QED BY <1>3, <1>5, <1>15, AllPodsOK

LEMMA PreStartReturnsKeeps ==
  ASSUME Inductive, NEW p \in Pod, PreStartReturns(p)
  PROVE  Types' /\ Quiet /\ InitJobs' /\ Calls' /\ Namespaces' /\ SetUp'
<1> DEFINE j == <<p, "call">>
<1>0. Types /\ InitOK(p) /\ CallOK(p, "call") /\ LateOK(p) /\ SpaceOK(p) /\ SetUpOK(p)
  BY DEF Inductive, InitJobs, Calls, LateOK, Namespaces, SetUp
<1>1. /\ kube[p] = "calling" /\ job[j].pc \in {"ok", "failed"}
      /\ kube' = [kube EXCEPT ![p] = IF job[j].pc = "ok" /\ p \in up THEN "running" ELSE "sync"]
      /\ job' = [job EXCEPT ![j] = Idle]
      /\ UNCHANGED <<spec, config, ids, live, sandbox, up, netns, answered, injected, inited,
                     granted, pnetEnv>>
  BY DEF PreStartReturns, KubeMove
<1>2. Types'
  BY <1>0, <1>1, JobNames DEF Types, KubeStates
<1>3. p \in live
  BY <1>1 DEF Inductive, Devices, Accounts, Living
<1>4. Quiet
  BY <1>0, <1>1, <1>3 DEF Quiet, Types, Placed
<1>5. \A x \in Pod : x # p => Undisturbed(x)
  BY <1>0, <1>1, JobNames DEF Undisturbed, Types
<1>6. /\ job'[<<p, "init">>] = job[<<p, "init">>] /\ \A l \in Late : job'[<<p, l>>] = job[<<p, l>>]
      /\ job'[j] = Idle /\ kube'[p] \in {"running", "sync"}
      /\ kube'[p] = "running" => job[j].pc = "ok" /\ p \in up
  BY <1>0, <1>1, JobNames DEF Types
<1>7. job[<<p, "init">>].pc \notin Setting \union {"ok"}
  BY <1>0, <1>1 DEF InitOK
<1>8. InitOK(p)'
  BY <1>0, <1>6, <1>7 DEF InitOK
<1>9. LateOK(p)' /\ CallOK(p, "call")'
  BY <1>2, <1>4, <1>6, CallKept, IdleCallOK, LateKept
<1>10. SpaceOK(p)'
  BY <1>0, <1>1, <1>6 DEF SpaceOK, Allowed, Strays
<1>11. SetUpOK(p)'
  <2>1. PICK t : t = NetnsOf(p) /\ NetnsOf(p)' = t
    BY <1>1, Fixed
  <2>2. SMCR(p)' = SMCR(p)
    BY <1>1, Fixed
  <2>3. \A n : SoFar(n, job[<<p, "init">>].pc) /\ SoFar(n, "idle")
    BY <1>7 DEF SoFar, Setting
  <2>4. job'[j].pc = "idle" /\ job'[<<p, "init">>].pc # "ok"
    BY <1>6, <1>7 DEF Idle
  <2>5. p \notin injected
    BY <1>0, <1>1, OneWay DEF CallOK
  <2>6. kube'[p] = "running" /\ SMCR(p) = "true" => Complete(netns[t])
    BY <1>0, <1>6, <2>1 DEF SetUpOK
  <2>7. p \in inited => p \in up /\ Complete(netns[t])
    BY <1>0, <2>1 DEF SetUpOK
  <2> QED BY <1>1, <1>6, <2>1, <2>2, <2>3, <2>4, <2>5, <2>6, <2>7 DEF SetUpOK
<1>12. PodOK(p)'
  BY <1>8, <1>9, <1>10, <1>11 DEF PodOK
<1>13. \A x \in Pod : PodOK(x)'
  BY <1>2, <1>4, <1>5, <1>12, UndisturbedKept
<1> QED BY <1>2, <1>4, <1>13, AllPodsOK

LEMMA PreStartExpiresKeeps ==
  ASSUME Inductive, NEW p \in Pod, PreStartExpires(p)
  PROVE  Types' /\ Quiet /\ InitJobs' /\ Calls' /\ Namespaces' /\ SetUp'
<1> DEFINE j == <<p, "call">>
<1>0. Types /\ InitOK(p) /\ CallOK(p, "call") /\ LateOK(p) /\ SpaceOK(p) /\ SetUpOK(p)
  BY DEF Inductive, InitJobs, Calls, LateOK, Namespaces, SetUp
<1>a. PICK l \in Late : job' = [job EXCEPT ![<<p, l>>] = job[j], ![j] = Idle]
  <2>1. (CHOOSE l \in Unused(p) : TRUE) \in Unused(p)
    BY DEF PreStartExpires
  <2>2. (CHOOSE l \in Unused(p) : TRUE) \in Late
    BY <2>1 DEF Unused
  <2> QED BY <2>2 DEF PreStartExpires
<1>1. /\ kube[p] = "calling" /\ kube' = [kube EXCEPT ![p] = "sync"]
      /\ job' = [job EXCEPT ![<<p, l>>] = job[j], ![j] = Idle]
      /\ UNCHANGED <<spec, config, ids, live, sandbox, up, netns, answered, injected, inited,
                     granted, pnetEnv>>
  BY <1>a DEF PreStartExpires, KubeMove
<1>2. job \in [Job -> JobRec] /\ job[j] \in JobRec
  BY <1>0, JobNames DEF Types
<1>3. job' \in [Job -> JobRec]
  BY <1>1, <1>2, JobNames
<1>4. Types'
  BY <1>0, <1>1, <1>3 DEF Types, KubeStates
<1>5. p \in live
  BY <1>1 DEF Inductive, Devices, Accounts, Living
<1>6. Quiet
  BY <1>0, <1>1, <1>5 DEF Quiet, Types, Placed
<1>7. /\ job'[<<p, "init">>] = job[<<p, "init">>] /\ job'[<<p, l>>] = job[j]
      /\ \A k \in Late : k # l => job'[<<p, k>>] = job[<<p, k>>]
      /\ job'[j] = Idle /\ kube'[p] = "sync"
      /\ \A x \in Pod : x # p => \A k \in ({"init", "call"} \union Late) :
           job'[<<x, k>>] = job[<<x, k>>]
  BY <1>0, <1>1, <1>2, JobNames DEF Types
<1>8. \A x \in Pod : x # p => Undisturbed(x)
  BY <1>0, <1>1, <1>7 DEF Undisturbed, Types
<1>9. job[<<p, "init">>].pc \notin Setting \union {"ok"}
  BY <1>0, <1>1 DEF InitOK
<1>10. InitOK(p)'
  BY <1>0, <1>7, <1>9 DEF InitOK
<1>11. CallOK(p, "call")'
  BY <1>7, IdleCallOK
<1>12. CallOK(p, l)'
  <2>1. PICK r : r = job[j]
    OBVIOUS
  <2>2. /\ r.pc = "idle" => r = Idle
        /\ r.pc # "idle" => config.preStart /\ kube[p] \in Placed /\ spec[p].want > 0
        /\ r.pc \in InPod => /\ r.pod \in Pod /\ kube[r.pod] \in Placed
                             /\ r.pod = p \/ p \in Strays(r.pod)
        /\ r.pc \in Setting => SMCR(r.pod) = "true" /\ r.dev \in DevicesOf(ids[p]["app"])
    BY <1>0, <2>1 DEF CallOK
  <2>3. r.pc \in InPod => kube'[r.pod] \in Placed /\ Strays(r.pod) \subseteq Strays(r.pod)'
    BY <1>4, <1>6, <2>2, StaysAllowed
  <2>4. SMCR(r.pod)' = SMCR(r.pod)
    BY <1>1, Fixed
  <2>5. job'[<<p, l>>] = r /\ kube'[p] \in Placed /\ l # "call"
    BY <1>7, <2>1, JobNames DEF Placed
  <2> QED BY <1>1, <2>2, <2>3, <2>4, <2>5 DEF CallOK
<1>b. LateOK(p)'
  <2> SUFFICES ASSUME NEW k \in Late, k # l PROVE CallOK(p, k)'
    BY <1>12 DEF LateOK
  <2> QED BY <1>4, <1>6, <1>7, JobNames, CallKept
<1>13. SpaceOK(p)'
  BY <1>0, <1>1, <1>7 DEF SpaceOK, Allowed, Strays
<1>14. SetUpOK(p)'
  <2>1. PICK t : t = NetnsOf(p) /\ NetnsOf(p)' = t
    BY <1>1, Fixed
  <2>2. \A n : SoFar(n, job[<<p, "init">>].pc) /\ SoFar(n, "idle")
    BY <1>9 DEF SoFar, Setting
  <2>3. job'[j].pc = "idle" /\ job'[<<p, "init">>].pc # "ok"
    BY <1>7, <1>9 DEF Idle
  <2>4. p \in inited => p \in up /\ Complete(netns[t])
    BY <1>0, <2>1 DEF SetUpOK
  <2> QED BY <1>1, <1>7, <2>1, <2>2, <2>3, <2>4 DEF SetUpOK
<1>15. PodOK(p)'
  BY <1>10, <1>11, <1>b, <1>13, <1>14 DEF PodOK
<1>16. \A x \in Pod : PodOK(x)'
  BY <1>4, <1>6, <1>8, <1>15, UndisturbedKept
<1> QED BY <1>4, <1>6, <1>16, AllPodsOK

LEMMA ContainerDiesKeeps ==
  ASSUME Inductive, NEW p \in Pod, ContainerDies(p)
  PROVE  Types' /\ Quiet /\ InitJobs' /\ Calls' /\ Namespaces' /\ SetUp'
<1>0. Types /\ InitOK(p) /\ CallOK(p, "call") /\ LateOK(p) /\ SpaceOK(p) /\ SetUpOK(p)
  BY DEF Inductive, InitJobs, Calls, LateOK, Namespaces, SetUp
<1>1. /\ kube[p] = "running" /\ kube' = [kube EXCEPT ![p] = "sync"]
      /\ UNCHANGED <<spec, config, ids, live, sandbox, up, netns, job, answered, injected,
                     inited, granted, pnetEnv>>
  BY DEF ContainerDies, KubeMove, setupVars
<1>2. Types'
  BY <1>0, <1>1 DEF Types, KubeStates
<1>3. p \in live
  BY <1>1 DEF Inductive, Devices, Accounts, Living
<1>4. Quiet
  BY <1>0, <1>1, <1>3 DEF Quiet, Types, Placed
<1>5. kube'[p] = "sync" /\ \A x \in Pod : x # p => Undisturbed(x)
  BY <1>0, <1>1 DEF Undisturbed, Types
<1>6. /\ job[<<p, "init">>].pc \notin Setting \union {"ok"}
      /\ job[<<p, "call">>].pc = "idle"
  BY <1>0, <1>1 DEF InitOK, CallOK
<1>7. InitOK(p)'
  BY <1>0, <1>1, <1>6 DEF InitOK
<1>8. CallOK(p, "call")' /\ LateOK(p)'
  BY <1>1, <1>2, <1>4, <1>6, CallKept, LateKept
<1>9. SpaceOK(p)'
  BY <1>0, <1>1, <1>5 DEF SpaceOK, Allowed, Strays
<1>10. SetUpOK(p)'
  <2>1. PICK t : t = NetnsOf(p) /\ NetnsOf(p)' = t
    BY <1>1, Fixed
  <2>2. SMCR(p)' = SMCR(p)
    BY <1>1, Fixed
  <2> QED BY <1>0, <1>1, <1>5, <2>1, <2>2 DEF SetUpOK
<1>11. PodOK(p)'
  BY <1>7, <1>8, <1>9, <1>10 DEF PodOK
<1>12. \A x \in Pod : PodOK(x)'
  BY <1>2, <1>4, <1>5, <1>11, UndisturbedKept
<1> QED BY <1>2, <1>4, <1>12, AllPodsOK

\* SandboxDies and Delete: what is left of the pod.
Cleared(p) ==
    /\ up' = up \ {p} /\ inited' = inited \ {p}
    /\ job' = [job EXCEPT ![<<p, "init">>] = Idle]
    /\ netns' = [netns EXCEPT ![p] = Clean]
    /\ \A x \in Pod : x # p => kube'[x] = kube[x]
    /\ kube' \in [Pod -> KubeStates] /\ live' \subseteq Pod /\ kube'[p] # "running"
    /\ kube[p] = "calling" => kube'[p] = "calling"
    /\ UNCHANGED <<spec, config, ids, sandbox, answered, injected, granted, pnetEnv>>

LEMMA ClearedKeeps ==
  ASSUME Inductive, NEW p \in Pod, Cleared(p), Quiet
  PROVE  Types' /\ InitJobs' /\ Calls' /\ Namespaces' /\ SetUp'
<1>0. Types /\ InitOK(p) /\ CallOK(p, "call") /\ LateOK(p) /\ SpaceOK(p) /\ SetUpOK(p)
  BY DEF Inductive, InitJobs, Calls, LateOK, Namespaces, SetUp
<1>1. Types'
  BY <1>0, JobNames DEF Types, Cleared
<1>2. /\ job'[<<p, "init">>] = Idle /\ netns'[p] = Clean
      /\ job'[<<p, "call">>] = job[<<p, "call">>] /\ \A l \in Late : job'[<<p, l>>] = job[<<p, l>>]
      /\ p \notin up' /\ p \notin inited'
  BY <1>0, JobNames DEF Cleared, Types
<1>3. \A x \in Pod : x # p => Undisturbed(x)
  BY <1>0, JobNames, PodAssumption DEF Undisturbed, Cleared, Types
<1>4. InitOK(p)'
  BY <1>2 DEF InitOK, Idle, Setting
<1>5. job[<<p, "call">>].pc # "idle" => kube'[p] = "calling" /\ sandbox' = sandbox
  BY <1>0 DEF Cleared, CallOK
<1>6. CallOK(p, "call")' /\ LateOK(p)'
  BY <1>1, <1>2, <1>5, CallKept, LateKept
<1>7. SpaceOK(p)'
  BY <1>2 DEF SpaceOK, Clean
<1>8. SetUpOK(p)'
  BY <1>2 DEF SetUpOK, Cleared
<1>9. PodOK(p)'
  BY <1>4, <1>6, <1>7, <1>8 DEF PodOK
<1>10. \A x \in Pod : PodOK(x)'
  BY <1>1, <1>3, <1>9, UndisturbedKept
<1> QED BY <1>1, <1>10, AllPodsOK

LEMMA SandboxDiesKeeps ==
  ASSUME Inductive, NEW p \in Pod, SandboxDies(p)
  PROVE  Types' /\ Quiet /\ InitJobs' /\ Calls' /\ Namespaces' /\ SetUp'
<1>1. /\ p \in up /\ kube' = [kube EXCEPT ![p] = IF kube[p] = "running" THEN "sync" ELSE kube[p]]
      /\ live' = live
      /\ up' = up \ {p} /\ inited' = inited \ {p}
      /\ job' = [job EXCEPT ![<<p, "init">>] = Idle]
      /\ netns' = [netns EXCEPT ![p] = Clean]
      /\ UNCHANGED <<spec, config, ids, sandbox, answered, injected, granted, pnetEnv>>
  BY DEF SandboxDies, KubeMove
<1>2. kube \in [Pod -> KubeStates] /\ live \subseteq Pod
  BY DEF Inductive, Types
<1>3. Cleared(p)
  BY <1>1, <1>2 DEF Cleared, KubeStates
<1>4. kube[p] = "running" => p \in live
  BY DEF Inductive, Devices, Accounts, Living
<1>5. Quiet
  BY <1>1, <1>2, <1>4 DEF Quiet, Placed
<1> QED BY <1>3, <1>5, ClearedKeeps

LEMMA DeleteKeeps ==
  ASSUME Inductive, NEW p \in Pod, Delete(p)
  PROVE  Types' /\ Quiet /\ InitJobs' /\ Calls' /\ Namespaces' /\ SetUp'
<1>1. /\ kube[p] \in {"sync", "running"} /\ kube' = [kube EXCEPT ![p] = "gone"]
      /\ live' = live \ {p}
      /\ up' = up \ {p} /\ inited' = inited \ {p}
      /\ job' = [job EXCEPT ![<<p, "init">>] = Idle]
      /\ netns' = [netns EXCEPT ![p] = Clean]
      /\ UNCHANGED <<spec, config, ids, sandbox, answered, injected, granted, pnetEnv>>
  BY DEF Delete, KubeMove
<1>2. kube \in [Pod -> KubeStates] /\ live \subseteq Pod
  BY DEF Inductive, Types
<1>3. Cleared(p)
  BY <1>1, <1>2 DEF Cleared, KubeStates
<1>4. Quiet
  BY <1>1, <1>2 DEF Quiet, Placed
<1> QED BY <1>3, <1>4, ClearedKeeps

LEMMA AgentDiesKeeps ==
  ASSUME Inductive, AgentDies
  PROVE  Types' /\ Quiet /\ InitJobs' /\ Calls' /\ Namespaces' /\ SetUp'
<1>0. Types
  BY DEF Inductive
<1>1. /\ UNCHANGED <<spec, config, ids, live, sandbox, up, netns, kube, answered, injected,
                     inited, granted, pnetEnv>>
      /\ job' = [j \in Job |->
                   CASE j[2] = "call" /\ job[j] # Idle -> [Idle EXCEPT !.pc = "failed"]
                     [] j[2] \in Late                   -> Idle
                     [] OTHER                          -> job[j]]
  BY DEF AgentDies, kubeVars
<1>2. [Idle EXCEPT !.pc = "failed"] \in JobRec /\ [Idle EXCEPT !.pc = "failed"].pc = "failed"
  BY DEF Idle, JobRec, JobPcs
<1>3. \A x \in Pod :
        /\ job'[<<x, "init">>] = job[<<x, "init">>]
        /\ \A l \in Late : job'[<<x, l>>] = Idle
        /\ IF job[<<x, "call">>] = Idle THEN job'[<<x, "call">>] = Idle
           ELSE job'[<<x, "call">>] = [Idle EXCEPT !.pc = "failed"]
  BY <1>1, JobNames
<1>4. job' \in [Job -> JobRec]
  <2> SUFFICES ASSUME NEW j \in Job PROVE job'[j] \in JobRec
    BY <1>1
  <2>1. PICK x \in Pod, k \in ({"init", "call"} \union Late) : j = <<x, k>>
    BY JobParts
  <2>2. job[<<x, "init">>] \in JobRec
    BY <1>0, JobNames DEF Types
  <2> QED BY <1>2, <1>3, <2>1, <2>2, JobNames
<1>5. Types'
  BY <1>0, <1>1, <1>4 DEF Types
<1>6. Quiet
  BY <1>1 DEF Quiet
<1>7. ASSUME NEW x \in Pod PROVE PodOK(x)'
  <2>0. InitOK(x) /\ CallOK(x, "call") /\ SpaceOK(x) /\ SetUpOK(x)
    BY DEF Inductive, InitJobs, Calls, LateOK, Namespaces, SetUp
  <2>1. InitOK(x)'
    BY <1>1, <1>3, <2>0 DEF InitOK
  <2>2. LateOK(x)'
    <3> SUFFICES ASSUME NEW l \in Late PROVE CallOK(x, l)'
      BY DEF LateOK
    <3>1. job'[<<x, l>>] = Idle
      BY <1>3
    <3> QED BY <3>1, IdleCallOK
  <2>3. CallOK(x, "call")'
    <3>1. CASE job'[<<x, "call">>] = Idle
      BY <3>1, IdleCallOK
    <3>2. CASE job[<<x, "call">>] # Idle /\ job'[<<x, "call">>].pc = "failed"
      <4>1. job[<<x, "call">>].pc # "idle"
        BY <2>0, <3>2 DEF CallOK
      <4> QED BY <1>1, <2>0, <3>2, <4>1 DEF CallOK, InPod, Setting
    <3> QED BY <1>2, <1>3, <3>1, <3>2
  <2>4. SpaceOK(x)'
    BY <1>1, <2>0 DEF SpaceOK, Allowed, Strays
  <2>5. SetUpOK(x)'
    <3>1. PICK t : t = NetnsOf(x) /\ NetnsOf(x)' = t
      BY <1>1, Fixed
    <3>2. SMCR(x)' = SMCR(x) /\ PreStartRequired(x)' = PreStartRequired(x)
      BY <1>1, Fixed
    <3>3. job'[<<x, "call">>].pc \in {"idle", "failed"}
      BY <1>2, <1>3, IdleFields
    <3>4. \A n : SoFar(n, "idle") /\ SoFar(n, "failed")
      BY DEF SoFar
    <3> QED BY <1>1, <1>3, <2>0, <3>1, <3>2, <3>3, <3>4 DEF SetUpOK
  <2> QED BY <2>1, <2>2, <2>3, <2>4, <2>5 DEF PodOK
<1> QED BY <1>5, <1>6, <1>7, AllPodsOK

LEMMA IdleKeeps ==
  ASSUME Inductive, UNCHANGED <<setupVars, kubeVars>>
  PROVE  Types' /\ Quiet /\ InitJobs' /\ Calls' /\ Namespaces' /\ SetUp'
<1>1. UNCHANGED <<spec, config, ids, live, sandbox, up, netns, job, kube, answered, injected,
                  inited, granted, pnetEnv>>
  BY DEF setupVars, kubeVars
<1>2. Types'
  BY <1>1 DEF Inductive, Types
<1>3. Quiet
  BY <1>1 DEF Quiet
<1>4. \A x \in Pod : Undisturbed(x)
  BY <1>1 DEF Undisturbed
<1>5. \A x \in Pod : PodOK(x)'
  BY <1>2, <1>3, <1>4, UndisturbedKept
<1> QED BY <1>2, <1>3, <1>5, AllPodsOK

---------------------------------------------------------------------------
(* The theorems                                                            *)

LEMMA NextInductive == Inductive /\ [Next]_vars => Inductive'
<1> SUFFICES ASSUME Inductive, [Next]_vars PROVE Inductive'
  OBVIOUS
<1> DEFINE Kept == InitJobs' /\ Calls' /\ Namespaces' /\ SetUp'
<1>1. ASSUME NEW p \in Pod, Create(p) \/ CallAllocate(p) \/ Reject(p) PROVE Inductive'
  <2>1. Admission /\ Types'
    BY <1>1, AdmissionStep
  <2>2. Devices'
    BY <1>1, <2>1, CreateDevices, AllocateDevices, RejectDevices
  <2>3. Kept
    BY <2>1, <2>2, AdmissionKeeps
  <2> QED BY <2>1, <2>2, <2>3 DEF Inductive
<1>2. ASSUME Types', Quiet, Kept PROVE Inductive'
  BY <1>2, QuietDevices DEF Inductive
<1> HIDE DEF Kept
<1>3. ASSUME NEW p \in Pod, Kubelet(p) PROVE Inductive'
  <2>1. CASE Create(p) \/ CallAllocate(p) \/ Reject(p)
    BY <1>1, <2>1
  <2>2. CASE CreateSandbox(p) \/ RunInit(p) \/ StartContainer(p) \/ PreStartReturns(p)
    <3>1. Types' /\ Quiet /\ Kept
      BY <2>2, CreateSandboxKeeps, RunInitKeeps, StartContainerKeeps, PreStartReturnsKeeps DEF Kept
    <3> QED BY <1>2, <3>1
  <2> QED BY <1>3, <2>1, <2>2 DEF Kubelet
<1>4. ASSUME NEW p \in Pod,
             PreStartExpires(p) \/ ContainerDies(p) \/ SandboxDies(p) \/ Delete(p)
      PROVE  Inductive'
  <2>1. Types' /\ Quiet /\ Kept
    BY <1>4, PreStartExpiresKeeps, ContainerDiesKeeps, SandboxDiesKeeps, DeleteKeeps DEF Kept
  <2> QED BY <1>2, <2>1
<1>5. ASSUME NEW j \in Job,
             (JobStep(j) /\ UNCHANGED <<kubeVars, agent, faults>>) \/ StepFails(j)
      PROVE  Inductive'
  <2>1. (JobStep(j) \/ JobFails(j)) /\ UNCHANGED kubeVars
    BY <1>5 DEF StepFails
  <2>2. Types' /\ Quiet /\ Kept
    BY <2>1, WorkKeeps DEF Kept
  <2> QED BY <1>2, <2>2
<1>6. CASE AgentDies
  <2>1. Types' /\ Quiet /\ Kept
    BY <1>6, AgentDiesKeeps DEF Kept
  <2> QED BY <1>2, <2>1
<1>7. CASE AgentStarts \/ Resting \/ UNCHANGED vars
  <2>1. UNCHANGED <<setupVars, kubeVars>>
    BY <1>7 DEF AgentStarts, Resting, vars
  <2>2. Types' /\ Quiet /\ Kept
    BY <2>1, IdleKeeps DEF Kept
  <2> QED BY <1>2, <2>2
<1> QED BY <1>3, <1>4, <1>5, <1>6, <1>7 DEF Next

LEMMA AlwaysInductive == Spec => []Inductive
  BY InitInductive, NextInductive, PTL DEF Spec

\* PreStartContainer, for a pod it is to set up, or smcr_init is behind a running
\* container of the pod.
LEMMA SetUpBehind ==
  ASSUME Inductive, NEW p \in Pod, kube[p] = "running", WantsSMCR(p)
  PROVE  Complete(netns[NetnsOf(p)])
<1>1. SetUpOK(p) /\ config \in Configs
  BY DEF Inductive, SetUp, Types
<1>2. spec[p].smcr = "true" /\ spec[p].want > 0
  BY DEF WantsSMCR
<1>3. CASE config.preStart
  <2>1. spec[p].host => initCriClient(config) = "docker"
    BY <1>3 DEF WantsSMCR
  <2>2. ~(initCriClient(config) = "cri" /\ (spec[p].host \/ spec[p].smcr = "empty"))
    BY <1>2, <2>1
  <2>3. SMCR(p) = "true"
    BY <1>2, <2>2 DEF SMCR, ParseBool
  <2>4. PreStartRequired(p)
    BY <1>2, <1>3 DEF PreStartRequired
  <2> QED BY <1>1, <2>3, <2>4 DEF SetUpOK
<1>4. CASE ~config.preStart
  <2>1. /\ p \in answered
        /\ parseConfig(config.file).devicePlugin /\ parseConfig(config.file).inject
    BY <1>4 DEF WantsSMCR
  <2>2. parseConfig(config.file).webhook
    BY <1>1, <1>4, StartAssumption DEF parseConfig
  <2>3. podWebhook(p)
    BY <1>2, <2>1, <2>2 DEF podWebhook
  <2>4. p \in injected
    BY <2>1, <2>3 DEF Inductive, Devices, Injections
  <2> QED BY <1>1, <2>4 DEF SetUpOK
<1> QED BY <1>3, <1>4

\* A container of a pod that asks for SMC-R never runs without it, however its
\* sandbox was replaced, the agent restarted and calls given up and repeated
\* (PreStartContainer, smcr_init), and its namespace is tied to a device of the
\* pod or, after a call that outlived its pod, of that one.
THEOREM StartsReady == Spec => []SmcrReady
<1>1. Inductive => SmcrReady
  <2> SUFFICES ASSUME Inductive, NEW p \in Pod, kube[p] = "running", WantsSMCR(p)
               PROVE  LET n == netns[NetnsOf(p)] IN
                      /\ n.tcp2smc /\ n.noIPv6 /\ n.pnet # None
                      /\ ~spec[p].host => n.pnet \in granted[p]["app"] \union
                                UNION {DevicesOf(ids[q]["app"]) : q \in Strays(p)}
    BY DEF SmcrReady
  <2>1. Complete(netns[NetnsOf(p)])
    BY SetUpBehind
  <2>2. ASSUME ~spec[p].host
        PROVE  netns[NetnsOf(p)].pnet \in granted[p]["app"] \union
                  UNION {DevicesOf(ids[q]["app"]) : q \in Strays(p)}
    <3>1. NetnsOf(p) = p
      BY <2>2 DEF NetnsOf
    <3>2. Allowed(p, netns[p].pnet)
      BY <2>1, <3>1 DEF Inductive, Namespaces, SpaceOK, Complete
    <3> QED BY <3>1, <3>2 DEF Allowed
  <2> QED BY <2>1, <2>2 DEF Complete
<1> QED BY <1>1, AlwaysInductive, PTL

---------------------------------------------------------------------------
(* Whose namespace is changed                                              *)

\* A pod for which some job makes settings.
SetUpFor(q) ==
    /\ config.preStart => SMCR(q) = "true"
    /\ ~config.preStart => podWebhook(q)

\* A namespace stays as it is, goes with its sandbox, or is that of such a pod.
Touches(n) ==
    \/ netns'[n] = netns[n]
    \/ n \in Pod /\ netns'[n] = Clean
    \/ \E q \in Pod : n = NetnsOf(q) /\ SetUpFor(q)

LEMMA JobTouches ==
  ASSUME Inductive, NEW j \in Job, JobStep(j) \/ JobFails(j), UNCHANGED kubeVars
  PROVE  \A n \in Pod \union {Host} : Touches(n)
<1>1. CASE Finds(j) \/ Enters(j) \/ Ends(j)
  BY <1>1 DEF Finds, Enters, Ends, Touches
<1>2. CASE Sets(j)
  <2>1. PICK q : q = job[j].pod
    OBVIOUS
  <2>2. job[j].pc \in Setting /\ netns' = [netns EXCEPT ![NetnsOf(q)] = netns'[NetnsOf(q)]]
    BY <1>2, <2>1 DEF Sets
  <2>3. q \in Pod
    BY <2>1, <2>2, WorkOfAJob
  <2>4. PICK p \in Pod, k \in ({"init", "call"} \union Late) : j = <<p, k>>
    BY JobParts
  <2>5. SetUpFor(q)
    <3>1. CASE k = "init"
      <4>1. q = p /\ p \in injected
        BY <2>1, <2>2, <2>4, <3>1 DEF Inductive, InitJobs, InitOK
      <4>2. podWebhook(p) /\ ~config.preStart
        BY <4>1, OneWay DEF Inductive, Devices, Injections
      <4> QED BY <4>1, <4>2 DEF SetUpFor
    <3>2. CASE k \in ({"call"} \union Late)
      <4>1. CallOK(p, k)
        BY <3>2 DEF Inductive, Calls
      <4>2. config.preStart /\ SMCR(q) = "true"
        BY <2>1, <2>2, <2>4, <4>1 DEF CallOK, Setting
      <4> QED BY <4>2 DEF SetUpFor
    <3> QED BY <3>1, <3>2
  <2>6. netns \in [Pod \union {Host} -> SettingsRec]
    BY DEF Inductive, Types
  <2> QED BY <2>2, <2>3, <2>5, <2>6 DEF Touches
<1> QED BY <1>1, <1>2, WorkCases

LEMMA StepTouches ==
  ASSUME Inductive, [Next]_vars
  PROVE  UNCHANGED <<spec, config>> /\ \A n \in Pod \union {Host} : Touches(n)
<1>0. netns \in [Pod \union {Host} -> SettingsRec]
  BY DEF Inductive, Types
<1>1. ASSUME UNCHANGED <<spec, config, netns>>
      PROVE  UNCHANGED <<spec, config>> /\ \A n \in Pod \union {Host} : Touches(n)
  BY <1>1 DEF Touches
<1>2. ASSUME NEW p \in Pod, Kubelet(p) \/ PreStartExpires(p) \/ ContainerDies(p)
      PROVE  UNCHANGED <<spec, config, netns>>
  BY <1>2 DEF Kubelet, Create, CallAllocate, Reject, CreateSandbox, RunInit, StartContainer,
              PreStartReturns, PreStartExpires, ContainerDies, setupVars
<1>3. ASSUME NEW p \in Pod, SandboxDies(p) \/ Delete(p)
      PROVE  UNCHANGED <<spec, config>> /\ \A n \in Pod \union {Host} : Touches(n)
  <2>1. UNCHANGED <<spec, config>> /\ netns' = [netns EXCEPT ![p] = Clean]
    BY <1>3 DEF SandboxDies, Delete
  <2> QED BY <1>0, <2>1 DEF Touches
<1>4. ASSUME NEW j \in Job,
             (JobStep(j) /\ UNCHANGED <<kubeVars, agent, faults>>) \/ StepFails(j)
      PROVE  UNCHANGED <<spec, config>> /\ \A n \in Pod \union {Host} : Touches(n)
  <2>1. (JobStep(j) \/ JobFails(j)) /\ UNCHANGED kubeVars
    BY <1>4 DEF StepFails
  <2> QED BY <2>1, JobTouches, WorkCases DEF Works
<1>5. CASE AgentDies \/ AgentStarts \/ Resting \/ UNCHANGED vars
  <2>1. UNCHANGED <<spec, config, netns>>
    BY <1>5 DEF AgentDies, AgentStarts, Resting, vars, setupVars
  <2> QED BY <1>1, <2>1
<1> QED BY <1>1, <1>2, <1>3, <1>4, <1>5 DEF Next

\* A call that sets up a pod has its annotation to go by.
LEMMA AnnotatedForIt ==
  ASSUME Inductive, NEW q \in Pod, SetUpFor(q)
  PROVE  /\ config.preStart => spec[q].smcr = "true"
         /\ config.preStart /\ initCriClient(config) = "cri" => NetnsOf(q) = q
<1>1. ASSUME SMCR(q) = "true"
      PROVE  /\ spec[q].smcr = "true"
             /\ ~(initCriClient(config) = "cri" /\ (spec[q].host \/ spec[q].smcr = "empty"))
  BY <1>1 DEF SMCR, ParseBool
<1>2. ~spec[q].host => NetnsOf(q) = q
  BY DEF NetnsOf
<1> QED BY <1>1, <1>2 DEF SetUpFor

\* Neither a call of PreStartContainer that was given up nor one that found
\* another pod changes the namespace of a pod that is not annotated "true".
THEOREM AskedFor == Spec => []OnlyAskedFor
<1>1. Init => OnlyAskedFor
  BY DEF Init, OnlyAskedFor
<1>2. Inductive /\ OnlyAskedFor /\ [Next]_vars => OnlyAskedFor'
  <2> SUFFICES ASSUME Inductive, OnlyAskedFor, [Next]_vars PROVE OnlyAskedFor'
    OBVIOUS
  <2>1. UNCHANGED <<spec, config>> /\ \A n \in Pod \union {Host} : Touches(n)
    BY StepTouches
  <2> SUFFICES ASSUME config.preStart, NEW p \in Pod, netns'[p] # Clean
               PROVE  spec[p].smcr = "true"
    BY <2>1 DEF OnlyAskedFor, Clean
  <2>2. CASE netns'[p] = netns[p]
    BY <2>2 DEF OnlyAskedFor
  <2>3. ASSUME NEW q \in Pod, p = NetnsOf(q), SetUpFor(q)
        PROVE  spec[p].smcr = "true"
    <3>1. p = q
      BY <2>3, PodAssumption DEF NetnsOf
    <3> QED BY <2>3, <3>1, AnnotatedForIt
  <2> QED BY <2>1, <2>2, <2>3 DEF Touches
<1> QED BY <1>1, <1>2, AlwaysInductive, PTL DEF Spec

\* With a CRI runtime, whatever pods in the host network ask for, no call of
\* PreStartContainer changes the settings of the node.
THEOREM HostLeftAlone == Spec => []HostUntouched
<1>1. Init => HostUntouched
  BY DEF Init, HostUntouched
<1>2. Inductive /\ HostUntouched /\ [Next]_vars => HostUntouched'
  <2> SUFFICES ASSUME Inductive, HostUntouched, [Next]_vars PROVE HostUntouched'
    OBVIOUS
  <2>1. UNCHANGED <<spec, config>> /\ Touches(Host)
    BY StepTouches
  <2> SUFFICES ASSUME config.preStart, initCriClient(config) = "cri"
               PROVE  netns'[Host] = Clean
    BY <2>1 DEF HostUntouched, Clean
  <2>2. CASE netns'[Host] = netns[Host]
    BY <2>2 DEF HostUntouched
  <2>3. ASSUME NEW q \in Pod, Host = NetnsOf(q), SetUpFor(q) PROVE FALSE
    BY <2>3, AnnotatedForIt, PodAssumption
  <2> QED BY <2>1, <2>2, <2>3, PodAssumption DEF Touches
<1> QED BY <1>1, <1>2, AlwaysInductive, PTL DEF Spec

=============================================================================

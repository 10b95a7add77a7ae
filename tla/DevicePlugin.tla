--------------------------- MODULE DevicePlugin ---------------------------
(***************************************************************************)
(* The life of the ERDMA device plugin of one node                         *)
(* (internal/deviceplugin/deviceplugin.go): Serve, watchKubeletRestart,    *)
(* Start, Stop, Register and the ListAndWatch streams, against a kubelet   *)
(* that restarts and a plugin process that dies and is restarted.          *)
(*                                                                         *)
(* Every call of Start is a generation: the gRPC server, the stop channel  *)
(* and the socket it makes carry its number.  The stop channel made by     *)
(* NewERDMADevicePlugin is number 0, a nil server is 0.                    *)
(***************************************************************************)
EXTENDS Naturals, FiniteSets

CONSTANTS
    MaxKubeletRestarts,  \* bound on the restarts of the kubelet
    MaxFaults            \* bound on process deaths and failing system calls

ASSUME BoundsAssumption == MaxKubeletRestarts \in Nat /\ MaxFaults \in Nat

VARIABLES
    pc,        \* where the plugin's main goroutine is
    caller,    \* "serve" or "watch": who called Start and Register
    proc,      \* the incarnation of the process, which names its socket
    gen,       \* the last generation
    server,    \* m.server
    stop,      \* m.stop
    closed,    \* the stop channels that are closed
    spawned,   \* generations whose Serve goroutine has not run yet
    panicked,  \* a closed channel was closed again
    watchers,  \* the ListAndWatch calls that run
    dir,       \* the *-erdma.sock files of the plugin directory
    kubelet,   \* "up", "down", or "cleaned": not listening yet
    request,   \* the registered socket the kubelet has not dialled yet
    endpoint,  \* the generation the kubelet is connected to, or 0
    devices,   \* the kubelet has the plugin's device list
    restarts, faults

pluginVars  == <<pc, caller, proc, gen, server, stop, closed, spawned, panicked>>
kubeletVars == <<kubelet, request, endpoint, devices>>
budget      == <<restarts, faults>>
vars == <<pluginVars, watchers, dir, kubeletVars, budget>>

Init ==
    /\ pc = "clean" /\ caller = "serve" /\ proc = 1
    /\ gen = 0 /\ server = 0 /\ stop = 0
    /\ closed = {} /\ spawned = {} /\ panicked = FALSE
    /\ watchers = {} /\ dir = {}
    /\ kubelet = "up" /\ request = 0 /\ endpoint = 0 /\ devices = FALSE
    /\ restarts = 0 /\ faults = 0

\* close(m.stop)
CloseStop == /\ panicked' = (panicked \/ stop \in closed)
             /\ closed' = closed \union {stop}

\* A connection to generation g is served: it is the running server, and its
\* Serve goroutine has begun to accept.
Accepting(g) == server = g /\ g \notin spawned

---------------------------------------------------------------------------
(* The main goroutine.  One action per system call that others can see     *)
(* the effect of.                                                          *)

\* Start up to cleanup, which unlinks the sockets of every incarnation.
StartClean ==
    /\ pc = "clean"
    /\ IF server # 0 THEN CloseStop ELSE UNCHANGED <<closed, panicked>>
    /\ dir' = {}
    /\ pc' = "listen"
    /\ UNCHANGED <<caller, proc, gen, server, stop, spawned, watchers, kubeletVars, budget>>

StartListen ==
    /\ pc = "listen"
    /\ dir' = dir \union {[proc |-> proc, gen |-> gen + 1]}
    /\ pc' = "serve"
    /\ UNCHANGED <<caller, proc, gen, server, stop, closed, spawned, panicked,
                   watchers, kubeletVars, budget>>

\* The server and its stop channel are in place before the goroutine that
\* accepts connections exists.
StartServe ==
    /\ pc = "serve"
    /\ gen' = gen + 1
    /\ server' = gen + 1
    /\ stop' = gen + 1
    /\ spawned' = spawned \union {gen + 1}
    /\ pc' = "register"
    /\ UNCHANGED <<caller, proc, closed, panicked, watchers, dir, kubeletVars, budget>>

\* Mutation: a failed registration is only logged.
RegisterLogged ==
    /\ pc = "register"
    /\ pc' = "watch"
    /\ request' = IF kubelet = "up" THEN proc ELSE request
    /\ UNCHANGED <<caller, proc, gen, server, stop, closed, spawned, panicked, watchers,
                   dir, kubelet, endpoint, devices, budget>>

\* Register fails without a listening kubelet, and with one that dials back
\* before it answers when the socket is gone.  In Serve the failure stops the
\* server, in watchKubeletRestart it is fatal.
Register ==
    /\ pc = "register"
    /\ \/ /\ kubelet = "up"
          /\ request' = proc
          /\ pc' = "watch"
       \/ /\ kubelet # "up" \/ \A s \in dir : s.proc # proc
          /\ pc' = IF caller = "serve" THEN "stop" ELSE "dead"
          /\ UNCHANGED request
    /\ UNCHANGED <<caller, proc, gen, server, stop, closed, spawned, panicked, watchers,
                   dir, kubelet, endpoint, devices, budget>>

\* The call fails at a kubelet that listens, which may have taken the registration.
RegisterFails ==
    /\ pc = "register" /\ kubelet = "up"
    /\ faults < MaxFaults
    /\ faults' = faults + 1
    /\ request' \in {request, proc}
    /\ pc' = IF caller = "serve" THEN "stop" ELSE "dead"
    /\ UNCHANGED <<caller, proc, gen, server, stop, closed, spawned, panicked, watchers,
                   dir, kubelet, endpoint, devices, restarts>>

\* One round of watchKubeletRestart, every 10 s: nothing to do while the socket
\* is there.
WatchKubelet ==
    /\ pc = "watch"
    /\ \/ /\ \A s \in dir : s.proc # proc
          /\ caller' = "watch"
          /\ pc' = "stop"
       \/ /\ \E s \in dir : s.proc = proc
          /\ UNCHANGED <<caller, pc>>
    /\ UNCHANGED <<proc, gen, server, stop, closed, spawned, panicked, watchers, dir,
                   kubeletVars, budget>>

\* Mutation: Stop does not reset m.server.
StopKeepsServer ==
    /\ pc = "stop"
    /\ IF server = 0
       THEN UNCHANGED <<closed, panicked, server, dir>>
       ELSE /\ UNCHANGED server
            /\ CloseStop
            /\ dir' = {}
    /\ pc' = IF caller = "serve" THEN "watch" ELSE "clean"
    /\ UNCHANGED <<caller, proc, gen, stop, spawned, watchers, kubeletVars, budget>>

\* Stop: called by Serve, which goes on to watch, and by the watch, which goes
\* on to Start.
Stop ==
    /\ pc = "stop"
    /\ IF server = 0
       THEN UNCHANGED <<closed, panicked, server, dir>>
       ELSE /\ server' = 0
            /\ CloseStop
            /\ dir' = {}
    /\ pc' = IF caller = "serve" THEN "watch" ELSE "clean"
    /\ UNCHANGED <<caller, proc, gen, stop, spawned, watchers, kubeletVars, budget>>

\* The goroutine of Start calls m.server.Serve: a nil m.server ends the process.
Serve(g) ==
    /\ pc # "dead"
    /\ spawned' = spawned \ {g}
    /\ pc' = IF server = 0 THEN "dead" ELSE pc
    /\ UNCHANGED <<caller, proc, gen, server, stop, closed, panicked, watchers, dir,
                   kubeletVars, budget>>

\* A failing ReadDir, Listen or Stat is fatal, except that the watch only logs
\* the error of Stop; the process may also be killed at any step.
Die ==
    /\ pc # "dead"
    /\ faults < MaxFaults
    /\ faults' = faults + 1
    /\ pc' = "dead"
    /\ UNCHANGED <<caller, proc, gen, server, stop, closed, spawned, panicked, watchers, dir,
                   kubeletVars, restarts>>

FailWatchedStop ==
    /\ pc = "stop" /\ caller = "watch" /\ server # 0
    /\ faults < MaxFaults
    /\ faults' = faults + 1
    /\ server' = 0
    /\ CloseStop
    /\ pc' = "clean"
    /\ UNCHANGED <<caller, proc, gen, stop, spawned, watchers, dir, kubeletVars, restarts>>

\* The kubelet restarts the container; NewERDMADevicePlugin names a new socket.
\* Sockets of the dead process stay in the directory.
NewERDMADevicePlugin ==
    /\ pc = "dead" /\ kubelet = "up"
    /\ pc' = "clean" /\ caller' = "serve"
    /\ proc' = proc + 1
    /\ server' = 0 /\ stop' = 0 /\ closed' = {} /\ spawned' = {}
    /\ watchers' = {}
    /\ UNCHANGED <<gen, panicked, dir, kubeletVars, budget>>

---------------------------------------------------------------------------
(* ListAndWatch                                                            *)

Intact(w) == endpoint = w.gen /\ server = w.gen /\ pc # "dead"

\* The first Send; its failure ends the call.
SendFirst(w) ==
    /\ w.at = "first"
    /\ devices' = (devices \/ Intact(w))
    /\ watchers' = (watchers \ {w})
                   \union (IF Intact(w) THEN {[w EXCEPT !.at = "loop"]} ELSE {})
    /\ UNCHANGED <<pluginVars, dir, kubelet, request, endpoint, budget>>

\* The select statement reads m.stop when it is entered.
EnterSelect(w) ==
    /\ w.at = "loop"
    /\ watchers' = (watchers \ {w}) \union {[w EXCEPT !.at = "select", !.chan = stop]}
    /\ UNCHANGED <<pluginVars, dir, kubeletVars, budget>>

\* The ticker fires: the list is sent again, an error is only logged.
Tick(w) ==
    /\ w.at = "select"
    /\ devices' = (devices \/ Intact(w))
    /\ watchers' = (watchers \ {w}) \union {[w EXCEPT !.at = "loop"]}
    /\ UNCHANGED <<pluginVars, dir, kubelet, request, endpoint, budget>>

\* Mutation: the stop is a flag that Start does not reset.
ReturnEverStopped(w) ==
    /\ w.at = "select"
    /\ closed # {}
    /\ watchers' = watchers \ {w}
    /\ UNCHANGED <<pluginVars, dir, kubeletVars, budget>>

ReturnStopped(w) ==
    /\ w.at = "select"
    /\ w.chan \in closed
    /\ watchers' = watchers \ {w}
    /\ UNCHANGED <<pluginVars, dir, kubeletVars, budget>>

ListAndWatch ==
    /\ pc # "dead"
    /\ \E w \in watchers :
          SendFirst(w) \/ EnterSelect(w) \/ Tick(w) \/ ReturnStopped(w)

---------------------------------------------------------------------------
(* The kubelet, as the plugin uses it.                                     *)

KubeletCrash ==
    /\ kubelet = "up"
    /\ restarts < MaxKubeletRestarts
    /\ restarts' = restarts + 1
    /\ kubelet' = "down" /\ request' = 0 /\ endpoint' = 0 /\ devices' = FALSE
    /\ UNCHANGED <<pluginVars, watchers, dir, faults>>

\* A starting kubelet empties the plugin directory before it listens.
KubeletClean ==
    /\ kubelet = "down"
    /\ dir' = {}
    /\ kubelet' = "cleaned"
    /\ UNCHANGED <<pluginVars, watchers, request, endpoint, devices, budget>>

KubeletListen ==
    /\ kubelet = "cleaned"
    /\ kubelet' = "up"
    /\ UNCHANGED <<pluginVars, watchers, dir, request, endpoint, devices, budget>>

\* The kubelet dials the registered socket and calls ListAndWatch; a socket
\* that is gone, or that nobody listens on, drops the registration.
KubeletConnect ==
    /\ request # 0
    /\ request' = 0
    /\ \/ \E s \in dir :
             /\ s.proc = request /\ s.proc = proc /\ pc # "dead"
             /\ Accepting(s.gen)
             /\ endpoint' = s.gen
             /\ devices' = FALSE
             /\ watchers' = watchers \union {[gen |-> s.gen, at |-> "first", chan |-> 0]}
       \/ /\ \/ \A s \in dir : s.proc # request
             \/ request # proc \/ pc = "dead"
          /\ UNCHANGED <<endpoint, devices, watchers>>
    /\ UNCHANGED <<pluginVars, dir, kubelet, budget>>

\* The stream of a stopped server, or of a call that returned, ends: the
\* kubelet forgets the endpoint.
KubeletDisconnect ==
    /\ endpoint # 0
    /\ \/ server # endpoint \/ pc = "dead"
       \/ \A w \in watchers : w.gen # endpoint
    /\ endpoint' = 0 /\ devices' = FALSE
    /\ UNCHANGED <<pluginVars, watchers, dir, kubelet, request, budget>>

---------------------------------------------------------------------------

Plugin == \/ StartClean \/ StartListen \/ StartServe \/ Register \/ WatchKubelet \/ Stop
          \/ NewERDMADevicePlugin

Kubelet == KubeletClean \/ KubeletListen \/ KubeletConnect \/ KubeletDisconnect

Faults == Die \/ RegisterFails \/ FailWatchedStop \/ KubeletCrash

Next == \/ Plugin \/ (\E g \in spawned : Serve(g)) \/ ListAndWatch \/ Kubelet \/ Faults

Spec == Init /\ [][Next]_vars

(***************************************************************************)
(* The goroutines of a live process are scheduled, the 10 s timer fires,   *)
(* a dead container is restarted, a restarting kubelet comes up and serves *)
(* the registrations it accepted.                                          *)
(***************************************************************************)
FairSpec ==
    /\ Spec
    /\ WF_vars(Plugin)
    /\ WF_vars(\E g \in spawned : Serve(g))
    /\ WF_vars(pc # "dead" /\ \E w \in watchers : SendFirst(w))
    /\ WF_vars(KubeletClean \/ KubeletListen)
    /\ WF_vars(KubeletConnect)
    /\ WF_vars(KubeletDisconnect)

---------------------------------------------------------------------------
(* Properties                                                              *)

\* Start and Stop both close m.stop; whatever the order in which Serve and the
\* watch call them, across failed registrations, no channel is closed twice
\* (which would panic).
StopClosedOnce == ~panicked

\* While the server the kubelet is connected to runs, its ListAndWatch call
\* runs too.  It must: the kubelet drops an endpoint whose stream ended, and
\* the watch, which looks at the socket file only, would not register again.
StreamServed ==
    endpoint # 0 /\ endpoint = server /\ pc # "dead"
        => \E w \in watchers : w.gen = endpoint

\* A plugin at rest is known: when watchKubeletRestart finds the socket and
\* leaves it at that, a listening kubelet has the registration of this process
\* or is connected to its server.  Otherwise no step of the plugin would ever
\* register it, since the watch knows of nothing but the socket file.
NotStranded ==
    pc = "watch" /\ kubelet = "up" /\ (\E s \in dir : s.proc = proc)
        => request = proc \/ (endpoint # 0 /\ endpoint = server)

\* Whatever restarts of the kubelet, deaths of the plugin and failed
\* registrations happened, once they cease the kubelet is for good connected
\* to the running server and has its device list.
Advertised == <>[](endpoint # 0 /\ endpoint = server /\ devices /\ kubelet = "up")
===========================================================================

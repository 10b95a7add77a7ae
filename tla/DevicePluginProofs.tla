------------------------ MODULE DevicePluginProofs ------------------------
(***************************************************************************)
(* StopClosedOnce, StreamServed and NotStranded of DevicePlugin for any    *)
(* number of kubelet restarts and faults.                                  *)
(*                                                                         *)
(* The first two rest on the stop channel: while there is a server, m.stop *)
(* is the channel made with it and is open, and a ListAndWatch call of     *)
(* that server waits on no other channel.  The third one rests on the      *)
(* second, and on what a kubelet that is not listening yet has removed.    *)
(***************************************************************************)
EXTENDS DevicePlugin, TLAPS

Watcher == [gen : Nat, at : {"first", "loop", "select"}, chan : Nat]

\* The generations: channels and calls that exist belong to a past Start.
Generations ==
    /\ gen \in Nat /\ server \in Nat /\ stop \in Nat /\ endpoint \in Nat
    /\ server <= gen /\ stop <= gen /\ endpoint <= gen
    /\ \A c \in closed : c \in Nat /\ c <= gen
    /\ \A s \in dir : s.gen # 0
    /\ \A w \in watchers : w \in Watcher /\ w.gen <= gen /\ w.gen # 0

\* Between Stop and the end of Start there is no server.
NoServer == pc \in {"clean", "listen", "serve"} => server = 0

\* The channel of the running server.
OpenStop == server # 0 => stop = server /\ stop \notin closed

\* A ListAndWatch call of the running server waits on the server's channel.
OwnChannel == \A w \in watchers : w.gen = server /\ w.at = "select" => w.chan = server

StopInv ==
    /\ Generations
    /\ NoServer
    /\ OpenStop
    /\ OwnChannel
    /\ StopClosedOnce
    /\ StreamServed

\* A plugin that has not started yet.
LEMMA InitStopInv == Init => StopInv
BY DEF Init, StopInv, Generations, NoServer, OpenStop, OwnChannel, StopClosedOnce, StreamServed

\* The steps of the plugin, of the kubelet and of the faults.
LEMMA StepStopInv == StopInv /\ [Next]_vars => StopInv'
<1> SUFFICES ASSUME StopInv, [Next]_vars PROVE StopInv'
    OBVIOUS
<1> USE DEF StopInv, Generations, NoServer, OpenStop, OwnChannel, StopClosedOnce,
            StreamServed, CloseStop
<1>1. CASE StartClean
    BY <1>1 DEF StartClean, kubeletVars, budget
<1>2. CASE StartListen
    BY <1>2 DEF StartListen, kubeletVars, budget
<1>3. CASE StartServe
    <2>1. /\ gen' = gen + 1 /\ server' = gen + 1 /\ stop' = gen + 1 /\ pc' = "register"
          /\ UNCHANGED <<closed, panicked, watchers, endpoint>>
        BY <1>3 DEF StartServe, kubeletVars, budget
    <2>2. Generations'
        BY <2>1, <1>3 DEF StartServe, Watcher
    <2>3. OpenStop' /\ NoServer' /\ StopClosedOnce'
        BY <2>1
    <2>4. OwnChannel'
        BY <2>1
    <2>5. StreamServed'
        BY <2>1
    <2> QED BY <2>2, <2>3, <2>4, <2>5
<1>4. CASE Register
    BY <1>4 DEF Register, budget
<1>5. CASE WatchKubelet
    BY <1>5 DEF WatchKubelet, kubeletVars, budget
<1>6. CASE Stop
    <2>1. CASE server = 0
        BY <1>6, <2>1 DEF Stop, kubeletVars, budget
    <2>2. CASE server # 0
        <3>1. stop \notin closed /\ ~panicked
            BY <2>2
        <3>2. ~panicked'
            BY <1>6, <2>2, <3>1, Zenon DEF Stop
        <3>3. /\ server' = 0 /\ closed' = closed \union {stop}
              /\ UNCHANGED <<gen, stop, watchers, endpoint>>
              /\ \A s \in dir' : s \in dir
            BY <1>6, <2>2 DEF Stop, kubeletVars, budget
        <3>4. Generations' /\ NoServer' /\ OpenStop' /\ OwnChannel' /\ StreamServed'
            BY <3>3
        <3> QED BY <3>2, <3>4
    <2> QED BY <2>1, <2>2
<1>7. CASE NewERDMADevicePlugin
    BY <1>7 DEF NewERDMADevicePlugin, kubeletVars, budget
<1>8. ASSUME NEW g \in spawned, Serve(g) PROVE StopInv'
    BY <1>8 DEF Serve, kubeletVars, budget
<1>9. CASE Die \/ RegisterFails
    BY <1>9 DEF Die, RegisterFails, kubeletVars
<1>10. CASE FailWatchedStop
    <2>1. CASE server = 0
        BY <1>10, <2>1 DEF FailWatchedStop, kubeletVars
    <2>2. CASE server # 0
        <3>1. stop \notin closed /\ ~panicked
            BY <2>2
        <3>2. ~panicked'
            BY <1>10, <2>2, <3>1, Zenon DEF FailWatchedStop
        <3>3. /\ server' = 0 /\ closed' = closed \union {stop}
              /\ UNCHANGED <<gen, stop, watchers, endpoint>>
              /\ \A s \in dir' : s \in dir
            BY <1>10, <2>2 DEF FailWatchedStop, kubeletVars
        <3>4. Generations' /\ NoServer' /\ OpenStop' /\ OwnChannel' /\ StreamServed'
            BY <3>3
        <3> QED BY <3>2, <3>4
    <2> QED BY <2>1, <2>2
<1>11. CASE KubeletCrash
    BY <1>11 DEF KubeletCrash, pluginVars
<1>12. CASE Kubelet
    <2>1. CASE KubeletClean \/ KubeletListen \/ KubeletDisconnect
        BY <2>1 DEF KubeletClean, KubeletListen, KubeletDisconnect, pluginVars, budget
    <2>2. CASE KubeletConnect
        <3>1. CASE UNCHANGED <<endpoint, devices, watchers>>
            BY <2>2, <3>1 DEF KubeletConnect, pluginVars, budget
        <3>2. ASSUME NEW s \in dir, Accepting(s.gen), endpoint' = s.gen,
                     watchers' = watchers \union
                                     {[gen |-> s.gen, at |-> "first", chan |-> 0]}
              PROVE  StopInv'
            <4> DEFINE v == [gen |-> s.gen, at |-> "first", chan |-> 0]
            <4>1. s.gen = server /\ s.gen # 0
                BY <3>2 DEF Accepting
            <4>2. v \in Watcher /\ v.gen = server /\ v.at # "select"
                BY <4>1 DEF Watcher
            <4>3. UNCHANGED <<pc, gen, server, stop, closed, panicked, dir>>
                BY <2>2 DEF KubeletConnect, pluginVars
            <4>4. watchers' = watchers \union {v}
                BY <3>2
            <4> HIDE DEF v
            <4>5. Generations'
                BY <3>2, <4>1, <4>2, <4>3, <4>4
            <4>6. OwnChannel' /\ StreamServed'
                BY <4>2, <4>3, <4>4
            <4> QED BY <4>3, <4>5, <4>6
        <3> QED BY <2>2, <3>1, <3>2 DEF KubeletConnect
    <2> QED BY <1>12, <2>1, <2>2 DEF Kubelet
<1>13. CASE ListAndWatch
    <2> PICK w \in watchers : SendFirst(w) \/ EnterSelect(w) \/ Tick(w) \/ ReturnStopped(w)
        BY <1>13 DEF ListAndWatch
    <2>0. pc # "dead" /\ w \in Watcher
        BY <1>13 DEF ListAndWatch
    <2>1. UNCHANGED <<pc, gen, server, stop, closed, panicked, dir, endpoint>>
        BY DEF SendFirst, EnterSelect, Tick, ReturnStopped, kubeletVars, pluginVars
    \* A call ends when its channel is closed, or its first Send fails: not while
    \* the kubelet is connected to its server.
    <2>2. ASSUME watchers' = watchers \ {w},
                 ~(endpoint # 0 /\ endpoint = server /\ w.gen = endpoint)
          PROVE  StopInv'
        BY <2>1, <2>2
    <2>3. ASSUME NEW v \in Watcher, watchers' = (watchers \ {w}) \union {v},
                 v.gen = w.gen, v.at = "select" => v.chan = stop
          PROVE  StopInv'
        <3>1. Generations'
            BY <2>1, <2>3
        <3>2. OwnChannel'
            BY <2>1, <2>3
        <3>3. StreamServed'
            BY <2>1, <2>3
        <3> QED BY <2>1, <3>1, <3>2, <3>3
    <2>4. CASE ReturnStopped(w)
        BY <2>2, <2>4 DEF ReturnStopped
    <2>5. CASE SendFirst(w)
        <3>1. CASE Intact(w)
            <4> DEFINE v == [w EXCEPT !.at = "loop"]
            <4>1. v \in Watcher /\ v.gen = w.gen /\ v.at = "loop"
                BY <2>0 DEF Watcher
            <4>2. watchers' = (watchers \ {w}) \union {v}
                BY <2>5, <3>1 DEF SendFirst
            <4> QED BY <2>3, <4>1, <4>2
        <3>2. CASE ~Intact(w)
            BY <2>0, <2>2, <2>5, <3>2 DEF SendFirst, Intact
        <3> QED BY <3>1, <3>2
    <2>6. CASE EnterSelect(w)
        <3> DEFINE v == [w EXCEPT !.at = "select", !.chan = stop]
        <3>1. v \in Watcher /\ v.gen = w.gen /\ v.chan = stop
            BY <2>0 DEF Watcher
        <3>2. watchers' = (watchers \ {w}) \union {v}
            BY <2>6 DEF EnterSelect
        <3> QED BY <2>3, <3>1, <3>2
    <2>7. CASE Tick(w)
        <3> DEFINE v == [w EXCEPT !.at = "loop"]
        <3>1. v \in Watcher /\ v.gen = w.gen /\ v.at = "loop"
            BY <2>0 DEF Watcher
        <3>2. watchers' = (watchers \ {w}) \union {v}
            BY <2>7 DEF Tick
        <3> QED BY <2>3, <3>1, <3>2
    <2> QED BY <2>4, <2>5, <2>6, <2>7
<1>14. CASE UNCHANGED vars
    BY <1>14 DEF vars, pluginVars, kubeletVars
<1> QED
    BY <1>1, <1>2, <1>3, <1>4, <1>5, <1>6, <1>7, <1>8, <1>9, <1>10, <1>11, <1>12, <1>13, <1>14
    DEF Next, Plugin, Faults

\* Whatever fails, and in whatever order Serve and the watch call Start and
\* Stop, no stop channel is closed twice.
THEOREM NoDoubleClose == Spec => []StopClosedOnce
<1>1. StopInv => StopClosedOnce
    BY DEF StopInv
<1> QED BY InitStopInv, StepStopInv, <1>1, PTL DEF Spec

\* The ListAndWatch call the kubelet depends on runs as long as its server does.
THEOREM StreamsServed == Spec => []StreamServed
<1>1. StopInv => StreamServed
    BY DEF StopInv
<1> QED BY InitStopInv, StepStopInv, <1>1, PTL DEF Spec

---------------------------------------------------------------------------
(* The registration.                                                       *)

\* A failed registration of Serve has a server to stop, so Stop removes the
\* socket.
ServerToStop ==
    /\ pc = "register" => server # 0
    /\ pc = "stop" /\ caller = "serve" => server # 0

\* NotStranded, also of a kubelet that has emptied the directory and does not
\* listen yet: a socket made since then was not registered with it, and the
\* plugin does not come to rest with it.
Known ==
    pc = "watch" /\ kubelet # "down" /\ (\E s \in dir : s.proc = proc)
        => request = proc \/ (endpoint # 0 /\ endpoint = server)

KnownInv == StopInv /\ ServerToStop /\ Known

\* A step keeps the registration of a plugin at rest, or its socket is gone.
LEMMA StepKnown == KnownInv /\ [Next]_vars => ServerToStop' /\ Known'
<1> SUFFICES ASSUME KnownInv, [Next]_vars PROVE ServerToStop' /\ Known'
    OBVIOUS
<1> USE DEF KnownInv, ServerToStop, Known
<1>1. CASE StartClean \/ StartListen \/ WatchKubelet \/ NewERDMADevicePlugin
    BY <1>1 DEF StartClean, StartListen, WatchKubelet, NewERDMADevicePlugin, kubeletVars
<1>2. CASE StartServe
    <2>1. gen + 1 # 0
        BY DEF StopInv, Generations
    <2> QED BY <1>2, <2>1 DEF StartServe
<1>3. CASE Register
    BY <1>3 DEF Register
<1>4. CASE Stop
    <2>1. CASE caller = "serve"
        \* There is a server, so the socket is removed.
        BY <1>4, <2>1 DEF Stop
    <2>2. CASE caller # "serve"
        BY <1>4, <2>2 DEF Stop
    <2> QED BY <2>1, <2>2
<1>5. ASSUME NEW g \in spawned, Serve(g) PROVE ServerToStop' /\ Known'
    BY <1>5 DEF Serve, kubeletVars
<1>6. CASE Faults
    BY <1>6 DEF Faults, Die, RegisterFails, FailWatchedStop, KubeletCrash, kubeletVars, pluginVars
<1>7. CASE ListAndWatch
    BY <1>7 DEF ListAndWatch, SendFirst, EnterSelect, Tick, ReturnStopped, kubeletVars, pluginVars
<1>8. CASE KubeletClean \/ KubeletListen
    BY <1>8 DEF KubeletClean, KubeletListen, pluginVars
<1>9. CASE KubeletConnect
    <2>1. UNCHANGED <<pc, caller, proc, server, dir, kubelet>>
        BY <1>9 DEF KubeletConnect, pluginVars
    <2>2. ASSUME NEW s \in dir, Accepting(s.gen), endpoint' = s.gen PROVE Known'
        \* The connection is to the running server.
        BY <2>1, <2>2 DEF Accepting, StopInv, Generations
    <2>3. CASE /\ \/ \A s \in dir : s.proc # request
                  \/ request # proc \/ pc = "dead"
               /\ UNCHANGED endpoint
        \* A dropped registration of this process had no socket.
        BY <2>1, <2>3
    <2> QED BY <1>9, <2>1, <2>2, <2>3 DEF KubeletConnect
<1>10. CASE KubeletDisconnect
    \* The stream of the running server has not ended.
    BY <1>10 DEF KubeletDisconnect, pluginVars, StopInv, StreamServed
<1>11. CASE UNCHANGED vars
    BY <1>11 DEF vars, pluginVars, kubeletVars
<1> QED
    BY <1>1, <1>2, <1>3, <1>4, <1>5, <1>6, <1>7, <1>8, <1>9, <1>10, <1>11
    DEF Next, Plugin, Kubelet

\* A plugin at rest with its socket in place is registered with the kubelet
\* that listens, or connected: the watch, which looks at the socket only, leaves
\* no plugin unknown to its kubelet.
THEOREM NeverStranded == Spec => []NotStranded
<1>1. Init => KnownInv
    BY InitStopInv DEF Init, KnownInv, ServerToStop, Known
<1>2. KnownInv /\ [Next]_vars => KnownInv'
    BY StepStopInv, StepKnown DEF KnownInv
<1>3. KnownInv => NotStranded
    BY DEF KnownInv, Known, NotStranded
<1> QED BY <1>1, <1>2, <1>3, PTL DEF Spec
===========================================================================

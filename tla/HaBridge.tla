------------------------------ MODULE HaBridge ------------------------------
(***************************************************************************)
(* The hub's bridge to Home Assistant (hub/ha_mqtt.py), with the broker    *)
(* that keeps the last retained message of every topic, and the hub's      *)
(* process as hub/runtime.py starts and stops it.                          *)
(*                                                                         *)
(* Threads: the main thread in start and stop, the bridge's own thread     *)
(* (`publisher'), which publishes everything every five seconds, and the   *)
(* MQTT client's network thread. start publishes once before it creates    *)
(* the thread, so that one variable, pub, tells how far either of them is. *)
(*                                                                         *)
(* Kept of what is published: whether the hub is online, and whether each  *)
(* node is. Discovery and the other states are data that follow them. The  *)
(* registry forgets no node, so _publish_missing_node_online_offline never *)
(* finds one.                                                              *)
(*                                                                         *)
(* Of the client library: publish puts a message in a queue that the       *)
(* network thread empties in order while connected; a lost connection is   *)
(* made anew; loop_stop writes out what is queued; disconnect ends the     *)
(* session without its will.                                               *)
(***************************************************************************)
EXTENDS Naturals, Sequences

CONSTANTS
    Nodes,
    Hub,             \* stands for the hub's availability topic
    MaxOut           \* bound on the messages waiting in the client

ASSUME ConstantsAssumption ==
    /\ Hub \notin Nodes
    /\ MaxOut \in Nat \ {0}

Topics == Nodes \cup {Hub}
States == {"none", "online", "offline"}
Message == [topic : Topics, says : {"online", "offline"}]

VARIABLES
    retained,    \* broker: the retained message of every topic
    session,     \* broker: "up", "half" when the client is gone and the broker
                 \* has not noticed, "none"
    inflight,    \* retained messages on their way to the subscriber
    out,         \* client: messages published and not yet at the broker
    loop,        \* client: whether its network thread runs
    main,        \* the main thread, in start, serving, in stop
    pub,         \* the publishing thread, or start where it publishes
    snap,        \* the nodes still to publish, of list_nodes
    stale,       \* the topics still to reconcile
    collected,   \* _broker_node_online_topics
    running,     \* _running
    stopping,    \* _stop_event
    heard,       \* the registry: how long ago a node was heard
    raised       \* history: an exception ended the last session

brokerVars == <<retained, session, inflight>>
clientVars == <<out, loop>>
bridgeVars == <<main, pub, snap, stale, collected, running, stopping>>
vars == <<brokerVars, clientVars, bridgeVars, heard, raised>>

Nothing == [n \in Nodes |-> "none"]

Init ==
    /\ retained = [t \in Topics |-> "none"]
    /\ session = "none"
    /\ inflight = {}
    /\ out = <<>>
    /\ loop = FALSE
    /\ main = "down"
    /\ pub = "none"
    /\ snap = Nothing
    /\ stale = {}
    /\ collected = {}
    /\ running = FALSE
    /\ stopping = FALSE
    /\ heard = [n \in Nodes |-> "never"]
    /\ raised = FALSE

-----------------------------------------------------------------------------
(* The client library and the broker. *)

Publish(topic, says) == out' = Append(out, [topic |-> topic, says |-> says])

LastOn(topic) ==
    CHOOSE i \in 1..Len(out) :
        out[i].topic = topic /\ \A k \in i + 1..Len(out) : out[k].topic # topic

WrittenOut ==
    [t \in Topics |-> IF \E i \in 1..Len(out) : out[i].topic = t
                      THEN out[LastOn(t)].says ELSE retained[t]]

\* _cleanup_client: loop_stop, then disconnect.
CleanUp ==
    /\ IF session = "up" THEN retained' = WrittenOut /\ session' = "none"
                         ELSE UNCHANGED <<retained, session>>
    /\ out' = <<>>
    /\ inflight' = {}
    /\ loop' = FALSE

\* A new session under the same client id ends a half-open one, will included.
OpenSession ==
    /\ session' = "up"
    /\ retained' = IF session = "half" THEN [retained EXCEPT ![Hub] = "offline"]
                   ELSE retained

Deliver ==
    /\ loop /\ session = "up"
    /\ out # <<>>
    /\ retained' = [retained EXCEPT ![Head(out).topic] = Head(out).says]
    /\ out' = Tail(out)
    /\ UNCHANGED <<session, inflight, loop, bridgeVars, heard, raised>>

\* Answers that were under way are lost.
LinkLost ==
    /\ loop /\ session = "up"
    /\ session' = "half"
    /\ inflight' = {}
    /\ UNCHANGED <<retained, clientVars, bridgeVars, heard, raised>>

Reconnect ==
    /\ loop /\ session # "up"
    /\ OpenSession
    /\ UNCHANGED <<inflight, clientVars, bridgeVars, heard, raised>>

WillFires ==
    /\ session = "half"
    /\ session' = "none"
    /\ retained' = [retained EXCEPT ![Hub] = "offline"]
    /\ UNCHANGED <<inflight, clientVars, bridgeVars, heard, raised>>

\* _on_message, whenever the message comes.
OnMessage(n) ==
    /\ n \in inflight
    /\ loop /\ session = "up"
    /\ inflight' = inflight \ {n}
    /\ collected' = collected \cup {n}
    /\ UNCHANGED <<retained, session, clientVars, main, pub, snap, stale, running,
                   stopping, heard, raised>>

-----------------------------------------------------------------------------
(* start, called once in the life of the process. *)

\* The receiver runs before the bridge is started, with an empty registry.
Boot ==
    /\ main = "down"
    /\ main' = "connect"
    /\ running' = TRUE
    /\ stopping' = FALSE
    /\ collected' = {}
    /\ heard' = [n \in Nodes |-> "never"]
    /\ UNCHANGED <<brokerVars, clientVars, pub, snap, stale, raised>>

Connect ==
    /\ main = "connect"
    /\ OpenSession
    /\ loop' = TRUE
    /\ raised' = FALSE
    /\ main' = "subscribe"
    /\ UNCHANGED <<inflight, out, pub, snap, stale, collected, running, stopping, heard>>

ConnectFails ==
    /\ main = "connect"
    /\ running' = FALSE
    /\ main' = "serve"
    /\ UNCHANGED <<brokerVars, clientVars, pub, snap, stale, collected, stopping,
                   heard, raised>>

\* The except clause of start; runtime.py goes on without the bridge.
Abort ==
    /\ running' = FALSE
    /\ CleanUp
    /\ raised' = TRUE
    /\ main' = "serve"
    /\ pub' = "none"
    /\ snap' = Nothing
    /\ stale' = {}
    /\ UNCHANGED <<collected, stopping, heard>>

Subscribe ==
    /\ main = "subscribe"
    /\ inflight' = IF session = "up" THEN {n \in Nodes : retained[n] # "none"} ELSE {}
    /\ main' = "await"
    /\ UNCHANGED <<retained, session, clientVars, pub, snap, stale, collected,
                   running, stopping, heard, raised>>

SubscribeFails == main = "subscribe" /\ Abort

\* The window ends when nothing came in time, or nothing more for a while. It
\* ends in an exception when messages still came at its end.
WindowCloses ==
    /\ main = "await"
    /\ main' = "initial"
    /\ pub' = "hub"
    /\ UNCHANGED <<brokerVars, clientVars, snap, stale, collected, running, stopping,
                   heard, raised>>

WindowNeverQuiet ==
    /\ main = "await"
    /\ collected # {}
    /\ Abort

-----------------------------------------------------------------------------
(* _publish_state, in start and then in the publishing thread. *)

HasRoom == Len(out) < MaxOut

\* Broken form: availability is published by start and not again.
PublishHubOnce ==
    /\ pub = "hub"
    /\ HasRoom
    /\ IF main = "initial" THEN Publish(Hub, "online") ELSE UNCHANGED out
    /\ pub' = "list"
    /\ UNCHANGED <<brokerVars, loop, main, snap, stale, collected, running, stopping,
                   heard, raised>>

PublishHub ==
    /\ pub = "hub"
    /\ HasRoom
    /\ Publish(Hub, "online")
    /\ pub' = "list"
    /\ UNCHANGED <<brokerVars, loop, main, snap, stale, collected, running, stopping,
                   heard, raised>>

\* Broken form: nodes that fell silent are passed over.
ListOnline ==
    /\ pub = "list"
    /\ snap' = [n \in Nodes |-> IF heard[n] = "recent" THEN "online" ELSE "none"]
    /\ pub' = "nodes"
    /\ UNCHANGED <<brokerVars, clientVars, main, stale, collected, running, stopping,
                   heard, raised>>

\* list_nodes copies the registry; the clock is read right after.
ListNodes ==
    /\ pub = "list"
    /\ snap' = [n \in Nodes |-> CASE heard[n] = "never"  -> "none"
                                  [] heard[n] = "recent" -> "online"
                                  [] heard[n] = "silent" -> "offline"]
    /\ pub' = "nodes"
    /\ UNCHANGED <<brokerVars, clientVars, main, stale, collected, running, stopping,
                   heard, raised>>

PublishNode(n) ==
    /\ pub = "nodes"
    /\ snap[n] # "none"
    /\ HasRoom
    /\ Publish(n, snap[n])
    /\ snap' = [snap EXCEPT ![n] = "none"]
    /\ UNCHANGED <<brokerVars, loop, main, pub, stale, collected, running, stopping,
                   heard, raised>>

EndPass ==
    /\ pub = "nodes"
    /\ snap = Nothing
    /\ pub' = IF main = "initial" THEN "compare" ELSE "wait"
    /\ UNCHANGED <<brokerVars, clientVars, main, snap, stale, collected, running,
                   stopping, heard, raised>>

\* Broken form: the topics of nodes that are known are reconciled, not the others.
CompareKnown ==
    /\ pub = "compare"
    /\ stale' = {n \in collected : heard[n] # "never"}
    /\ pub' = "reconcile"
    /\ UNCHANGED <<brokerVars, clientVars, main, snap, collected, running, stopping,
                   heard, raised>>

\* _reconcile_broker_topics
CompareTopics ==
    /\ pub = "compare"
    /\ stale' = {n \in collected : heard[n] = "never"}
    /\ pub' = "reconcile"
    /\ UNCHANGED <<brokerVars, clientVars, main, snap, collected, running, stopping,
                   heard, raised>>

PublishStale(n) ==
    /\ pub = "reconcile"
    /\ n \in stale
    /\ HasRoom
    /\ Publish(n, "offline")
    /\ stale' = stale \ {n}
    /\ UNCHANGED <<brokerVars, loop, main, pub, snap, collected, running, stopping,
                   heard, raised>>

StartThread ==
    /\ pub = "reconcile"
    /\ stale = {}
    /\ pub' = "wait"
    /\ main' = "serve"
    /\ UNCHANGED <<brokerVars, clientVars, snap, stale, collected, running, stopping,
                   heard, raised>>

\* _stop_event.wait: five seconds, or as soon as the event is set.
WakeUp ==
    /\ pub = "wait"
    /\ pub' = IF stopping THEN "ended" ELSE "hub"
    /\ UNCHANGED <<brokerVars, clientVars, main, snap, stale, collected, running,
                   stopping, heard, raised>>

\* A publish raises: in start, its except clause; in the thread, that of _run.
PublishRaises ==
    \/ main = "initial" /\ pub \in {"hub", "nodes", "reconcile"} /\ Abort
    \/ /\ main # "initial" /\ pub \in {"hub", "nodes"}
       /\ stopping' = TRUE
       /\ CleanUp
       /\ raised' = TRUE
       /\ running' = FALSE
       /\ pub' = "ended"
       /\ snap' = Nothing
       /\ UNCHANGED <<main, stale, collected, heard>>

-----------------------------------------------------------------------------
(* stop, and the end of the process. *)

Stop ==
    /\ main = "serve"
    /\ stopping' = TRUE
    /\ main' = "join"
    /\ UNCHANGED <<brokerVars, clientVars, pub, snap, stale, collected, running, heard,
                   raised>>

\* Broken form: offline is published without waiting for the thread.
SayOfflineAtOnce ==
    /\ main = "join"
    /\ IF running THEN Publish(Hub, "offline") ELSE UNCHANGED out
    /\ main' = "clean"
    /\ UNCHANGED <<brokerVars, loop, pub, snap, stale, collected, running, stopping,
                   heard, raised>>

\* The join ends with the thread: a pass takes less than its two seconds.
Joined == main = "join" /\ pub \in {"none", "ended"}

SayOffline ==
    /\ Joined
    /\ IF running THEN Publish(Hub, "offline") ELSE UNCHANGED out
    /\ main' = "clean"
    /\ UNCHANGED <<brokerVars, loop, pub, snap, stale, collected, running, stopping,
                   heard, raised>>

SayOfflineRaises ==
    /\ Joined
    /\ running
    /\ raised' = TRUE
    /\ main' = "clean"
    /\ UNCHANGED <<brokerVars, clientVars, pub, snap, stale, collected, running,
                   stopping, heard>>

\* Broken form: _running is left set.
StopEndsRunning ==
    /\ main = "clean"
    /\ CleanUp
    /\ main' = "down"
    /\ pub' = "none"
    /\ UNCHANGED <<snap, stale, collected, running, stopping, heard, raised>>

StopEnds ==
    /\ main = "clean"
    /\ CleanUp
    /\ running' = FALSE
    /\ main' = "down"
    /\ pub' = "none"
    /\ UNCHANGED <<snap, stale, collected, stopping, heard, raised>>

Crash ==
    /\ main # "down"
    /\ session' = IF session = "up" THEN "half" ELSE session
    /\ inflight' = {}
    /\ out' = <<>>
    /\ loop' = FALSE
    /\ main' = "down"
    /\ pub' = "none"
    /\ snap' = Nothing
    /\ stale' = {}
    /\ running' = FALSE
    /\ UNCHANGED <<retained, collected, stopping, heard, raised>>

-----------------------------------------------------------------------------
\* Frames of a node reach the registry, or none for node_offline_seconds.
Hear(n) ==
    /\ main # "down"
    /\ heard' = [heard EXCEPT ![n] = "recent"]
    /\ UNCHANGED <<brokerVars, clientVars, bridgeVars, raised>>

FallSilent(n) ==
    /\ main # "down"
    /\ heard[n] = "recent"
    /\ heard' = [heard EXCEPT ![n] = "silent"]
    /\ UNCHANGED <<brokerVars, clientVars, bridgeVars, raised>>

Pass ==
    \/ PublishHub
    \/ ListNodes
    \/ \E n \in Nodes : PublishNode(n)
    \/ EndPass
    \/ CompareTopics
    \/ \E n \in Nodes : PublishStale(n)
    \/ StartThread
    \/ WakeUp

Network ==
    \/ Deliver
    \/ LinkLost
    \/ Reconnect
    \/ WillFires
    \/ \E n \in Nodes : OnMessage(n)

Starting ==
    \/ Boot
    \/ Connect
    \/ ConnectFails
    \/ Subscribe
    \/ SubscribeFails
    \/ WindowCloses
    \/ WindowNeverQuiet

Stopping ==
    \/ Stop
    \/ SayOffline
    \/ SayOfflineRaises
    \/ StopEnds
    \/ Crash

Next ==
    \/ Network
    \/ Starting
    \/ Pass
    \/ PublishRaises
    \/ Stopping
    \/ \E n \in Nodes : Hear(n) \/ FallSilent(n)

Spec == Init /\ [][Next]_vars

\* The publishing thread is scheduled and its waits end; the client tries to
\* reconnect until it can; a link that keeps coming back carries messages.
FairSpec ==
    /\ Spec
    /\ WF_vars(Pass)
    /\ WF_vars(Reconnect)
    /\ SF_vars(Deliver)
    /\ \A n \in Nodes : WF_vars(OnMessage(n))

-----------------------------------------------------------------------------
(* Properties. *)

\* Every variable keeps its type, the client's queue its bound, and no flag of
\* the bridge outlives it.
TypeOK ==
    /\ retained \in [Topics -> States]
    /\ session \in {"none", "up", "half"}
    /\ inflight \in SUBSET Nodes
    /\ out \in Seq(Message)
    /\ Len(out) <= MaxOut + 1
    /\ loop \in BOOLEAN
    /\ main \in {"down", "connect", "subscribe", "await", "initial", "serve", "join",
                 "clean"}
    /\ pub \in {"none", "hub", "list", "nodes", "compare", "reconcile", "wait", "ended"}
    /\ snap \in [Nodes -> States]
    /\ stale \in SUBSET Nodes
    /\ collected \in SUBSET Nodes
    /\ running \in BOOLEAN
    /\ main = "down" => ~running /\ ~loop
    /\ stopping \in BOOLEAN
    /\ heard \in [Nodes -> {"never", "recent", "silent"}]
    /\ raised \in BOOLEAN

\* Somebody stands behind the hub's retained "online": a session whose will
\* takes it back. After a stop, a crash, a lost link, or a start on top of a
\* half-open session Home Assistant does not take a dead hub for a live one,
\* except when it was an exception that ended the session.
OnlineIsBacked ==
    retained[Hub] = "online" /\ session = "none" => raised

Serving == main = "serve" /\ running

\* While the bridge serves, the hub is shown online again after a will.
HubComesBack == Serving ~> (retained[Hub] = "online" \/ ~Serving)

\* While the bridge serves, a node that the registry knows is shown as it is: one
\* that is heard comes online, one that fell silent does not stay so, whatever
\* is lost with the link.
KnownNodesFollow ==
    \A n \in Nodes :
        /\ (Serving /\ heard[n] = "silent") ~>
               (retained[n] # "online" \/ heard[n] = "recent" \/ ~Serving)
        /\ (Serving /\ heard[n] = "recent") ~>
               (retained[n] = "online" \/ heard[n] # "recent" \/ ~Serving)

\* A node of an earlier life of the hub whose retained message came before the
\* reconciliation does not stay online, unless it is heard.
CollectedAreReconciled ==
    \A n \in Nodes :
        (pub = "compare" /\ n \in collected /\ heard[n] = "never") ~>
            (retained[n] # "online" \/ heard[n] # "never" \/ ~running)

\* Nor does any other node of an earlier life of the hub, once the bridge serves.
StaleAreReconciled ==
    \A n \in Nodes :
        (Serving /\ heard[n] = "never") ~>
            (retained[n] # "online" \/ heard[n] # "never" \/ ~Serving)
=============================================================================

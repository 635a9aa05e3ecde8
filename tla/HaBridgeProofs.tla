--------------------------- MODULE HaBridgeProofs ---------------------------
(***************************************************************************)
(* Theorems about HaBridge, for every value of its constants.              *)
(***************************************************************************)
EXTENDS HaBridge, TLAPS, NaturalsInduction, WellFoundedInduction

-----------------------------------------------------------------------------
(* What the client's queue says of a topic. *)

\* A topic that occurs in the queue has a last occurrence.
LEMMA LastOnIsLast ==
  ASSUME out \in Seq(Message), NEW t, NEW i \in 1..Len(out), out[i].topic = t
  PROVE  /\ LastOn(t) \in 1..Len(out)
         /\ out[LastOn(t)].topic = t
         /\ \A k \in LastOn(t) + 1..Len(out) : out[k].topic # t
  <1> DEFINE Back == {d \in Nat : d < Len(out) /\ out[Len(out) - d].topic = t}
  <1>1. Back \subseteq Nat /\ Back # {}
    <2>1. Len(out) - i \in Nat /\ Len(out) - (Len(out) - i) = i /\ Len(out) - i < Len(out)
      OBVIOUS
    <2>2. Len(out) - i \in Back
      BY <2>1
    <2> QED
      BY <2>2
  <1> HIDE DEF Back
  <1>2. PICK d \in Back : \A e \in Back : ~(<<e, d>> \in OpToRel(<, Nat))
    BY <1>1, NatLessThanWellFounded, WFMin
  <1>3. \A e \in Back : ~(e < d)
    BY <1>1, <1>2 DEF OpToRel
  <1> DEFINE l == Len(out) - d
  <1>4. l \in 1..Len(out) /\ out[l].topic = t
    BY DEF Back
  <1>5. \A k \in l + 1..Len(out) : out[k].topic # t
    <2> SUFFICES ASSUME NEW k \in l + 1..Len(out), out[k].topic = t PROVE FALSE
      OBVIOUS
    <2>1. d \in Nat /\ Len(out) \in Nat
      BY <1>1
    <2>2. Len(out) - k \in Nat /\ Len(out) - k < d /\ Len(out) - (Len(out) - k) = k
      BY <2>1
    <2>3. Len(out) - k < Len(out)
      BY <2>1, <1>4
    <2>4. Len(out) - k \in Back
      BY <2>2, <2>3 DEF Back
    <2> QED
      BY <2>2, <2>4, <1>3
  <1> QED
    BY <1>4, <1>5 DEF LastOn

\* Writing the queue out keeps the types of the retained messages.
LEMMA WrittenOutType ==
  ASSUME TypeOK
  PROVE  WrittenOut \in [Topics -> States]
  <1> SUFFICES ASSUME NEW t \in Topics, NEW i \in 1..Len(out), out[i].topic = t
               PROVE  out[LastOn(t)].says \in States
    BY DEF WrittenOut, TypeOK
  <1>1. LastOn(t) \in 1..Len(out)
    BY LastOnIsLast DEF TypeOK
  <1>2. out[LastOn(t)] \in Message
    BY <1>1 DEF TypeOK
  <1> QED
    BY <1>2 DEF Message, States

-----------------------------------------------------------------------------
(* Type correctness. *)

\* Only stop, when the publishing thread has ended, exceeds the bound; nothing is
\* published before there is a session.
TypeInv ==
    /\ TypeOK
    /\ main \in {"down", "connect"} => pub = "none"
    /\ main # "clean" => Len(out) <= MaxOut
    /\ main = "clean" => pub \in {"none", "ended"}

LEMMA NothingType == Nothing \in [Nodes -> States]
  BY DEF Nothing, States

LEMMA CleanUpType ==
  ASSUME TypeOK, CleanUp
  PROVE  /\ retained' \in [Topics -> States]
         /\ session' \in {"none", "up", "half"}
         /\ inflight' \in SUBSET Nodes
         /\ out' \in Seq(Message) /\ Len(out') = 0
         /\ loop' \in BOOLEAN /\ ~loop'
  <1>1. loop' \in BOOLEAN /\ ~loop'
    BY DEF CleanUp
  <1>2. retained' \in [Topics -> States] /\ session' \in {"none", "up", "half"}
    <2>1. CASE session = "up"
      BY <2>1, WrittenOutType DEF CleanUp, TypeOK
    <2>2. CASE session # "up"
      BY <2>2 DEF CleanUp, TypeOK
    <2> QED
      BY <2>1, <2>2
  <1>3. inflight' \in SUBSET Nodes /\ out' \in Seq(Message) /\ Len(out') = 0
    BY DEF CleanUp
  <1> QED
    BY <1>1, <1>2, <1>3

LEMMA AbortType ==
  ASSUME TypeInv, Abort
  PROVE  TypeInv'
  <1>1. CleanUp
    BY DEF Abort
  <1>2. TypeOK
    BY DEF TypeInv
  <1>3. running' \in BOOLEAN /\ ~running'
    BY DEF Abort
  <1> QED
    BY <1>1, <1>2, <1>3, CleanUpType, NothingType, ConstantsAssumption
    DEF TypeInv, TypeOK, Abort

LEMMA PublishType ==
  ASSUME TypeOK, NEW t \in Topics, NEW s \in {"online", "offline"}, Publish(t, s)
  PROVE  out' \in Seq(Message) /\ Len(out') = Len(out) + 1
  <1>1. [topic |-> t, says |-> s] \in Message
    BY DEF Message
  <1> QED
    BY <1>1 DEF Publish, TypeOK

LEMMA InitType == Init => TypeInv
  <1> SUFFICES ASSUME Init PROVE TypeInv
    OBVIOUS
  <1>1. retained \in [Topics -> States]
    BY DEF Init, States
  <1>2. out \in Seq(Message) /\ Len(out) = 0
    BY DEF Init
  <1>3. heard \in [Nodes -> {"never", "recent", "silent"}]
    BY DEF Init
  <1>4. /\ running \in BOOLEAN /\ ~running
        /\ loop \in BOOLEAN /\ ~loop
        /\ stopping \in BOOLEAN /\ raised \in BOOLEAN
    BY DEF Init
  <1> QED
    BY <1>1, <1>2, <1>3, <1>4, NothingType, ConstantsAssumption DEF Init, TypeInv, TypeOK

LEMMA NetworkType == ASSUME TypeInv, Network PROVE TypeInv'
  <1> USE DEF TypeInv, TypeOK, States, clientVars, bridgeVars
  <1>1. Hub \in Topics
    BY DEF Topics
  <1>2. CASE Deliver
    <2>1. Head(out) \in Message /\ Tail(out) \in Seq(Message) /\ Len(Tail(out)) = Len(out) - 1
      BY <1>2 DEF Deliver
    <2>2. Head(out).topic \in Topics /\ Head(out).says \in States
      BY <2>1 DEF Message
    <2>3. retained' \in [Topics -> States]
      BY <1>2, <2>2 DEF Deliver
    <2> QED
      BY <1>2, <2>1, <2>3, ConstantsAssumption DEF Deliver
  <1>3. CASE LinkLost
    BY <1>3 DEF LinkLost
  <1>4. CASE Reconnect
    BY <1>1, <1>4 DEF Reconnect, OpenSession
  <1>5. CASE WillFires
    BY <1>1, <1>5 DEF WillFires
  <1>6. ASSUME NEW n \in Nodes, OnMessage(n) PROVE TypeInv'
    BY <1>6 DEF OnMessage
  <1> QED
    BY <1>2, <1>3, <1>4, <1>5, <1>6 DEF Network

LEMMA StartingType == ASSUME TypeInv, Starting PROVE TypeInv'
  <1> USE DEF TypeInv, TypeOK, States, clientVars, brokerVars
  <1>1. Hub \in Topics
    BY DEF Topics
  <1>2. CASE Boot
    BY <1>2 DEF Boot
  <1>3. CASE Connect
    BY <1>1, <1>3 DEF Connect, OpenSession
  <1>4. CASE ConnectFails
    BY <1>4 DEF ConnectFails
  <1>5. CASE Subscribe
    BY <1>5 DEF Subscribe
  <1>6. CASE SubscribeFails \/ WindowNeverQuiet
    <2> HIDE DEF TypeInv
    <2> QED BY <1>6, AbortType DEF SubscribeFails, WindowNeverQuiet
  <1>7. CASE WindowCloses
    BY <1>7 DEF WindowCloses
  <1> QED
    BY <1>2, <1>3, <1>4, <1>5, <1>6, <1>7 DEF Starting

LEMMA PassType == ASSUME TypeInv, Pass PROVE TypeInv'
  <1> USE DEF TypeInv, TypeOK, States, clientVars, brokerVars
  <1>1. Hub \in Topics /\ Nodes \subseteq Topics
    BY DEF Topics
  <1>2. CASE PublishHub
    <2>1. out' \in Seq(Message) /\ Len(out') = Len(out) + 1
      BY <1>1, <1>2, PublishType DEF PublishHub
    <2> QED
      BY <1>2, <2>1, ConstantsAssumption DEF PublishHub, HasRoom
  <1>3. CASE ListNodes
    BY <1>3 DEF ListNodes
  <1>4. ASSUME NEW n \in Nodes, PublishNode(n) PROVE TypeInv'
    <2>1. snap[n] \in {"online", "offline"}
      BY <1>4 DEF PublishNode
    <2>2. out' \in Seq(Message) /\ Len(out') = Len(out) + 1
      BY <1>1, <1>4, <2>1, PublishType DEF PublishNode
    <2> QED
      BY <1>4, <2>2, ConstantsAssumption DEF PublishNode, HasRoom
  <1>5. CASE EndPass
    BY <1>5 DEF EndPass
  <1>6. CASE CompareTopics
    BY <1>6 DEF CompareTopics
  <1>7. ASSUME NEW n \in Nodes, PublishStale(n) PROVE TypeInv'
    <2>1. out' \in Seq(Message) /\ Len(out') = Len(out) + 1
      BY <1>1, <1>7, PublishType DEF PublishStale
    <2> QED
      BY <1>7, <2>1, ConstantsAssumption DEF PublishStale, HasRoom
  <1>8. CASE StartThread
    BY <1>8 DEF StartThread
  <1>9. CASE WakeUp
    BY <1>9 DEF WakeUp
  <1> QED
    BY <1>2, <1>3, <1>4, <1>5, <1>6, <1>7, <1>8, <1>9 DEF Pass

LEMMA RaisesType == ASSUME TypeInv, PublishRaises PROVE TypeInv'
  <1>1. CASE main = "initial"
    BY <1>1, AbortType DEF PublishRaises
  <1>2. CASE main # "initial"
    <2>1. TypeOK /\ CleanUp
      BY <1>2 DEF PublishRaises, TypeInv
    <2>2. /\ running' \in BOOLEAN /\ ~running'
          /\ stopping' \in BOOLEAN /\ raised' \in BOOLEAN
      BY <1>2 DEF PublishRaises
    <2> QED
      BY <1>2, <2>1, <2>2, CleanUpType, NothingType, ConstantsAssumption
      DEF PublishRaises, TypeInv, TypeOK
  <1> QED
    BY <1>1, <1>2

LEMMA StoppingType == ASSUME TypeInv, Stopping PROVE TypeInv'
  <1> USE DEF TypeInv, TypeOK, clientVars, brokerVars
  <1>1. Hub \in Topics
    BY DEF Topics
  <1>2. CASE Stop
    BY <1>2 DEF Stop
  <1>3. CASE SayOffline
    <2>1. CASE running
      <3>1. out' \in Seq(Message) /\ Len(out') = Len(out) + 1
        BY <1>1, <1>3, <2>1, PublishType DEF SayOffline
      <3> QED
        BY <1>3, <3>1, ConstantsAssumption DEF SayOffline, Joined
    <2>2. CASE ~running
      BY <1>3, <2>2, ConstantsAssumption DEF SayOffline, Joined
    <2> QED
      BY <2>1, <2>2
  <1>4. CASE SayOfflineRaises
    BY <1>4, ConstantsAssumption DEF SayOfflineRaises, Joined
  <1>5. CASE StopEnds
    <2>1. CleanUp /\ running' \in BOOLEAN /\ ~running'
      BY <1>5 DEF StopEnds
    <2> QED
      BY <1>5, <2>1, CleanUpType, ConstantsAssumption DEF StopEnds
  <1>6. CASE Crash
    <2>1. running' \in BOOLEAN /\ ~running' /\ loop' \in BOOLEAN /\ ~loop'
      BY <1>6 DEF Crash
    <2> QED
      BY <1>6, <2>1, NothingType, ConstantsAssumption DEF Crash
  <1> QED
    BY <1>2, <1>3, <1>4, <1>5, <1>6 DEF Stopping

LEMMA NextType == ASSUME TypeInv, [Next]_vars PROVE TypeInv'
  <1>1. ASSUME NEW n \in Nodes, Hear(n) \/ FallSilent(n) PROVE TypeInv'
    BY <1>1 DEF Hear, FallSilent, TypeInv, TypeOK, brokerVars, clientVars, bridgeVars
  <1>2. CASE UNCHANGED vars
    BY <1>2 DEF vars, brokerVars, clientVars, bridgeVars, TypeInv, TypeOK
  <1> QED
    BY <1>1, <1>2, NetworkType, StartingType, PassType, RaisesType, StoppingType DEF Next

\* Every variable of the bridge, the client and the broker keeps its type.
THEOREM TypeCorrect == Spec => []TypeOK
  <1>1. Init => TypeInv
    BY InitType
  <1>2. TypeInv /\ [Next]_vars => TypeInv'
    BY NextType
  <1>3. TypeInv => TypeOK
    BY DEF TypeInv
  <1> QED
    BY <1>1, <1>2, <1>3, PTL DEF Spec

-----------------------------------------------------------------------------
(* Who stands behind the hub's "online". *)

\* The last word on the hub, of the queue or else of the broker, is not "online".
Settled ==
    \/ \E i \in 1..Len(out) :
          /\ out[i].topic = Hub /\ out[i].says = "offline"
          /\ \A k \in i + 1..Len(out) : out[k].topic # Hub
    \/ /\ retained[Hub] # "online"
       /\ \A k \in 1..Len(out) : out[k].topic # Hub

\* The client has a session only while its thread runs, which is while the
\* bridge is running; and once stop has had its say, that is what counts.
BackedInv ==
    /\ session = "up" => loop
    /\ loop => running
    /\ main \in {"down", "connect"} => ~loop
    /\ main = "connect" => running
    /\ main = "clean" /\ running => Settled \/ raised
    /\ OnlineIsBacked

\* What is settled in the queue is settled at the broker when it is written out.
LEMMA SettledIsWritten ==
  ASSUME TypeOK, Settled
  PROVE  WrittenOut[Hub] # "online"
  <1>1. Hub \in Topics
    BY DEF Topics
  <1>2. CASE \A k \in 1..Len(out) : out[k].topic # Hub
    BY <1>1, <1>2 DEF WrittenOut, Settled
  <1>3. ASSUME NEW i \in 1..Len(out),
               out[i].topic = Hub, out[i].says = "offline",
               \A k \in i + 1..Len(out) : out[k].topic # Hub
        PROVE  WrittenOut[Hub] # "online"
    <2> DEFINE l == LastOn(Hub)
    <2>1. /\ l \in 1..Len(out)
          /\ out[l].topic = Hub
          /\ \A k \in l + 1..Len(out) : out[k].topic # Hub
      BY <1>3, LastOnIsLast DEF TypeOK
    <2>2. l = i
      <3> HIDE DEF l
      <3>1. ~(l < i) /\ ~(i < l)
        BY <1>3, <2>1 DEF TypeOK
      <3> QED
        BY <2>1, <3>1 DEF TypeOK
    <2>3. WrittenOut[Hub] = out[l].says
      BY <1>1, <1>3 DEF WrittenOut
    <2> QED
      BY <1>3, <2>2, <2>3
  <1> QED
    BY <1>2, <1>3 DEF Settled

\* The network thread and the broker leave settled what is settled.
LEMMA NetworkKeepsSettled ==
  ASSUME TypeOK, Settled, Network
  PROVE  Settled'
  <1>1. Hub \in Topics
    BY DEF Topics
  <1>2. CASE Deliver
    <2>1. /\ out # <<>> /\ out' = Tail(out) /\ out \in Seq(Message)
          /\ retained' = [retained EXCEPT ![Head(out).topic] = Head(out).says]
      BY <1>2 DEF Deliver, TypeOK
    <2>2. /\ Len(out) \in Nat /\ Len(out) > 0 /\ Len(out') = Len(out) - 1
          /\ \A k \in 1..Len(out') : out'[k] = out[k + 1] /\ k + 1 \in 2..Len(out)
      BY <2>1
    <2>3. ASSUME NEW i \in 1..Len(out),
                 out[i].topic = Hub, out[i].says = "offline",
                 \A k \in i + 1..Len(out) : out[k].topic # Hub
          PROVE  Settled'
      <3>1. CASE i = 1
        <4>1. Head(out).topic = Hub /\ Head(out).says = "offline"
          BY <2>1, <2>3, <3>1
        <4>2. retained'[Hub] = "offline"
          BY <1>1, <2>1, <4>1 DEF TypeOK
        <4>3. \A k \in 1..Len(out') : out'[k].topic # Hub
          BY <2>2, <2>3, <3>1
        <4> QED
          BY <4>2, <4>3 DEF Settled
      <3>2. CASE i # 1
        <4> DEFINE j == i - 1
        <4>1. j \in 1..Len(out') /\ out'[j] = out[i]
          BY <2>2, <2>3, <3>2
        <4>2. \A k \in j + 1..Len(out') : out'[k].topic # Hub
          BY <2>2, <2>3, <3>2
        <4> HIDE DEF j
        <4> QED
          BY <2>3, <4>1, <4>2 DEF Settled
      <3> QED
        BY <3>1, <3>2
    <2>4. CASE retained[Hub] # "online" /\ \A k \in 1..Len(out) : out[k].topic # Hub
      <3>1. Head(out).topic # Hub
        BY <2>1, <2>2, <2>4
      <3>2. retained'[Hub] = retained[Hub]
        BY <1>1, <2>1, <3>1 DEF TypeOK
      <3>3. \A k \in 1..Len(out') : out'[k].topic # Hub
        BY <2>2, <2>4
      <3> QED
        BY <2>4, <3>2, <3>3 DEF Settled
    <2> QED
      BY <2>3, <2>4 DEF Settled
  <1>3. ASSUME out' = out, retained'[Hub] = retained[Hub] \/ retained'[Hub] = "offline"
        PROVE  Settled'
    BY <1>3 DEF Settled
  <1>4. CASE LinkLost \/ \E n \in Nodes : OnMessage(n)
    BY <1>3, <1>4 DEF LinkLost, OnMessage, clientVars
  <1>5. CASE Reconnect
    BY <1>1, <1>3, <1>5 DEF Reconnect, OpenSession, clientVars, TypeOK
  <1>6. CASE WillFires
    BY <1>1, <1>3, <1>6 DEF WillFires, clientVars, TypeOK
  <1> QED
    BY <1>2, <1>4, <1>5, <1>6 DEF Network

LEMMA InitBacked == Init => BackedInv
  BY DEF Init, BackedInv, OnlineIsBacked, Topics

\* An exception ends the session; who takes it for a live one is told by raised.
LEMMA AbortBacked == ASSUME Abort, BackedInv PROVE BackedInv'
  <1>1. /\ main' = "serve" /\ raised'
        /\ ~loop' /\ session' # "up"
    BY DEF Abort, CleanUp, BackedInv
  <1> QED
    BY <1>1 DEF BackedInv, OnlineIsBacked

LEMMA NetworkBacked == ASSUME TypeOK, BackedInv, Network PROVE BackedInv'
  <1>1. Hub \in Topics
    BY DEF Topics
  <1>2. UNCHANGED <<loop, main, running, raised>>
    BY DEF Network, Deliver, LinkLost, Reconnect, WillFires, OnMessage, clientVars,
           bridgeVars
  <1>3. session' = "up" => loop
    BY DEF Network, Deliver, LinkLost, Reconnect, WillFires, OnMessage, BackedInv
  <1>4. retained'[Hub] = "online" /\ session' = "none" => raised
    <2>1. CASE WillFires
      BY <1>1, <2>1 DEF WillFires, TypeOK
    <2>2. CASE ~WillFires
      BY <2>2 DEF Network, Deliver, LinkLost, Reconnect, OpenSession, OnMessage,
                  BackedInv, OnlineIsBacked
    <2> QED
      BY <2>1, <2>2
  <1>5. main' = "clean" /\ running' => Settled' \/ raised'
    BY <1>2, NetworkKeepsSettled DEF BackedInv
  <1> QED
    BY <1>2, <1>3, <1>4, <1>5 DEF BackedInv, OnlineIsBacked

LEMMA StartingBacked == ASSUME BackedInv, Starting PROVE BackedInv'
  <1> USE DEF BackedInv, OnlineIsBacked
  <1>1. CASE Boot
    BY <1>1 DEF Boot, brokerVars, clientVars
  <1>2. CASE Connect
    BY <1>2 DEF Connect, OpenSession
  <1>3. CASE ConnectFails
    BY <1>3 DEF ConnectFails, brokerVars, clientVars
  <1>4. CASE Subscribe
    BY <1>4 DEF Subscribe, clientVars
  <1>5. CASE SubscribeFails \/ WindowNeverQuiet
    BY <1>5, AbortBacked DEF SubscribeFails, WindowNeverQuiet
  <1>6. CASE WindowCloses
    BY <1>6 DEF WindowCloses, brokerVars, clientVars
  <1> QED
    BY <1>1, <1>2, <1>3, <1>4, <1>5, <1>6 DEF Starting

LEMMA PassBacked == ASSUME TypeInv, BackedInv, Pass PROVE BackedInv'
  <1>1. main # "clean"
    BY DEF TypeInv, Pass, PublishHub, ListNodes, PublishNode, EndPass, CompareTopics,
           PublishStale, StartThread, WakeUp
  <1>2. main' = main \/ main' = "serve"
    BY DEF Pass, PublishHub, ListNodes, PublishNode, EndPass, CompareTopics,
           PublishStale, StartThread, WakeUp
  <1>3. UNCHANGED <<retained, session, loop, running, raised>>
    BY DEF Pass, PublishHub, ListNodes, PublishNode, EndPass, CompareTopics,
           PublishStale, StartThread, WakeUp, brokerVars, clientVars
  <1> QED
    BY <1>1, <1>2, <1>3 DEF BackedInv, OnlineIsBacked

LEMMA RaisesBacked == ASSUME TypeInv, BackedInv, PublishRaises PROVE BackedInv'
  <1>1. CASE main = "initial"
    BY <1>1, AbortBacked DEF PublishRaises
  <1>2. CASE main # "initial"
    <2>1. /\ UNCHANGED main /\ raised' /\ ~loop' /\ session' # "up"
      BY <1>2 DEF PublishRaises, CleanUp, BackedInv
    <2>2. main # "connect"
      BY <1>2 DEF PublishRaises, TypeInv
    <2> QED
      BY <2>1, <2>2 DEF BackedInv, OnlineIsBacked
  <1> QED
    BY <1>1, <1>2

LEMMA StoppingBacked == ASSUME TypeOK, BackedInv, Stopping PROVE BackedInv'
  <1> USE DEF BackedInv, OnlineIsBacked
  <1>1. CASE Stop
    BY <1>1 DEF Stop, brokerVars, clientVars
  <1>2. CASE SayOffline
    <2>1. ASSUME running PROVE Settled'
      <3>1. /\ Len(out) \in Nat /\ Len(out') = Len(out) + 1
            /\ out'[Len(out) + 1] = [topic |-> Hub, says |-> "offline"]
        BY <1>2, <2>1 DEF SayOffline, Publish, TypeOK
      <3> DEFINE i == Len(out) + 1
      <3>2. i \in 1..Len(out') /\ out'[i].topic = Hub /\ out'[i].says = "offline"
        BY <3>1
      <3>3. \A k \in i + 1..Len(out') : out'[k].topic # Hub
        BY <3>1
      <3> HIDE DEF i
      <3> QED
        BY <3>2, <3>3 DEF Settled
    <2>2. main' = "clean" /\ UNCHANGED <<retained, session, loop, running, raised>>
      BY <1>2 DEF SayOffline, brokerVars
    <2> QED
      BY <2>1, <2>2
  <1>3. CASE SayOfflineRaises
    BY <1>3 DEF SayOfflineRaises, brokerVars, clientVars
  <1>4. CASE StopEnds
    <2>1. CASE session = "up"
      <3>1. Settled \/ raised
        BY <1>4, <2>1 DEF StopEnds
      <3>2. retained'[Hub] # "online" \/ raised
        BY <1>4, <2>1, <3>1, SettledIsWritten DEF StopEnds, CleanUp
      <3> QED
        BY <1>4, <2>1, <3>2 DEF StopEnds, CleanUp
    <2>2. CASE session # "up"
      BY <1>4, <2>2 DEF StopEnds, CleanUp
    <2> QED
      BY <2>1, <2>2
  <1>5. CASE Crash
    BY <1>5 DEF Crash
  <1> QED
    BY <1>1, <1>2, <1>3, <1>4, <1>5 DEF Stopping

LEMMA NextBacked == ASSUME TypeInv, BackedInv, [Next]_vars PROVE BackedInv'
  <1>1. TypeOK
    BY DEF TypeInv
  <1>2. CASE UNCHANGED <<brokerVars, clientVars, bridgeVars, raised>>
    BY <1>2 DEF brokerVars, clientVars, bridgeVars, BackedInv, OnlineIsBacked, Settled
  <1>3. ASSUME NEW n \in Nodes, Hear(n) \/ FallSilent(n) PROVE BackedInv'
    BY <1>2, <1>3 DEF Hear, FallSilent
  <1> QED
    BY <1>1, <1>2, <1>3, NetworkBacked, StartingBacked, PassBacked, RaisesBacked,
       StoppingBacked DEF Next, vars

\* A dead or stopped hub is not shown as online for good: whenever the broker's
\* last word is "online", a session with a will is open, or an exception ended it.
THEOREM DeadHubIsNotOnline == Spec => []OnlineIsBacked
  <1>1. Init => TypeInv /\ BackedInv
    BY InitType, InitBacked
  <1>2. TypeInv /\ BackedInv /\ [Next]_vars => (TypeInv /\ BackedInv)'
    BY NextType, NextBacked
  <1>3. BackedInv => OnlineIsBacked
    BY DEF BackedInv
  <1> QED
    BY <1>1, <1>2, <1>3, PTL DEF Spec

-----------------------------------------------------------------------------
(* A hub brings only nodes online that it heard itself, whatever its earlier  *)
(* lives left in queues and at the broker.                                    *)

OnlyHeardComeOnline ==
    [][\A n \in Nodes :
          retained[n] # "online" /\ retained'[n] = "online" => heard[n] # "never"]_vars

\* What is queued, or about to be.
WordsAreHeard ==
    /\ \A i \in 1..Len(out) :
          out[i].topic \in Nodes /\ out[i].says = "online" => heard[out[i].topic] # "never"
    /\ \A n \in Nodes : snap[n] = "online" => heard[n] # "never"

\* Nothing is left of it when the registry is made anew.
HeardInv ==
    /\ WordsAreHeard
    /\ pub # "nodes" => snap = Nothing
    /\ main = "down" => out = <<>>
    /\ main \in {"subscribe", "await"} => pub = "none"

\* The queue loses words, and nodes are heard.
LEMMA HeardStays ==
  ASSUME TypeInv, WordsAreHeard,
         \A n \in Nodes : heard'[n] = "never" => heard[n] = "never",
         out' = out \/ out' = <<>> \/ (out # <<>> /\ out' = Tail(out)),
         \A n \in Nodes : snap'[n] = "online" => snap[n] = "online"
  PROVE  WordsAreHeard'
  <1>1. out \in Seq(Message) /\ Len(out) \in Nat
    BY DEF TypeInv, TypeOK
  <1>2. ASSUME NEW i \in 1..Len(out'), out'[i].topic \in Nodes, out'[i].says = "online"
        PROVE  heard'[out'[i].topic] # "never"
    <2>1. PICK k \in 1..Len(out) : out'[i] = out[k]
      <3>1. CASE out' = out
        BY <1>2, <3>1
      <3>2. CASE out' = <<>>
        BY <1>2, <3>2
      <3>3. CASE out # <<>> /\ out' = Tail(out)
        <4>1. i + 1 \in 1..Len(out) /\ out'[i] = out[i + 1]
          BY <1>1, <1>2, <3>3
        <4> QED
          BY <4>1
      <3> QED
        BY <3>1, <3>2, <3>3
    <2> QED
      BY <1>2, <2>1 DEF WordsAreHeard
  <1> QED
    BY <1>2 DEF WordsAreHeard

LEMMA PublishHeard ==
  ASSUME TypeInv, WordsAreHeard, NEW t \in Topics, NEW s \in {"online", "offline"},
         Publish(t, s), t \in Nodes /\ s = "online" => heard[t] # "never",
         heard' = heard,
         \A n \in Nodes : snap'[n] = "online" => snap[n] = "online"
  PROVE  WordsAreHeard'
  <1>1. /\ Len(out) \in Nat /\ Len(out') = Len(out) + 1
        /\ out'[Len(out) + 1] = [topic |-> t, says |-> s]
        /\ \A i \in 1..Len(out) : out'[i] = out[i]
    <2>1. [topic |-> t, says |-> s] \in Message
      BY DEF Message
    <2> QED
      BY <2>1 DEF Publish, TypeInv, TypeOK
  <1>2. ASSUME NEW i \in 1..Len(out'), out'[i].topic \in Nodes, out'[i].says = "online"
        PROVE  heard'[out'[i].topic] # "never"
    <2>1. CASE i \in 1..Len(out)
      BY <1>1, <1>2, <2>1 DEF WordsAreHeard
    <2>2. CASE i = Len(out) + 1
      BY <1>1, <1>2, <2>2
    <2> QED
      BY <1>1, <2>1, <2>2
  <1> QED
    BY <1>2 DEF WordsAreHeard

LEMMA InitHeard == Init => HeardInv
  BY DEF Init, HeardInv, WordsAreHeard, Nothing

LEMMA PassHeard == ASSUME TypeInv, HeardInv, Pass PROVE HeardInv'
  <1>1. /\ heard' = heard
        /\ main \notin {"down", "subscribe", "await"}
        /\ main' \notin {"down", "subscribe", "await"}
    BY DEF HeardInv, Pass, PublishHub, ListNodes, PublishNode, EndPass, CompareTopics, PublishStale,
           StartThread, WakeUp, TypeInv
  <1>2. CASE PublishHub
    <2>1. Hub \in Topics /\ Hub \notin Nodes
      BY ConstantsAssumption DEF Topics
    <2> QED
      BY <1>1, <1>2, <2>1, PublishHeard DEF PublishHub, HeardInv
  <1>3. CASE ListNodes
    <2>1. ASSUME NEW n \in Nodes, snap'[n] = "online" PROVE heard[n] # "never"
      BY <1>3, <2>1 DEF ListNodes
    <2> QED
      BY <1>1, <1>3, <2>1 DEF ListNodes, clientVars, HeardInv, WordsAreHeard
  <1>4. ASSUME NEW n \in Nodes, PublishNode(n) PROVE HeardInv'
    <2>1. snap[n] \in {"online", "offline"}
      BY <1>4 DEF PublishNode, TypeInv, TypeOK, States
    <2>2. \A m \in Nodes : snap'[m] = "online" => snap[m] = "online"
      BY <1>4 DEF PublishNode, TypeInv, TypeOK
    <2>3. n \in Topics /\ (snap[n] = "online" => heard[n] # "never")
      BY DEF Topics, HeardInv, WordsAreHeard
    <2>4. WordsAreHeard'
      BY <1>1, <1>4, <2>1, <2>2, <2>3, PublishHeard DEF PublishNode, HeardInv
    <2> QED
      BY <1>1, <1>4, <2>4 DEF PublishNode, HeardInv
  <1>5. ASSUME NEW n \in Nodes, PublishStale(n) PROVE HeardInv'
    <2>1. n \in Topics
      BY DEF Topics
    <2> QED
      BY <1>1, <1>5, <2>1, PublishHeard DEF PublishStale, HeardInv
  <1>6. CASE EndPass \/ CompareTopics \/ StartThread \/ WakeUp
    BY <1>1, <1>6
    DEF EndPass, CompareTopics, StartThread, WakeUp, clientVars, HeardInv, WordsAreHeard
  <1> QED
    BY <1>2, <1>3, <1>4, <1>5, <1>6 DEF Pass

LEMMA NextHeard == ASSUME TypeInv, HeardInv, [Next]_vars PROVE HeardInv'
  <1> USE DEF HeardInv
  <1>1. \A n \in Nodes : Nothing[n] # "online"
    BY DEF Nothing
  <1>2. ASSUME Network PROVE HeardInv'
    <2>1. UNCHANGED <<heard, snap, pub, main>> /\ (main = "down" => out' = out)
      BY <1>2 DEF Network, Deliver, LinkLost, Reconnect, WillFires, OnMessage, clientVars,
                  bridgeVars, TypeInv, TypeOK
    <2>2. out' = out \/ (out # <<>> /\ out' = Tail(out))
      BY <1>2 DEF Network, Deliver, LinkLost, Reconnect, WillFires, OnMessage, clientVars
    <2> QED
      BY <2>1, <2>2, HeardStays
  <1>3. ASSUME Abort PROVE HeardInv'
    <2>1. heard' = heard /\ out' = <<>> /\ snap' = Nothing /\ main' = "serve"
      BY <1>3 DEF Abort, CleanUp
    <2> QED
      BY <1>1, <2>1, HeardStays
  <1>4. CASE Boot
    <2>1. out' = <<>> /\ snap' = Nothing /\ main' = "connect"
      BY <1>4 DEF Boot, clientVars, TypeInv
    <2> QED
      BY <1>1, <2>1 DEF WordsAreHeard
  <1>5. CASE Connect \/ ConnectFails \/ Subscribe \/ WindowCloses
    <2>1. UNCHANGED <<heard, snap, out>> /\ main' # "down" /\ pub' # "nodes" /\ snap = Nothing
      BY <1>5 DEF Connect, ConnectFails, Subscribe, WindowCloses, clientVars, TypeInv
    <2>2. WordsAreHeard'
      BY <2>1 DEF WordsAreHeard
    <2>3. main' \in {"subscribe", "await"} => pub' = "none"
      BY <1>5 DEF Connect, ConnectFails, Subscribe, WindowCloses, TypeInv
    <2> QED
      BY <2>1, <2>2, <2>3
  <1>6. CASE PublishRaises
    <2>1. CASE Abort
      BY <1>3, <2>1
    <2>2. CASE ~Abort
      <3>1. /\ heard' = heard /\ out' = <<>> /\ snap' = Nothing
            /\ main' = main /\ main \notin {"subscribe", "await"}
        BY <1>6, <2>2 DEF PublishRaises, CleanUp
      <3> QED
        BY <1>1, <3>1, HeardStays
    <2> QED
      BY <2>1, <2>2
  <1>7. CASE Stop \/ SayOfflineRaises
    <2>1. UNCHANGED <<heard, out, snap, pub>> /\ main' \notin {"down", "subscribe", "await"}
      BY <1>7 DEF Stop, SayOfflineRaises, clientVars
    <2> QED
      BY <2>1 DEF WordsAreHeard
  <1>8. CASE SayOffline
    <2>1. heard' = heard /\ snap' = snap /\ pub' = pub /\ main' = "clean"
      BY <1>8 DEF SayOffline
    <2>2. CASE running
      <3>1. Hub \in Topics
        BY DEF Topics
      <3> QED
        BY <1>8, <2>1, <2>2, <3>1, PublishHeard DEF SayOffline
    <2>3. CASE ~running
      BY <1>8, <2>1, <2>3 DEF SayOffline, WordsAreHeard
    <2> QED
      BY <2>2, <2>3
  <1>9. CASE StopEnds
    <2>1. /\ heard' = heard /\ out' = <<>> /\ snap' = snap /\ snap = Nothing
          /\ main' = "down"
      BY <1>9 DEF StopEnds, CleanUp, TypeInv
    <2> QED
      BY <2>1, HeardStays
  <1>10. CASE Crash
    <2>1. heard' = heard /\ out' = <<>> /\ snap' = Nothing /\ main' = "down"
      BY <1>10 DEF Crash
    <2> QED
      BY <1>1, <2>1, HeardStays
  <1>11. ASSUME NEW n \in Nodes, Hear(n) \/ FallSilent(n) PROVE HeardInv'
    <2>1. UNCHANGED <<out, snap, pub, main>>
      BY <1>11 DEF Hear, FallSilent, clientVars, bridgeVars
    <2>2. \A m \in Nodes : heard'[m] = "never" => heard[m] = "never"
      BY <1>11 DEF Hear, FallSilent, TypeInv, TypeOK
    <2> QED
      BY <2>1, <2>2, HeardStays
  <1>12. CASE UNCHANGED vars
    BY <1>12 DEF vars, clientVars, bridgeVars, WordsAreHeard
  <1> QED
    BY <1>2, <1>3, <1>4, <1>5, <1>6, <1>7, <1>8, <1>9, <1>10, <1>11, <1>12, PassHeard
    DEF Next, Starting, SubscribeFails, WindowNeverQuiet, Stopping

\* What is written out of the queue is what somebody queued.
LEMMA WrittenIsHeard ==
  ASSUME TypeInv, WordsAreHeard, NEW n \in Nodes,
         retained[n] # "online", WrittenOut[n] = "online"
  PROVE  heard[n] # "never"
  <1>1. n \in Topics
    BY DEF Topics
  <1>2. PICK i \in 1..Len(out) : out[i].topic = n
    BY <1>1 DEF WrittenOut
  <1>3. LastOn(n) \in 1..Len(out) /\ out[LastOn(n)].topic = n
    BY <1>2, LastOnIsLast DEF TypeInv, TypeOK
  <1>4. out[LastOn(n)].says = "online"
    BY <1>1, <1>2 DEF WrittenOut
  <1> QED
    BY <1>3, <1>4 DEF WordsAreHeard

\* A hub brings a node online at the broker only after it heard it since its start:
\* never because of what an earlier life queued or left in the registry (start,
\* _publish_state, _cleanup_client).
THEOREM OnlyHeardNodesComeOnline == Spec => OnlyHeardComeOnline
  <1>1. ASSUME TypeInv, HeardInv, [Next]_vars, NEW n \in Nodes,
               retained[n] # "online", retained'[n] = "online"
        PROVE  heard[n] # "never"
    <2>1. n \in Topics /\ n # Hub /\ WordsAreHeard
      BY <1>1, ConstantsAssumption DEF Topics, HeardInv
    <2>2. CASE retained' = WrittenOut
      BY <1>1, <2>1, <2>2, WrittenIsHeard
    <2>3. CASE retained' = [retained EXCEPT ![Hub] = "offline"]
      BY <1>1, <2>1, <2>3 DEF TypeInv, TypeOK
    <2>4. CASE Deliver
      <3>1. /\ out \in Seq(Message) /\ out # <<>>
            /\ retained' = [retained EXCEPT ![Head(out).topic] = Head(out).says]
        BY <1>1, <2>4 DEF Deliver, TypeInv, TypeOK
      <3>2. 1 \in 1..Len(out) /\ Head(out) = out[1]
        BY <3>1
      <3>3. out[1].topic = n /\ out[1].says = "online"
        BY <1>1, <2>1, <3>1, <3>2 DEF TypeInv, TypeOK
      <3> QED
        BY <2>1, <3>2, <3>3 DEF WordsAreHeard
    <2>5. CASE retained' = retained
      BY <1>1, <2>5
    <2> QED
      BY <1>1, <2>2, <2>3, <2>4, <2>5
      DEF Next, vars, brokerVars, clientVars, bridgeVars, Network, LinkLost, Reconnect,
          WillFires, OnMessage, Starting, Boot, Connect, ConnectFails, Subscribe,
          SubscribeFails, WindowCloses, WindowNeverQuiet, Abort, CleanUp, OpenSession,
          Pass, PublishHub, ListNodes, PublishNode, EndPass, CompareTopics, PublishStale,
          StartThread, WakeUp, PublishRaises, Stopping, Stop, SayOffline,
          SayOfflineRaises, StopEnds, Crash, Hear, FallSilent
  <1>2. TypeInv /\ HeardInv /\ [Next]_vars =>
          [\A n \in Nodes : retained[n] # "online" /\ retained'[n] = "online"
                                => heard[n] # "never"]_vars
    BY <1>1
  <1>3. Init => TypeInv /\ HeardInv
    BY InitType, InitHeard
  <1>4. TypeInv /\ HeardInv /\ [Next]_vars => (TypeInv /\ HeardInv)'
    BY NextType, NextHeard
  <1> QED
    BY <1>2, <1>3, <1>4, PTL DEF Spec, OnlyHeardComeOnline
=============================================================================

-------------------------- MODULE NodeUplinkProofs --------------------------
(***************************************************************************)
(* Theorems about NodeUplink, for every value of its constants.            *)
(***************************************************************************)
EXTENDS NodeUplink, TLAPS, FiniteSetTheorems, NaturalsInduction, WellFoundedInduction,
        SequenceTheorems

\* What audio_task and udp_task have in their hands: a packet that was
\* numbered, and room in the queue once the oldest packet has left it.
Hands ==
    /\ apc \in {"put", "evict", "retry"} => seq >= 1
    /\ apc = "retry" => Len(packets) < QueueDepth
    /\ upc \in {"load", "send"} <=> held # NoPacket

TypeInv == TypeOK /\ Hands

-----------------------------------------------------------------------------
(* Sequences and the table of descriptors. *)

LEMMA QueueAppend ==
  ASSUME TypeOK, NEW x \in 0..MaxPackets, packets' = Append(packets, x)
  PROVE  /\ packets' \in Seq(0..MaxPackets)
         /\ Len(packets) \in Nat
         /\ Len(packets') = Len(packets) + 1
         /\ packets'[Len(packets) + 1] = x
         /\ \A i \in 1..Len(packets) : packets'[i] = packets[i]
  <1>1. packets \in Seq(0..MaxPackets)
    BY DEF TypeOK
  <1> QED
    BY <1>1

LEMMA QueueTail ==
  ASSUME TypeOK, packets # <<>>
  PROVE  /\ Len(packets) \in Nat /\ Len(packets) >= 1
         /\ Head(packets) \in 0..MaxPackets /\ Head(packets) = packets[1]
         /\ Tail(packets) \in Seq(0..MaxPackets)
         /\ Len(Tail(packets)) = Len(packets) - 1
         /\ \A i \in 1..Len(packets) - 1 : Tail(packets)[i] = packets[i + 1]
  <1>1. packets \in Seq(0..MaxPackets)
    BY DEF TypeOK
  <1>2. Len(packets) \in Nat /\ Len(packets) >= 1
    BY <1>1
  <1>3. Head(packets) = packets[1] /\ packets[1] \in 0..MaxPackets
    <2>1. 1 \in 1..Len(packets)
      BY <1>2
    <2>2. packets[1] \in 0..MaxPackets
      BY <1>1, <2>1, ElementOfSeq
    <2>3. Head(packets) = packets[1]
      BY <1>1, HeadTailProperties
    <2> QED
      BY <2>2, <2>3
  <1>4. /\ Tail(packets) \in Seq(0..MaxPackets)
        /\ Len(Tail(packets)) = Len(packets) - 1
    BY <1>1, <1>2
  <1>5. \A i \in 1..Len(packets) - 1 : Tail(packets)[i] = packets[i + 1]
    BY <1>1, <1>2
  <1> QED
    BY <1>2, <1>3, <1>4, <1>5

LEMMA CloseFdType ==
  ASSUME TypeOK, NEW d, CloseFd(d)
  PROVE  owner' \in [Fds -> {"free", "udp", "other"}]
  <1>1. owner \in [Fds -> {"free", "udp", "other"}]
    BY DEF TypeOK
  <1> QED
    BY <1>1 DEF CloseFd

\* socket() finds a descriptor when there is a free one.
LEMMA LowestIsFree ==
  ASSUME FreeFds # {}
  PROVE  (CHOOSE d \in FreeFds : \A e \in FreeFds : d <= e) \in FreeFds
  <1>1. FreeFds \subseteq Nat
    BY ConstantsAssumption DEF FreeFds, Fds
  <1>2. PICK d \in FreeFds : \A e \in FreeFds : ~(<<e, d>> \in OpToRel(<, Nat))
    BY <1>1, NatLessThanWellFounded, WFMin
  <1>3. \A e \in FreeFds : ~(e < d)
    BY <1>1, <1>2 DEF OpToRel
  <1>4. \A e \in FreeFds : d <= e
    BY <1>1, <1>3
  <1> QED
    BY <1>4

-----------------------------------------------------------------------------
(* Type correctness. *)

LEMMA InitType == Init => TypeInv
  <1> SUFFICES ASSUME Init PROVE TypeInv
    OBVIOUS
  <1>1. owner \in [Fds -> {"free", "udp", "other"}]
    BY DEF Init
  <1>2. made \in [Openers -> Fds \cup {NoFd}]
    BY DEF Init
  <1>3. packets \in Seq(0..MaxPackets) /\ Len(packets) = 0
    BY DEF Init
  <1>4. ready \in BOOLEAN /\ crossed \in BOOLEAN
    BY DEF Init
  <1>5. got \in [Openers -> 0..MaxRetargets \cup {NoAddr}]
    BY DEF Init
  <1> QED
    BY <1>1, <1>2, <1>3, <1>4, <1>5, ConstantsAssumption
    DEF Init, TypeInv, TypeOK, Hands, NoPacket

LEMMA AudioType == ASSUME TypeInv, AudioTask PROVE TypeInv'
  <1> USE DEF TypeInv, TypeOK, Hands, socketVars, addrVars, udpVars, targetVars
  <1>1. CASE ReadSamples
    BY <1>1, ConstantsAssumption DEF ReadSamples
  <1>2. CASE PutPacket
    <2>1. CASE Len(packets) < QueueDepth
      <3>1. seq - 1 \in 0..MaxPackets
        BY <1>2, ConstantsAssumption DEF PutPacket
      <3>2. packets' \in Seq(0..MaxPackets) /\ Len(packets') = Len(packets) + 1
        <4>1. packets' = Append(packets, seq - 1)
          BY <1>2, <2>1 DEF PutPacket
        <4> QED
          BY <3>1, <4>1, QueueAppend
      <3> QED
        BY <1>2, <2>1, <3>2, ConstantsAssumption DEF PutPacket
    <2>2. CASE ~(Len(packets) < QueueDepth)
      BY <1>2, <2>2 DEF PutPacket
    <2> QED
      BY <2>1, <2>2
  <1>3. CASE Evict
    <2>1. CASE packets # <<>>
      <3>1. packets' \in Seq(0..MaxPackets) /\ Len(packets') = Len(packets) - 1
        BY <1>3, <2>1, QueueTail DEF Evict
      <3> QED
        BY <1>3, <2>1, <3>1, ConstantsAssumption DEF Evict
    <2>2. CASE packets = <<>>
      BY <1>3, <2>2 DEF Evict
    <2> QED
      BY <2>1, <2>2
  <1>4. CASE PutAgain
    <2>1. seq - 1 \in 0..MaxPackets
      BY <1>4, ConstantsAssumption DEF PutAgain
    <2>2. packets' \in Seq(0..MaxPackets) /\ Len(packets') = Len(packets) + 1
      BY <1>4, <2>1, QueueAppend DEF PutAgain
    <2> QED
      BY <1>4, <2>2, ConstantsAssumption DEF PutAgain
  <1> QED
    BY <1>1, <1>2, <1>3, <1>4 DEF AudioTask

LEMMA OpenType == ASSUME TypeInv, NEW o \in Openers, OpenSocket(o) PROVE TypeInv'
  <1> USE DEF TypeInv, TypeOK, Hands, OpenFrame, audioVars, addrVars, targetVars
  <1>1. o \in {"udp", "control"}
    BY DEF Openers
  <1>2. ASSUME NEW from \in {"open", "clear", "resolve", "copy", "socket", "assign"},
               At(o, from),
               NEW to \in {"clear", "resolve", "copy", "socket", "assign", Failed(o), Opened(o)},
               GoTo(o, to)
        PROVE  /\ upc' \in {"ready", "test", "open", "clear", "resolve", "copy", "socket",
                            "assign", "receive", "load", "send", "close", "forget"}
               /\ upc' \in {"load", "send"} <=> upc \in {"load", "send"}
               /\ cpc' \in {"idle", "open", "clear", "resolve", "copy", "socket", "assign"}
    BY <1>1, <1>2 DEF At, GoTo, Failed, Opened
  <1>3. CASE CloseOld(o)
    <2>1. owner' \in [Fds -> {"free", "udp", "other"}]
      BY <1>3, CloseFdType DEF CloseOld
    <2>2. GoTo(o, "clear") \/ GoTo(o, "resolve")
      BY <1>3 DEF CloseOld
    <2> QED
      BY <1>2, <1>3, <2>1, <2>2 DEF CloseOld
  <1>4. CASE ClearOld(o)
    BY <1>2, <1>4 DEF ClearOld
  <1>5. CASE ResolveFails(o)
    BY <1>2, <1>5 DEF ResolveFails, socketVars
  <1>6. CASE MakeSocket(o)
    <2> DEFINE lowest == CHOOSE d \in FreeFds : \A e \in FreeFds : d <= e
    <2>1. lowest \in Fds
      BY <1>6, LowestIsFree DEF MakeSocket, FreeFds
    <2>2. /\ owner' = [owner EXCEPT ![lowest] = "udp"]
          /\ made' = [made EXCEPT ![o] = lowest]
      BY <1>6 DEF MakeSocket
    <2> HIDE DEF lowest
    <2>3. /\ owner' \in [Fds -> {"free", "udp", "other"}]
          /\ made' \in [Openers -> Fds \cup {NoFd}]
      BY <2>1, <2>2
    <2> QED
      BY <1>2, <1>6, <2>3 DEF MakeSocket
  <1>7. CASE SocketFails(o)
    BY <1>2, <1>7 DEF SocketFails
  <1>8. CASE Assign(o)
    BY <1>2, <1>8 DEF Assign
  <1>9. CASE Resolve(o)
    <2>1. got' \in [Openers -> 0..MaxRetargets \cup {NoAddr}]
      BY <1>9 DEF Resolve
    <2> QED
      BY <1>2, <1>9, <2>1 DEF Resolve
  <1>10. CASE CopyAddress(o)
    <2>1. /\ got' \in [Openers -> 0..MaxRetargets \cup {NoAddr}]
          /\ addr' \in 0..MaxRetargets \cup {NoAddr}
      BY <1>10 DEF CopyAddress
    <2> QED
      BY <1>2, <1>10, <2>1 DEF CopyAddress
  <1> QED
    BY <1>3, <1>4, <1>5, <1>6, <1>7, <1>8, <1>9, <1>10 DEF OpenSocket

LEMMA UdpType == ASSUME TypeInv, UdpTask PROVE TypeInv'
  <1> USE DEF TypeInv, TypeOK, Hands, UdpFrame, audioVars, addrVars, targetVars
  <1>1. CASE TestReady
    BY <1>1 DEF TestReady
  <1>2. CASE TestSocket
    BY <1>2 DEF TestSocket
  <1>3. CASE OpenSocket("udp")
    BY <1>3, OpenType DEF Openers
  <1>4. CASE TakePacket
    <2>1. packets' \in Seq(0..MaxPackets) /\ Len(packets') = Len(packets) - 1
      BY <1>4, QueueTail DEF TakePacket
    <2>2. held' \in 0..MaxPackets /\ held' # NoPacket
      BY <1>4, QueueTail DEF TakePacket, NoPacket
    <2>3. Len(packets) \in Nat
      OBVIOUS
    <2> QED
      BY <1>4, <2>1, <2>2, <2>3, ConstantsAssumption DEF TakePacket
  <1>5. CASE NoPacketYet
    BY <1>5 DEF NoPacketYet
  <1>6. CASE LoadSocket
    BY <1>6 DEF LoadSocket
  <1>7. CASE SendOk
    BY <1>7 DEF SendOk
  <1>8. CASE SendFails
    BY <1>8 DEF SendFails
  <1>9. CASE CloseFailed
    <2>1. owner' \in [Fds -> {"free", "udp", "other"}]
      BY <1>9, CloseFdType DEF CloseFailed
    <2> QED
      BY <1>9, <2>1 DEF CloseFailed
  <1>10. CASE ForgetFailed
    BY <1>10 DEF ForgetFailed
  <1> QED
    BY <1>1, <1>2, <1>3, <1>4, <1>5, <1>6, <1>7, <1>8, <1>9, <1>10 DEF UdpTask

LEMMA EventType == ASSUME TypeInv, EventTask PROVE TypeInv'
  <1> USE DEF TypeInv, TypeOK, Hands, WifiFrame, audioVars, addrVars, udpVars, targetVars
  <1>1. CASE GotIp
    <2>1. ready' \in BOOLEAN
      BY <1>1 DEF GotIp
    <2> QED
      BY <1>1, <2>1 DEF GotIp
  <1>2. CASE Disconnected
    <2>1. ready' \in BOOLEAN
      BY <1>2 DEF Disconnected
    <2> QED
      BY <1>2, <2>1 DEF Disconnected
  <1>3. CASE CloseDisconnected
    <2>1. owner' \in [Fds -> {"free", "udp", "other"}]
      BY <1>3, CloseFdType DEF CloseDisconnected
    <2>2. wpc' \in {"idle", "close", "forget"}
      BY <1>3 DEF CloseDisconnected
    <2> QED
      BY <1>3, <2>1, <2>2 DEF CloseDisconnected
  <1>4. CASE ForgetDisconnected
    BY <1>4 DEF ForgetDisconnected
  <1> QED
    BY <1>1, <1>2, <1>3, <1>4 DEF EventTask

LEMMA NextType == ASSUME TypeInv, [Next]_vars PROVE TypeInv'
  <1> USE DEF TypeInv, TypeOK, Hands
  <1>1. CASE AudioTask
    BY <1>1, AudioType
  <1>2. CASE Retarget
    <2>1. crossed' \in BOOLEAN
      BY <1>2 DEF Retarget
    <2> QED
      BY <1>2, <2>1, ConstantsAssumption DEF Retarget, audioVars, socketVars, addrVars, udpVars
  <1>3. CASE OtherSocket
    <2>1. owner' \in [Fds -> {"free", "udp", "other"}]
      BY <1>3 DEF OtherSocket
    <2> QED
      BY <1>3, <2>1 DEF OtherSocket, audioVars, addrVars, udpVars, targetVars
  <1>4. CASE UNCHANGED vars
    BY <1>4 DEF vars, audioVars, socketVars, addrVars, udpVars, targetVars
  <1>5. "control" \in Openers
    BY DEF Openers
  <1> QED
    BY <1>1, <1>2, <1>3, <1>4, <1>5, UdpType, OpenType, EventType DEF Next

\* Every variable keeps its type, and the packet queue its bound: audio_task
\* never adds to a full queue, whatever udp_task takes from it meanwhile.
THEOREM TypeCorrect == Spec => []TypeOK
  <1>1. Init => TypeInv
    BY InitType
  <1>2. TypeInv /\ [Next]_vars => TypeInv'
    BY NextType
  <1>3. TypeInv => TypeOK
    BY DEF TypeInv
  <1> QED
    BY <1>1, <1>2, <1>3, PTL DEF Spec

-----------------------------------------------------------------------------
(* Counting. *)

LEMMA Counters ==
  ASSUME TypeOK
  PROVE  /\ seq \in Nat /\ dropped \in Nat /\ sent \in Nat /\ errors \in Nat
         /\ Len(packets) \in Nat /\ WithAudioTask \in Nat /\ WithUdpTask \in Nat
  <1>1. seq \in Nat /\ dropped \in Nat /\ sent \in Nat /\ errors \in Nat
    BY ConstantsAssumption DEF TypeOK
  <1>2. Len(packets) \in Nat
    BY DEF TypeOK
  <1>3. WithAudioTask \in Nat /\ WithUdpTask \in Nat
    BY DEF WithAudioTask, WithUdpTask, TypeOK
  <1> QED
    BY <1>1, <1>2, <1>3

LEMMA AudioCounts ==
  ASSUME TypeInv, EveryPacketCounted, AudioTask PROVE EveryPacketCounted'
  <1> USE DEF EveryPacketCounted
  <1>0. /\ seq \in Nat /\ dropped \in Nat /\ sent \in Nat /\ errors \in Nat
        /\ Len(packets) \in Nat /\ WithAudioTask \in Nat /\ WithUdpTask \in Nat
    BY Counters DEF TypeInv
  <1>1. /\ UNCHANGED <<sent, errors>>
        /\ WithUdpTask' = WithUdpTask
    BY DEF AudioTask, ReadSamples, PutPacket, Evict, PutAgain, udpVars,
           WithUdpTask
  <1>2. /\ apc \in {"put", "evict"} => WithAudioTask = 1
        /\ apc = "retry" => WithAudioTask = 2
        /\ apc = "test" => WithAudioTask = 0
        /\ apc' \in {"put", "evict"} => WithAudioTask' = 1
        /\ apc' = "retry" => WithAudioTask' = 2
        /\ apc' = "test" => WithAudioTask' = 0
    BY DEF WithAudioTask
  <1>3. apc \in {"put", "retry"} => seq - 1 \in 0..MaxPackets
    <2>1. apc \in {"put", "retry"} => seq >= 1
      BY DEF TypeInv, Hands
    <2>2. seq \in 0..MaxPackets
      BY DEF TypeInv, TypeOK
    <2> QED
      BY <2>1, <2>2, ConstantsAssumption
  <1>4. CASE ReadSamples
    BY <1>0, <1>1, <1>2, <1>4 DEF ReadSamples
  <1>5. CASE PutPacket
    <2>1. CASE Len(packets) < QueueDepth
      <3>1. apc = "put" /\ apc' = "test" /\ packets' = Append(packets, seq - 1)
            /\ UNCHANGED <<seq, dropped>>
        BY <1>5, <2>1 DEF PutPacket
      <3>2. Len(packets') = Len(packets) + 1
        BY <1>3, <3>1, QueueAppend DEF TypeInv
      <3> QED
        BY <1>0, <1>1, <1>2, <3>1, <3>2
    <2>2. CASE ~(Len(packets) < QueueDepth)
      BY <1>0, <1>1, <1>2, <1>5, <2>2 DEF PutPacket
    <2> QED
      BY <2>1, <2>2
  <1>6. CASE Evict
    <2>1. CASE packets # <<>>
      <3>1. Len(packets') = Len(packets) - 1
        BY <1>6, <2>1, QueueTail DEF Evict, TypeInv
      <3> QED
        BY <1>0, <1>1, <1>2, <1>6, <2>1, <3>1 DEF Evict
    <2>2. CASE packets = <<>>
      BY <1>0, <1>1, <1>2, <1>6, <2>2 DEF Evict
    <2> QED
      BY <2>1, <2>2
  <1>7. CASE PutAgain
    <2>1. Len(packets') = Len(packets) + 1
      BY <1>3, <1>7, QueueAppend DEF PutAgain, TypeInv
    <2>2. apc = "retry" /\ apc' = "test" /\ dropped' = dropped + 1 /\ UNCHANGED seq
      BY <1>7 DEF PutAgain
    <2> QED
      BY <1>0, <1>1, <1>2, <2>1, <2>2
  <1> QED
    BY <1>4, <1>5, <1>6, <1>7 DEF AudioTask

\* A step that leaves the queue and the counters alone, and each of the two
\* tasks with as much in its hands as before.
LEMMA CountsStay ==
  ASSUME EveryPacketCounted,
         UNCHANGED <<seq, apc, dropped, packets, sent, errors>>,
         upc' \in {"load", "send"} <=> upc \in {"load", "send"}
  PROVE  EveryPacketCounted'
  BY DEF EveryPacketCounted, WithAudioTask, WithUdpTask

LEMMA OpenHolds ==
  ASSUME NEW o \in Openers, OpenSocket(o)
  PROVE  /\ UNCHANGED <<audioVars, held, sendFd, sent, errors, lastOut, packets, ready,
                        wpc, retargets, crossed>>
         /\ upc' \in {"load", "send"} <=> upc \in {"load", "send"}
  BY DEF OpenSocket, CloseOld, ClearOld, Resolve, ResolveFails, CopyAddress, MakeSocket,
         SocketFails, Assign, targetVars, OpenFrame, At, GoTo, Failed, Opened, Openers

LEMMA UdpCounts ==
  ASSUME TypeInv, EveryPacketCounted, UdpTask PROVE EveryPacketCounted'
  <1> USE DEF UdpFrame, audioVars
  <1>0. /\ seq \in Nat /\ dropped \in Nat /\ sent \in Nat /\ errors \in Nat
        /\ Len(packets) \in Nat /\ WithAudioTask \in Nat /\ WithUdpTask \in Nat
    BY Counters DEF TypeInv
  <1>1. CASE OpenSocket("udp")
    BY <1>1, OpenHolds, CountsStay DEF Openers
  <1>2. CASE TakePacket
    <2>1. Len(packets') = Len(packets) - 1
      BY <1>2, QueueTail DEF TakePacket, TypeInv
    <2>2. WithUdpTask = 0 /\ WithUdpTask' = 1 /\ WithAudioTask' = WithAudioTask
      BY <1>2 DEF TakePacket, WithUdpTask, WithAudioTask
    <2>3. UNCHANGED <<seq, dropped, sent, errors>>
      BY <1>2 DEF TakePacket
    <2> QED
      BY <1>0, <2>1, <2>2, <2>3 DEF EveryPacketCounted
  <1>3. CASE SendOk \/ SendFails
    <2>1. WithUdpTask = 1 /\ WithUdpTask' = 0 /\ WithAudioTask' = WithAudioTask
      BY <1>3 DEF SendOk, SendFails, WithUdpTask, WithAudioTask
    <2>2. /\ UNCHANGED <<seq, dropped, packets>>
          /\ \/ sent' = sent + 1 /\ UNCHANGED errors
             \/ errors' = errors + 1 /\ UNCHANGED sent
      BY <1>3 DEF SendOk, SendFails
    <2> QED
      BY <1>0, <2>1, <2>2 DEF EveryPacketCounted
  <1>4. CASE TestReady \/ TestSocket \/ NoPacketYet \/ LoadSocket
    BY <1>4, CountsStay DEF TestReady, TestSocket, NoPacketYet, LoadSocket
  <1>5. CASE CloseFailed \/ ForgetFailed
    BY <1>5, CountsStay DEF CloseFailed, ForgetFailed
  <1> QED
    BY <1>1, <1>2, <1>3, <1>4, <1>5 DEF UdpTask

\* Every packet that was numbered is in the queue, in a task's hands, or counted
\* once, as sent, as an error or as dropped.
THEOREM PacketsAreCounted == Spec => []EveryPacketCounted
  <1>1. Init => TypeInv /\ EveryPacketCounted
    BY InitType DEF Init, EveryPacketCounted, WithAudioTask, WithUdpTask
  <1>2. TypeInv /\ EveryPacketCounted /\ [Next]_vars => (TypeInv /\ EveryPacketCounted)'
    <2> SUFFICES ASSUME TypeInv, EveryPacketCounted, [Next]_vars
                 PROVE  EveryPacketCounted'
      BY NextType
    <2>1. CASE OpenSocket("control")
      BY <2>1, OpenHolds, CountsStay DEF Openers, audioVars
    <2>2. CASE Retarget \/ OtherSocket
      BY <2>2, CountsStay DEF Retarget, OtherSocket, audioVars, udpVars
    <2>3. CASE EventTask
      BY <2>3, CountsStay DEF EventTask, GotIp, Disconnected, CloseDisconnected,
         ForgetDisconnected, WifiFrame, audioVars, udpVars
    <2>4. CASE UNCHANGED vars
      BY <2>4, CountsStay DEF vars, audioVars, udpVars
    <2> QED
      BY <2>1, <2>2, <2>3, <2>4, AudioCounts, UdpCounts DEF Next
  <1> QED
    BY <1>1, <1>2, PTL DEF Spec

-----------------------------------------------------------------------------
(* Order. *)

\* The number of the next packet to enter the queue.
Upcoming == IF apc \in {"put", "evict", "retry"} THEN seq - 1 ELSE seq

\* On their way from audio_task to the network packets are in order: those that
\* went out, the one in udp_task's hands, the queue, the next to come.
Ordered ==
    /\ lastOut < Upcoming
    /\ \A i \in 1..Len(packets) : lastOut < packets[i] /\ packets[i] < Upcoming
    /\ \A i, k \in 1..Len(packets) : i < k => packets[i] < packets[k]
    /\ held # NoPacket =>
          /\ lastOut < held /\ held < Upcoming
          /\ \A i \in 1..Len(packets) : held < packets[i]

LEMMA OrderTypes ==
  ASSUME TypeInv
  PROVE  /\ lastOut \in Int /\ held \in Int /\ Upcoming \in Int /\ seq \in Int
         /\ Len(packets) \in Nat
         /\ \A i \in 1..Len(packets) : packets[i] \in Int
  <1>1. lastOut \in Int /\ held \in Int /\ seq \in Int
    BY ConstantsAssumption DEF TypeInv, TypeOK, NoPacket
  <1>2. Upcoming \in Int
    BY <1>1 DEF Upcoming
  <1>3. packets \in Seq(0..MaxPackets)
    BY DEF TypeInv, TypeOK
  <1>4. Len(packets) \in Nat
    BY <1>3
  <1>5. \A i \in 1..Len(packets) : packets[i] \in Int
    <2> SUFFICES ASSUME NEW i \in 1..Len(packets) PROVE packets[i] \in Int
      OBVIOUS
    <2>1. packets[i] \in 0..MaxPackets
      BY <1>3, ElementOfSeq
    <2> QED
      BY <2>1
  <1> QED
    BY <1>1, <1>2, <1>4, <1>5

\* The order stays when a packet is added that is the upcoming one.
LEMMA OrderAppend ==
  ASSUME TypeInv, Ordered, apc \in {"put", "retry"}, apc' = "test",
         packets' = Append(packets, seq - 1), UNCHANGED <<seq, held, lastOut>>
  PROVE  Ordered'
  <1> DEFINE n == Len(packets)
  <1>1. Upcoming = seq - 1 /\ Upcoming' = seq
    BY DEF Upcoming
  <1>2. seq - 1 \in 0..MaxPackets
    <2>1. seq >= 1 /\ seq \in 0..MaxPackets
      BY DEF TypeInv, TypeOK, Hands
    <2> QED
      BY <2>1, ConstantsAssumption
  <1>3. /\ Len(packets') = n + 1
        /\ packets'[n + 1] = seq - 1
        /\ \A i \in 1..n : packets'[i] = packets[i]
    BY <1>2, QueueAppend DEF TypeInv
  <1>4. /\ lastOut \in Int /\ held \in Int /\ seq \in Int /\ n \in Nat
        /\ \A i \in 1..n : packets[i] \in Int
    BY OrderTypes
  <1>5. \A i \in 1..n + 1 : i \in 1..n \/ i = n + 1
    BY <1>4
  <1> HIDE DEF n
  <1>6. \A i \in 1..n : lastOut < packets[i] /\ packets[i] < seq - 1
    BY <1>1 DEF Ordered, n
  <1>7. lastOut < seq - 1 /\ (held # NoPacket => lastOut < held /\ held < seq - 1)
    BY <1>1 DEF Ordered
  <1>8. \A i \in 1..n + 1 : lastOut < packets'[i] /\ packets'[i] < seq
    BY <1>3, <1>4, <1>5, <1>6, <1>7
  <1>9. \A i, k \in 1..n + 1 : i < k => packets'[i] < packets'[k]
    <2> SUFFICES ASSUME NEW i \in 1..n + 1, NEW k \in 1..n + 1, i < k
                 PROVE  packets'[i] < packets'[k]
      OBVIOUS
    <2>1. i \in 1..n /\ packets'[i] = packets[i]
      BY <1>3, <1>4
    <2>2. CASE k \in 1..n
      BY <1>3, <2>1, <2>2 DEF Ordered, n
    <2>3. CASE k = n + 1
      BY <1>3, <1>6, <2>1, <2>3
    <2> QED
      BY <1>5, <2>2, <2>3
  <1>10. held # NoPacket => \A i \in 1..n + 1 : held < packets'[i]
    <2>1. held # NoPacket => \A i \in 1..n : held < packets[i]
      BY DEF Ordered, n
    <2> QED
      BY <1>3, <1>5, <1>7, <2>1
  <1>11. lastOut < seq /\ (held # NoPacket => held < seq)
    BY <1>4, <1>7
  <1> QED
    BY <1>1, <1>3, <1>7, <1>8, <1>9, <1>10, <1>11 DEF Ordered

\* Nor does it matter which of the two tasks takes the oldest packet.
LEMMA OrderTail ==
  ASSUME TypeInv, Ordered, packets # <<>>, packets' = Tail(packets)
  PROVE  /\ \A i \in 1..Len(packets') :
              /\ packets'[i] \in Int
              /\ lastOut < packets'[i] /\ packets'[i] < Upcoming
              /\ held # NoPacket => held < packets'[i]
              /\ Head(packets) < packets'[i]
         /\ \A i, k \in 1..Len(packets') : i < k => packets'[i] < packets'[k]
         /\ lastOut < Head(packets) /\ Head(packets) < Upcoming
  <1> DEFINE n == Len(packets)
  <1>1. /\ n \in Nat /\ n >= 1
        /\ Head(packets) = packets[1]
        /\ Len(packets') = n - 1
        /\ \A i \in 1..n - 1 : packets'[i] = packets[i + 1]
    BY QueueTail DEF TypeInv
  <1>2. \A i \in 1..n : packets[i] \in Int
    BY OrderTypes
  <1>3. /\ \A i \in 1..n : lastOut < packets[i] /\ packets[i] < Upcoming
        /\ \A i, k \in 1..n : i < k => packets[i] < packets[k]
        /\ held # NoPacket => \A i \in 1..n : held < packets[i]
    BY DEF Ordered
  <1> HIDE DEF n
  <1>4. \A i \in 1..n - 1 : i + 1 \in 1..n /\ 1 < i + 1
    BY <1>1
  <1>5. 1 \in 1..n
    BY <1>1
  <1>6. \A i, k \in 1..n - 1 : i < k => packets'[i] < packets'[k]
    <2> SUFFICES ASSUME NEW i \in 1..n - 1, NEW k \in 1..n - 1, i < k
                 PROVE  packets'[i] < packets'[k]
      OBVIOUS
    <2>1. i + 1 < k + 1
      BY <1>1
    <2> QED
      BY <1>1, <1>3, <1>4, <2>1
  <1>7. \A i \in 1..n - 1 :
          /\ packets'[i] \in Int
          /\ lastOut < packets'[i] /\ packets'[i] < Upcoming
          /\ held # NoPacket => held < packets'[i]
          /\ Head(packets) < packets'[i]
    BY <1>1, <1>2, <1>3, <1>4, <1>5
  <1> QED
    BY <1>1, <1>3, <1>5, <1>6, <1>7

LEMMA OrderStays ==
  ASSUME Ordered, UNCHANGED <<seq, apc, packets, held, lastOut>> PROVE Ordered'
  BY DEF Ordered, Upcoming

LEMMA AudioOrder == ASSUME TypeInv, Ordered, AudioTask PROVE Ordered'
  <1>1. UNCHANGED <<held, lastOut>>
    BY DEF AudioTask, ReadSamples, PutPacket, Evict, PutAgain, udpVars
  <1>2. ASSUME UNCHANGED packets, Upcoming' = Upcoming PROVE Ordered'
    BY <1>1, <1>2 DEF Ordered
  <1>3. CASE ReadSamples
    <2>1. seq \in Int
      BY OrderTypes
    <2>2. Upcoming' = Upcoming
      BY <1>3, <2>1 DEF ReadSamples, Upcoming
    <2> QED
      BY <1>2, <1>3, <2>2 DEF ReadSamples
  <1>4. CASE PutPacket
    <2>1. CASE Len(packets) < QueueDepth
      BY <1>1, <1>4, <2>1, OrderAppend DEF PutPacket
    <2>2. CASE ~(Len(packets) < QueueDepth)
      BY <1>2, <1>4, <2>2 DEF PutPacket, Upcoming
    <2> QED
      BY <2>1, <2>2
  <1>5. CASE Evict
    <2>1. CASE packets # <<>>
      <3>1. Upcoming' = Upcoming /\ packets' = Tail(packets)
        BY <1>5, <2>1 DEF Evict, Upcoming
      <3> QED
        BY <1>1, <2>1, <3>1, OrderTail DEF Ordered
    <2>2. CASE packets = <<>>
      <3>1. Len(packets) = 0 /\ Len(packets') = 0
        BY <1>5, <2>2 DEF Evict
      <3>2. Upcoming = seq - 1 /\ Upcoming' = seq
        BY <1>5, <2>2 DEF Evict, Upcoming
      <3>3. lastOut \in Int /\ held \in Int /\ seq \in Int
        BY OrderTypes
      <3>4. lastOut < seq /\ (held # NoPacket => lastOut < held /\ held < seq)
        BY <3>2, <3>3 DEF Ordered
      <3> QED
        BY <1>1, <3>1, <3>2, <3>4 DEF Ordered
    <2> QED
      BY <2>1, <2>2
  <1>6. CASE PutAgain
    BY <1>1, <1>6, OrderAppend DEF PutAgain
  <1> QED
    BY <1>3, <1>4, <1>5, <1>6 DEF AudioTask

LEMMA UdpOrder ==
  ASSUME TypeInv, Ordered, UdpTask PROVE Ordered' /\ (sent' # sent => lastOut' > lastOut)
  <1> USE DEF UdpFrame, audioVars
  <1>1. CASE OpenSocket("udp")
    BY <1>1, OpenHolds, OrderStays DEF Openers
  <1>2. CASE TakePacket
    <2>1. /\ packets # <<>> /\ packets' = Tail(packets) /\ held' = Head(packets)
          /\ UNCHANGED <<seq, apc, lastOut, sent>>
      BY <1>2 DEF TakePacket
    <2>2. Upcoming' = Upcoming
      BY <2>1 DEF Upcoming
    <2> QED
      BY <2>1, <2>2, OrderTail DEF Ordered
  <1>3. CASE SendOk
    <2>1. held # NoPacket
      BY <1>3 DEF SendOk, TypeInv, Hands
    <2>2. lastOut' = held /\ held' = NoPacket /\ UNCHANGED <<seq, apc, packets>>
      BY <1>3 DEF SendOk
    <2>3. Upcoming' = Upcoming
      BY <2>2 DEF Upcoming
    <2>4. lastOut < held
      BY <2>1 DEF Ordered
    <2>5. lastOut' > lastOut
      BY <2>2, <2>4, OrderTypes
    <2> QED
      BY <2>1, <2>2, <2>3, <2>5 DEF Ordered
  <1>4. CASE SendFails
    BY <1>4 DEF SendFails, Ordered, Upcoming
  <1>5. CASE TestReady \/ TestSocket \/ NoPacketYet \/ LoadSocket
    BY <1>5, OrderStays DEF TestReady, TestSocket, NoPacketYet, LoadSocket
  <1>6. CASE CloseFailed \/ ForgetFailed
    BY <1>6, OrderStays DEF CloseFailed, ForgetFailed
  <1> QED
    BY <1>1, <1>2, <1>3, <1>4, <1>5, <1>6 DEF UdpTask

LEMMA NextOrder ==
  ASSUME TypeInv, Ordered, [Next]_vars
  PROVE  Ordered' /\ (sent' # sent => lastOut' > lastOut)
  <1>1. CASE AudioTask
    <2>1. UNCHANGED sent
      BY <1>1 DEF AudioTask, ReadSamples, PutPacket, Evict, PutAgain, udpVars
    <2> QED
      BY <1>1, <2>1, AudioOrder
  <1>2. CASE OpenSocket("control")
    BY <1>2, OpenHolds, OrderStays DEF Openers, audioVars
  <1>3. CASE Retarget \/ OtherSocket
    BY <1>3, OrderStays DEF Retarget, OtherSocket, audioVars, udpVars
  <1>4. CASE EventTask
    BY <1>4, OrderStays DEF EventTask, GotIp, Disconnected, CloseDisconnected,
       ForgetDisconnected, WifiFrame, audioVars, udpVars
  <1>5. CASE UNCHANGED vars
    BY <1>5, OrderStays DEF vars, audioVars, udpVars
  <1> QED
    BY <1>1, <1>2, <1>3, <1>4, <1>5, UdpOrder DEF Next

\* Packets go out in the order they were made and none twice, though audio_task
\* and udp_task both take packets from the head of the queue.
THEOREM PacketsLeaveInOrder == Spec => LeavesInOrder
  <1>1. Init => TypeInv /\ Ordered
    <2>1. ASSUME Init PROVE Ordered
      <3>1. Len(packets) = 0
        BY <2>1 DEF Init
      <3> QED
        BY <2>1, <3>1 DEF Init, Ordered, Upcoming, NoPacket
    <2> QED
      BY <2>1, InitType
  <1>2. TypeInv /\ Ordered /\ [Next]_vars => (TypeInv /\ Ordered)'
    BY NextType, NextOrder
  <1>3. TypeInv /\ Ordered /\ [Next]_vars => [sent' # sent => lastOut' > lastOut]_vars
    BY NextOrder
  <1> QED
    BY <1>1, <1>2, <1>3, PTL DEF Spec, LeavesInOrder

-----------------------------------------------------------------------------
(* The socket. *)

\* Where a task may be in open_socket.
Opening == {"open", "clear", "resolve", "copy", "socket", "assign"}

\* The sockets of the streamer that no task can name any more.
Lost == {d \in Fds : owner[d] = "udp" /\ d \notin {fd, made["udp"], made["control"]}}

\* The descriptor is that of an open socket, which the control task has not just
\* made: who overwrites s_socket_fd now loses it.
FdOpen == fd # NoFd /\ owner[fd] = "udp" /\ fd # made["control"]
FdLost == FdOpen /\ fd # made["udp"]

\* What can still be lost before a further command comes. The control task may
\* overwrite the descriptor twice: where it forgets the socket it has closed, if
\* another was opened in between, and where it assigns its own.
ControlMayLose == CASE cpc = "idle" -> 0 [] cpc \in {"open", "clear"} -> 2 [] OTHER -> 1

\* udp_task, where it assigns its own, or forgets the one on which a send failed.
UdpMayLose ==
    \/ /\ upc \in Opening
       /\ fd # NoFd
       /\ ~(wpc = "forget" /\ FdOpen /\ fd = made["udp"])
    \/ upc = "forget" /\ FdOpen /\ wpc # "forget"

\* The event task, where it forgets the one it has closed.
EventMayLose ==
    /\ wpc = "forget"
    /\ \/ FdOpen
       \/ fd = NoFd /\ upc \in Opening \cup {"test"}

MayLose ==
    ControlMayLose + (IF UdpMayLose THEN 1 ELSE 0) + (IF EventMayLose THEN 1 ELSE 0)

\* A task has a socket in hand between making and assigning it. udp_task does not
\* start to open while a disconnect is being handled, since there is no network.
Handles ==
    /\ made["udp"] # NoFd <=> upc = "assign"
    /\ made["control"] # NoFd <=> cpc = "assign"
    /\ wpc # "idle" => ~ready

LossBound == Cardinality(Lost) + MayLose <= 2 * retargets

SocketInv == Handles /\ LossBound

LEMMA NoFdIsNone == NoFd \notin Fds
  BY ConstantsAssumption DEF Fds, NoFd

LEMMA SocketTypes ==
  ASSUME TypeInv
  PROVE  /\ fd \in Fds \cup {NoFd}
         /\ made["udp"] \in Fds \cup {NoFd} /\ made["control"] \in Fds \cup {NoFd}
         /\ owner \in [Fds -> {"free", "udp", "other"}]
         /\ ControlMayLose \in 0..2 /\ MayLose \in 0..4
         /\ retargets \in Nat
  <1>1. ControlMayLose \in 0..2
    BY DEF ControlMayLose, TypeInv, TypeOK
  <1> QED
    BY <1>1, ConstantsAssumption DEF TypeInv, TypeOK, MayLose, Openers

LEMMA LostIsFinite == IsFiniteSet(Lost) /\ Cardinality(Lost) \in Nat
  <1>1. IsFiniteSet(Fds)
    BY ConstantsAssumption, FS_Interval DEF Fds
  <1>2. Lost \subseteq Fds
    BY DEF Lost
  <1> QED
    BY <1>1, <1>2, FS_Subset, FS_CardinalityType

\* A step keeps the bound if what it loses was counted as what may be lost.
LEMMA BoundStays ==
  ASSUME TypeInv, TypeInv', LossBound, UNCHANGED retargets,
         \/ Lost' \subseteq Lost /\ MayLose' <= MayLose
         \/ Lost' \subseteq Lost \cup {fd} /\ MayLose' < MayLose
  PROVE  LossBound'
  <1>1. /\ Cardinality(Lost) \in Nat /\ MayLose \in Nat /\ MayLose' \in Nat
        /\ retargets \in Nat
    <2>1. MayLose' \in Nat
      BY DEF MayLose, ControlMayLose
    <2> QED
      BY <2>1, SocketTypes, LostIsFinite
  <1>2. CASE Lost' \subseteq Lost /\ MayLose' <= MayLose
    <2>1. Cardinality(Lost') <= Cardinality(Lost) /\ Cardinality(Lost') \in Nat
      BY <1>2, LostIsFinite, FS_Subset, FS_CardinalityType
    <2> QED
      BY <1>1, <1>2, <2>1 DEF LossBound
  <1>3. CASE Lost' \subseteq Lost \cup {fd} /\ MayLose' < MayLose
    <2>1. /\ IsFiniteSet(Lost \cup {fd})
          /\ Cardinality(Lost \cup {fd}) \in {Cardinality(Lost), Cardinality(Lost) + 1}
      BY LostIsFinite, FS_AddElement
    <2>2. /\ Cardinality(Lost') <= Cardinality(Lost \cup {fd})
          /\ Cardinality(Lost') \in Nat
      BY <1>3, <2>1, FS_Subset, FS_CardinalityType
    <2> QED
      BY <1>1, <1>3, <2>1, <2>2 DEF LossBound
  <1> QED
    BY <1>2, <1>3

\* A step that writes s_socket_fd.
LEMMA OverwriteKeeps ==
  ASSUME TypeInv, TypeInv', LossBound, UNCHANGED <<owner, retargets>>,
         fd' \in {NoFd, made["udp"], made["control"]},
         \A o \in Openers : made'[o] = made[o] \/ fd' = made[o],
         MayLose' <= MayLose, FdLost => MayLose' < MayLose
  PROVE  LossBound'
  <1>1. \A d \in Lost' : d \in Lost \/ (d = fd /\ FdLost)
    BY NoFdIsNone DEF Lost, FdLost, FdOpen, Openers
  <1>2. CASE FdLost
    BY <1>1, <1>2, BoundStays
  <1>3. CASE ~FdLost
    BY <1>1, <1>3, BoundStays
  <1> QED
    BY <1>2, <1>3

\* A step that leaves s_socket_fd alone, and makes no socket.
LEMMA NothingLost ==
  ASSUME TypeInv, TypeInv', LossBound, UNCHANGED <<fd, made, retargets>>,
         \A d \in Fds : owner'[d] = "udp" => owner[d] = "udp",
         MayLose' <= MayLose
  PROVE  LossBound'
  <1>1. Lost' \subseteq Lost
    BY DEF Lost
  <1> QED
    BY <1>1, BoundStays

\* Closing makes no UDP sockets, and closes the one that is known.
LEMMA CloseCloses ==
  ASSUME TypeInv, NEW e, CloseFd(e)
  PROVE  /\ \A d \in Fds : owner'[d] = "udp" => owner[d] = "udp"
         /\ e \in Fds => owner'[e] # "udp"
  <1>1. owner \in [Fds -> {"free", "udp", "other"}]
    BY DEF TypeInv, TypeOK
  <1> QED
    BY <1>1 DEF CloseFd

LEMMA OpenHandles ==
  ASSUME TypeInv, Handles, NEW o \in Openers, OpenSocket(o) PROVE Handles'
  <1> USE DEF Handles, At, GoTo, Failed, Opened, OpenFrame, Openers
  <1>1. made \in [Openers -> Fds \cup {NoFd}]
    BY DEF TypeInv, TypeOK
  <1>2. UNCHANGED <<ready, wpc>>
    BY OpenHolds
  <1>3. CASE MakeSocket(o)
    <2>1. PICK new \in Fds : made' = [made EXCEPT ![o] = new]
      <3>1. FreeFds # {} /\ FreeFds \subseteq Fds
        BY <1>3 DEF MakeSocket, FreeFds
      <3> QED
        BY <1>3, <3>1, LowestIsFree DEF MakeSocket
    <2>2. /\ made'[o] # NoFd
          /\ \A q \in Openers : q # o => made'[q] = made[q]
      BY <1>1, <2>1, NoFdIsNone
    <2> QED
      BY <1>2, <1>3, <2>2 DEF MakeSocket
  <1>4. CASE Assign(o)
    BY <1>1, <1>2, <1>4 DEF Assign
  <1>5. CASE CloseOld(o)
    <2>1. UNCHANGED made /\ (GoTo(o, "clear") \/ GoTo(o, "resolve"))
      BY <1>5 DEF CloseOld
    <2> QED
      BY <1>2, <1>5, <2>1 DEF CloseOld
  <1>6. CASE ResolveFails(o) \/ ClearOld(o)
    BY <1>2, <1>6 DEF ResolveFails, ClearOld, socketVars
  <1>7. CASE Resolve(o) \/ CopyAddress(o) \/ SocketFails(o)
    BY <1>2, <1>7 DEF Resolve, CopyAddress, SocketFails
  <1> QED
    BY <1>3, <1>4, <1>5, <1>6, <1>7 DEF OpenSocket

LEMMA OpenBound ==
  ASSUME TypeInv, TypeInv', SocketInv, NEW o \in Openers, OpenSocket(o) PROVE LossBound'
  <1> USE DEF At, GoTo, Failed, Opened
  <1>1. /\ Handles /\ LossBound
        /\ UNCHANGED <<retargets, wpc>>
        /\ o \in {"udp", "control"}
    BY OpenHolds DEF SocketInv, Openers
  <1>2. /\ fd \in Fds \cup {NoFd}
        /\ owner \in [Fds -> {"free", "udp", "other"}]
        /\ made \in [Openers -> Fds \cup {NoFd}]
    BY DEF TypeInv, TypeOK
  <1>3. CASE CloseOld(o)
    <2>1. CASE fd = NoFd
      <3>1. UNCHANGED <<owner, fd, made>>
        BY <1>3, <2>1 DEF CloseOld
      <3>2. MayLose' <= MayLose
        BY <1>1, <1>3, <2>1, <3>1 DEF CloseOld, MayLose, ControlMayLose, UdpMayLose,
           EventMayLose, FdOpen, Opening
      <3> QED
        BY <1>1, <3>1, <3>2, NothingLost
    <2>2. CASE fd # NoFd
      <3>1. UNCHANGED <<fd, made>> /\ CloseFd(fd)
        BY <1>3, <2>2 DEF CloseOld
      <3>2. /\ \A d \in Fds : owner'[d] = "udp" => owner[d] = "udp"
            /\ owner'[fd] # "udp"
        BY <1>2, <2>2, <3>1, CloseCloses
      <3>3. MayLose' <= MayLose
        BY <1>1, <1>3, <2>2, <3>1, <3>2 DEF CloseOld, MayLose, ControlMayLose, UdpMayLose,
           EventMayLose, FdOpen, Opening
      <3> QED
        BY <1>1, <3>1, <3>2, <3>3, NothingLost
    <2> QED
      BY <2>1, <2>2
  <1>4. CASE ClearOld(o) \/ SocketFails(o)
    <2>1. UNCHANGED <<owner, made>> /\ fd' = NoFd
      BY <1>4 DEF ClearOld, SocketFails
    <2>2. MayLose' <= MayLose /\ (FdLost => MayLose' < MayLose)
      BY <1>1, <1>4, <2>1 DEF ClearOld, SocketFails, MayLose, ControlMayLose, UdpMayLose,
         EventMayLose, FdOpen, FdLost, Opening, Handles
    <2> QED
      BY <1>1, <2>1, <2>2, OverwriteKeeps
  <1>5. CASE Resolve(o) \/ ResolveFails(o) \/ CopyAddress(o)
    <2>1. UNCHANGED <<owner, fd, made>>
      BY <1>5 DEF Resolve, ResolveFails, CopyAddress, socketVars
    <2>2. MayLose' <= MayLose
      BY <1>1, <1>5, <2>1 DEF Resolve, ResolveFails, CopyAddress, MayLose, ControlMayLose,
         UdpMayLose, EventMayLose, FdOpen, Opening, Handles
    <2> QED
      BY <1>1, <2>1, <2>2, NothingLost
  <1>6. CASE MakeSocket(o)
    <2>1. PICK new \in Fds : /\ owner' = [owner EXCEPT ![new] = "udp"]
                             /\ made' = [made EXCEPT ![o] = new]
      <3>1. FreeFds # {} /\ FreeFds \subseteq Fds
        BY <1>6 DEF MakeSocket, FreeFds
      <3> QED
        BY <1>6, <3>1, LowestIsFree DEF MakeSocket
    <2>2. /\ UNCHANGED fd
          /\ made'[o] = new /\ made[o] = NoFd
          /\ \A q \in Openers : q # o => made'[q] = made[q]
          /\ owner'[new] = "udp" /\ new # NoFd
          /\ \A d \in Fds : d # new => owner'[d] = owner[d]
      BY <1>1, <1>2, <1>6, <2>1, NoFdIsNone DEF MakeSocket, Handles
    <2>3. Lost' \subseteq Lost
      BY <1>1, <2>2, NoFdIsNone DEF Lost, Openers
    <2>4. MayLose' <= MayLose
      <3>1. CASE o = "udp"
        <4>1. /\ upc = "socket" /\ upc' = "assign" /\ UNCHANGED cpc
              /\ made["udp"] = NoFd /\ made'["udp"] = new
              /\ made'["control"] = made["control"]
          BY <1>6, <2>2, <3>1 DEF MakeSocket, Openers
        <4> QED
          BY <1>1, <1>2, <2>2, <4>1 DEF MayLose, ControlMayLose, UdpMayLose, EventMayLose,
             FdOpen, Opening
      <3>2. CASE o = "control"
        <4>1. /\ cpc = "socket" /\ cpc' = "assign" /\ UNCHANGED upc
              /\ made["control"] = NoFd /\ made'["control"] = new
              /\ made'["udp"] = made["udp"]
          BY <1>6, <2>2, <3>2 DEF MakeSocket, Openers
        <4> QED
          BY <1>1, <1>2, <2>2, <4>1 DEF MayLose, ControlMayLose, UdpMayLose, EventMayLose,
             FdOpen, Opening
      <3> QED
        BY <1>1, <3>1, <3>2
    <2> QED
      BY <1>1, <2>3, <2>4, BoundStays
  <1>7. CASE Assign(o)
    <2>1. /\ UNCHANGED owner
          /\ fd' = made[o] /\ made'[o] = NoFd
          /\ \A q \in Openers : q # o => made'[q] = made[q]
          /\ made[o] # NoFd
      BY <1>1, <1>2, <1>7 DEF Assign, Handles
    <2>2. MayLose' <= MayLose /\ (FdLost => MayLose' < MayLose)
      <3>1. CASE o = "udp"
        <4>1. /\ upc = "assign" /\ upc' = "receive" /\ UNCHANGED cpc
              /\ fd' = made["udp"] /\ made'["control"] = made["control"]
          BY <1>7, <2>1, <3>1 DEF Assign, Openers
        <4> QED
          BY <1>1, <2>1, <4>1 DEF MayLose, ControlMayLose, UdpMayLose, EventMayLose,
             FdOpen, FdLost, Opening
      <3>2. CASE o = "control"
        <4>1. /\ cpc = "assign" /\ cpc' = "idle" /\ UNCHANGED upc
              /\ fd' = made["control"] /\ made'["control"] = NoFd
              /\ made'["udp"] = made["udp"]
          BY <1>7, <2>1, <3>2 DEF Assign, Openers
        <4> QED
          BY <1>1, <2>1, <4>1 DEF MayLose, ControlMayLose, UdpMayLose, EventMayLose,
             FdOpen, FdLost, Opening, Handles
      <3> QED
        BY <1>1, <3>1, <3>2
    <2> QED
      BY <1>1, <2>1, <2>2, OverwriteKeeps DEF Openers
  <1> QED
    BY <1>3, <1>4, <1>5, <1>6, <1>7 DEF OpenSocket

\* A step that leaves the descriptor, the table and open_socket alone.
LEMMA SocketStays ==
  ASSUME TypeInv, TypeInv', SocketInv,
         UNCHANGED <<fd, made, cpc, wpc, retargets>>, UNCHANGED ready \/ wpc = "idle",
         \A d \in Fds : owner'[d] = "udp" <=> owner[d] = "udp",
         \/ UNCHANGED upc
         \/ /\ upc' \notin Opening /\ upc \notin Opening
            /\ upc' # "test" /\ upc' # "forget" /\ upc # "forget"
  PROVE  SocketInv'
  <1>1. Handles'
    BY DEF SocketInv, Handles, Opening
  <1>2. MayLose' <= MayLose
    BY SocketTypes DEF MayLose, ControlMayLose, UdpMayLose, EventMayLose, FdOpen, Opening
  <1> QED
    BY <1>1, <1>2, NothingLost DEF SocketInv

LEMMA UdpSocket == ASSUME TypeInv, TypeInv', SocketInv, UdpTask PROVE SocketInv'
  <1> USE DEF UdpFrame, audioVars
  <1>1. CASE OpenSocket("udp")
    BY <1>1, OpenHandles, OpenBound DEF SocketInv, Openers
  <1>2. CASE TestReady
    <2>1. wpc = "idle" /\ UNCHANGED <<fd, made, owner, cpc, wpc, retargets>>
      BY <1>2 DEF TestReady, SocketInv, Handles, targetVars
    <2>2. MayLose' <= MayLose
      BY <1>2, <2>1 DEF TestReady, MayLose, ControlMayLose, UdpMayLose, EventMayLose,
         Opening, FdOpen
    <2> QED
      BY <1>2, <2>1, <2>2, NothingLost DEF TestReady, SocketInv, Handles
  <1>3. CASE TestSocket
    <2>1. UNCHANGED <<fd, made, owner, cpc, wpc, ready, retargets>>
      BY <1>3 DEF TestSocket, targetVars
    <2>2. MayLose' <= MayLose
      BY <1>3, <2>1 DEF TestSocket, MayLose, ControlMayLose, UdpMayLose, EventMayLose,
         Opening, FdOpen
    <2> QED
      BY <1>3, <2>1, <2>2, NothingLost DEF TestSocket, SocketInv, Handles
  <1>4. CASE TakePacket \/ NoPacketYet \/ LoadSocket
    BY <1>4, SocketStays DEF TakePacket, NoPacketYet, LoadSocket, Opening, targetVars
  <1>5. CASE SendOk \/ SendFails
    BY <1>5, SocketStays DEF SendOk, SendFails, Opening, targetVars
  <1>6. CASE CloseFailed
    <2>1. /\ upc = "close" /\ upc' = "forget"
          /\ UNCHANGED <<fd, made, cpc, wpc, ready, retargets>>
      BY <1>6 DEF CloseFailed, targetVars
    <2>2. /\ \A d \in Fds : owner'[d] = "udp" => owner[d] = "udp"
          /\ fd \in Fds => owner'[fd] # "udp"
      BY <1>6, CloseCloses DEF CloseFailed
    <2>3. MayLose' <= MayLose
      BY <2>1, <2>2, SocketTypes DEF MayLose, ControlMayLose, UdpMayLose, EventMayLose,
         Opening, FdOpen
    <2> QED
      BY <2>1, <2>2, <2>3, NothingLost DEF SocketInv, Handles
  <1>7. CASE ForgetFailed
    <2>1. /\ upc = "forget" /\ upc' = "ready" /\ fd' = NoFd
          /\ UNCHANGED <<owner, made, cpc, wpc, ready, retargets>>
      BY <1>7 DEF ForgetFailed, targetVars
    <2>2. ControlMayLose' = ControlMayLose
      BY <2>1 DEF ControlMayLose
    <2>3. ~FdOpen' /\ ~UdpMayLose' /\ ~EventMayLose'
      BY <2>1 DEF UdpMayLose, EventMayLose, Opening, FdOpen
    <2>4. FdLost => UdpMayLose \/ EventMayLose
      BY <2>1 DEF UdpMayLose, EventMayLose, FdLost
    <2>5. MayLose' <= MayLose /\ (FdLost => MayLose' < MayLose)
      BY <2>2, <2>3, <2>4, SocketTypes DEF MayLose
    <2> QED
      BY <2>1, <2>5, OverwriteKeeps DEF SocketInv, Handles
  <1> QED
    BY <1>1, <1>2, <1>3, <1>4, <1>5, <1>6, <1>7 DEF UdpTask

LEMMA EventSocket == ASSUME TypeInv, TypeInv', SocketInv, EventTask PROVE SocketInv'
  <1> USE DEF WifiFrame, udpVars, targetVars
  <1>1. CASE GotIp
    BY <1>1, SocketStays DEF GotIp
  <1>2. CASE Disconnected
    <2>1. ready' \in BOOLEAN /\ ~ready' /\ wpc' = "close" /\ wpc = "idle"
      BY <1>2 DEF Disconnected
    <2>2. UNCHANGED <<fd, made, owner, upc, cpc, retargets>>
      BY <1>2 DEF Disconnected
    <2>3. MayLose' <= MayLose
      BY <2>1, <2>2 DEF MayLose, ControlMayLose, UdpMayLose, EventMayLose, Opening, FdOpen
    <2> QED
      BY <2>1, <2>2, <2>3, NothingLost DEF SocketInv, Handles
  <1>3. CASE CloseDisconnected
    <2>1. /\ wpc = "close" /\ UNCHANGED <<ready, fd, made, upc, cpc, retargets>>
          /\ wpc' \in {"forget", "idle"}
      BY <1>3 DEF CloseDisconnected
    <2>2. CASE fd # NoFd
      <3>1. wpc' = "forget" /\ CloseFd(fd)
        BY <1>3, <2>2 DEF CloseDisconnected
      <3>2. /\ \A d \in Fds : owner'[d] = "udp" => owner[d] = "udp"
            /\ owner'[fd] # "udp"
        BY <2>2, <3>1, CloseCloses, SocketTypes
      <3>3. MayLose' <= MayLose
        BY <2>1, <2>2, <3>1, <3>2 DEF MayLose, ControlMayLose, UdpMayLose, EventMayLose,
           Opening, FdOpen
      <3> QED
        BY <2>1, <3>2, <3>3, NothingLost DEF SocketInv, Handles
    <2>3. CASE fd = NoFd
      <3>1. wpc' = "idle" /\ UNCHANGED owner
        BY <1>3, <2>3 DEF CloseDisconnected
      <3>2. MayLose' <= MayLose
        BY <2>1, <2>3, <3>1 DEF MayLose, ControlMayLose, UdpMayLose, EventMayLose, Opening,
           FdOpen
      <3> QED
        BY <2>1, <3>1, <3>2, NothingLost DEF SocketInv, Handles
    <2> QED
      BY <2>2, <2>3
  <1>4. CASE ForgetDisconnected
    <2>1. /\ wpc = "forget" /\ wpc' = "idle" /\ fd' = NoFd
          /\ UNCHANGED <<owner, made, upc, cpc, ready, retargets>>
      BY <1>4 DEF ForgetDisconnected
    <2>2. ControlMayLose' = ControlMayLose
      BY <2>1 DEF ControlMayLose
    <2>3. ~FdOpen' /\ ~UdpMayLose' /\ ~EventMayLose'
      BY <2>1 DEF UdpMayLose, EventMayLose, Opening, FdOpen
    <2>4. FdLost => UdpMayLose \/ EventMayLose
      BY <2>1 DEF UdpMayLose, EventMayLose, FdLost
    <2>5. MayLose' <= MayLose /\ (FdLost => MayLose' < MayLose)
      BY <2>2, <2>3, <2>4, SocketTypes DEF MayLose
    <2> QED
      BY <2>1, <2>5, OverwriteKeeps DEF SocketInv, Handles
  <1> QED
    BY <1>1, <1>2, <1>3, <1>4 DEF EventTask

LEMMA NextSocket ==
  ASSUME TypeInv, TypeInv', SocketInv, [Next]_vars PROVE SocketInv'
  <1>1. CASE AudioTask
    BY <1>1, SocketStays DEF AudioTask, ReadSamples, PutPacket, Evict, PutAgain, socketVars,
       udpVars, targetVars
  <1>2. CASE OpenSocket("control")
    BY <1>2, OpenHandles, OpenBound DEF SocketInv, Openers
  <1>3. CASE Retarget
    <2>1. /\ cpc = "idle" /\ cpc' = "open" /\ retargets' = retargets + 1
          /\ UNCHANGED <<fd, owner, made, upc, wpc, ready>>
      BY <1>3 DEF Retarget, socketVars, udpVars
    <2>2. MayLose' = MayLose + 2
      BY <2>1 DEF MayLose, ControlMayLose, UdpMayLose, EventMayLose, Opening, FdOpen
    <2>3. Lost' = Lost
      BY <2>1 DEF Lost
    <2>4. Cardinality(Lost') = Cardinality(Lost)
      BY <2>3
    <2>5. LossBound'
      BY <2>1, <2>2, <2>4, SocketTypes, LostIsFinite DEF LossBound, SocketInv
    <2> QED
      BY <2>1, <2>5 DEF SocketInv, Handles
  <1>4. CASE OtherSocket
    <2>1. owner \in [Fds -> {"free", "udp", "other"}]
      BY SocketTypes
    <2>2. \A d \in Fds : owner'[d] = "udp" <=> owner[d] = "udp"
      BY <1>4, <2>1 DEF OtherSocket
    <2> QED
      BY <1>4, <2>2, SocketStays DEF OtherSocket, udpVars, targetVars
  <1>5. CASE UNCHANGED vars
    BY <1>5, SocketStays DEF vars, socketVars, udpVars, targetVars
  <1> QED
    BY <1>1, <1>2, <1>3, <1>4, <1>5, UdpSocket, EventSocket DEF Next

LEMMA AddOne ==
  ASSUME NEW S, IsFiniteSet(S), NEW x
  PROVE  /\ IsFiniteSet(S \cup {x})
         /\ Cardinality(S) \in Nat /\ Cardinality(S \cup {x}) \in Nat
         /\ Cardinality(S \cup {x}) <= Cardinality(S) + 1
  BY FS_AddElement, FS_CardinalityType

\* What is not lost, a task has in hand or can find in s_socket_fd.
LEMMA UdpSockets ==
  ASSUME TypeInv, SocketInv PROVE SocketsBounded
  <1> DEFINE Known  == IF upc = "assign" THEN made["udp"] ELSE fd
             WithControl == Lost \cup {made["control"]}
             First  == IF cpc = "assign" THEN WithControl ELSE Lost
             Second == IF upc = "assign" /\ fd \notin {NoFd, Known}
                       THEN First \cup {fd} ELSE First
             All    == {d \in Fds : owner[d] = "udp"}
             inControl == IF cpc = "assign" THEN 1 ELSE 0
             inUdp     == IF upc = "assign" /\ fd \notin {NoFd, Known} THEN 1 ELSE 0
  <1>1. /\ IsFiniteSet(First) /\ Cardinality(First) \in Nat
        /\ Cardinality(First) <= Cardinality(Lost) + inControl
    <2>1. /\ IsFiniteSet(WithControl) /\ Cardinality(WithControl) \in Nat
          /\ Cardinality(WithControl) <= Cardinality(Lost) + 1
      BY LostIsFinite, AddOne
    <2> HIDE DEF WithControl
    <2> QED
      BY <2>1, LostIsFinite
  <1>2. /\ IsFiniteSet(Second) /\ Cardinality(Second) \in Nat
        /\ Cardinality(Second) <= Cardinality(First) + inUdp
    <2>1. /\ IsFiniteSet(First \cup {fd}) /\ Cardinality(First \cup {fd}) \in Nat
          /\ Cardinality(First \cup {fd}) <= Cardinality(First) + 1
      <3> HIDE DEF First
      <3> QED
        BY <1>1, AddOne
    <2> HIDE DEF First
    <2> QED
      BY <1>1, <2>1
  <1>3. /\ IsFiniteSet(Second \cup {Known}) /\ Cardinality(Second \cup {Known}) \in Nat
        /\ Cardinality(Second \cup {Known}) <= Cardinality(Second) + 1
    <2> HIDE DEF Second, Known
    <2> QED
      BY <1>2, AddOne
  <1>4. All \subseteq Second \cup {Known}
    BY NoFdIsNone DEF Lost, SocketInv, Handles
  <1>5. Cardinality(All) <= Cardinality(Second \cup {Known}) /\ Cardinality(All) \in Nat
    BY <1>3, <1>4, FS_Subset, FS_CardinalityType
  <1>6. inControl + inUdp <= MayLose
    BY SocketTypes DEF MayLose, ControlMayLose, UdpMayLose, Opening, SocketInv, Handles
  <1>7. Cardinality(Lost) + MayLose <= 2 * retargets
    BY DEF SocketInv, LossBound
  <1>8. Cardinality(Lost) \in Nat /\ MayLose \in Nat /\ retargets \in Nat
        /\ inControl \in Nat /\ inUdp \in Nat
    BY LostIsFinite, SocketTypes
  <1> HIDE DEF First, Second, Known, inControl, inUdp
  <1>9. Cardinality(All) <= 1 + 2 * retargets
    BY <1>1, <1>2, <1>3, <1>5, <1>6, <1>7, <1>8
  <1> QED
    BY <1>9 DEF SocketsBounded

\* However the three tasks that write the descriptor come between each other there
\* is one UDP socket while no command sets the target, and each command leaves two
\* more behind at most.
THEOREM FewSocketsAreLost == Spec => []SocketsBounded
  <1>1. Init => TypeInv /\ SocketInv
    <2>1. ASSUME Init PROVE SocketInv
      <3>1. Lost = {}
        BY <2>1 DEF Init, Lost
      <3>2. MayLose = 0 /\ retargets = 0
        BY <2>1 DEF Init, MayLose, ControlMayLose, UdpMayLose, EventMayLose, Opening
      <3>3. Handles
        BY <2>1 DEF Init, Handles, Openers
      <3>4. Cardinality(Lost) = 0
        BY <3>1, FS_EmptySet
      <3> QED
        BY <3>2, <3>3, <3>4 DEF SocketInv, LossBound
    <2> QED
      BY <2>1, InitType
  <1>2. TypeInv /\ SocketInv /\ [Next]_vars => (TypeInv /\ SocketInv)'
    BY NextType, NextSocket
  <1>3. TypeInv /\ SocketInv => SocketsBounded
    BY UdpSockets
  <1> QED
    BY <1>1, <1>2, <1>3, PTL DEF Spec

-----------------------------------------------------------------------------
(* The target. *)

\* The control task is past the resolution of the target that it has set, so what
\* it has in hand, and what udp_task resolves from then on, is that target. Only
\* what udp_task had in hand when the command came is older.
AddressInv ==
    /\ cpc = "copy" => got["control"] = retargets
    /\ cpc \in {"socket", "assign"} => addr = retargets \/ crossed
    /\ upc = "copy" => got["udp"] = retargets \/ crossed
    /\ upc \in {"socket", "assign"} => addr = retargets \/ crossed
    /\ cpc \notin {"open", "clear"} /\ fd # NoFd => addr = retargets \/ crossed

\* A step that leaves the target and its address alone, opens nothing and takes
\* no task further in open_socket.
LEMMA AddressStays ==
  ASSUME AddressInv, UNCHANGED <<addr, got, cpc, targetVars>>, fd' \in {fd, NoFd},
         upc' = upc \/ upc' \notin {"copy", "socket", "assign"}
  PROVE  AddressInv'
  BY DEF AddressInv, targetVars

LEMMA OpenAddress ==
  ASSUME TypeInv, AddressInv, NEW o \in Openers, OpenSocket(o) PROVE AddressInv'
  <1> USE DEF AddressInv, At, GoTo, Failed, Opened
  <1>1. o \in {"udp", "control"}
    BY DEF Openers
  <1>2. UNCHANGED <<retargets, crossed>>
    BY OpenHolds
  <1>3. got \in [Openers -> 0..MaxRetargets \cup {NoAddr}]
    BY DEF TypeInv, TypeOK
  <1>4. CASE CloseOld(o) \/ ClearOld(o)
    BY <1>1, <1>2, <1>4 DEF CloseOld, ClearOld, addrVars
  <1>5. CASE Resolve(o)
    <2>1. \A q \in Openers : got'[q] = IF q = o THEN retargets ELSE got[q]
      BY <1>3, <1>5 DEF Resolve
    <2>2. got'["udp"] = IF o = "udp" THEN retargets ELSE got["udp"]
      BY <2>1 DEF Openers
    <2>3. got'["control"] = IF o = "control" THEN retargets ELSE got["control"]
      BY <2>1 DEF Openers
    <2> QED
      BY <1>1, <1>2, <1>5, <2>2, <2>3 DEF Resolve
  <1>6. CASE ResolveFails(o) \/ SocketFails(o)
    BY <1>1, <1>2, <1>6 DEF ResolveFails, SocketFails, socketVars, addrVars
  <1>7. CASE CopyAddress(o)
    <2>1. \A q \in Openers : got'[q] = IF q = o THEN NoAddr ELSE got[q]
      BY <1>3, <1>7 DEF CopyAddress
    <2>2. got'["udp"] = IF o = "udp" THEN NoAddr ELSE got["udp"]
      BY <2>1 DEF Openers
    <2>3. got'["control"] = IF o = "control" THEN NoAddr ELSE got["control"]
      BY <2>1 DEF Openers
    <2>4. addr' = got[o] /\ UNCHANGED fd
      BY <1>7 DEF CopyAddress
    <2>5. got[o] = retargets \/ crossed
      BY <1>1, <1>7 DEF CopyAddress
    <2> QED
      BY <1>1, <1>2, <1>7, <2>2, <2>3, <2>4, <2>5 DEF CopyAddress
  <1>8. CASE MakeSocket(o)
    <2>1. UNCHANGED <<fd, addr, got>>
      BY <1>8 DEF MakeSocket, addrVars
    <2> QED
      BY <1>1, <1>2, <1>8, <2>1 DEF MakeSocket
  <1>9. CASE Assign(o)
    BY <1>1, <1>2, <1>9 DEF Assign, addrVars
  <1> QED
    BY <1>4, <1>5, <1>6, <1>7, <1>8, <1>9 DEF OpenSocket

LEMMA UdpAddress == ASSUME TypeInv, AddressInv, UdpTask PROVE AddressInv'
  <1>1. CASE OpenSocket("udp")
    BY <1>1, OpenAddress DEF Openers
  <1>2. CASE TestReady \/ TestSocket \/ TakePacket \/ NoPacketYet \/ LoadSocket
    BY <1>2, AddressStays DEF TestReady, TestSocket, TakePacket, NoPacketYet, LoadSocket,
       UdpFrame, addrVars
  <1>3. CASE SendOk \/ SendFails \/ CloseFailed \/ ForgetFailed
    BY <1>3, AddressStays DEF SendOk, SendFails, CloseFailed, ForgetFailed, UdpFrame,
       addrVars
  <1> QED
    BY <1>1, <1>2, <1>3 DEF UdpTask

LEMMA NextAddress == ASSUME TypeInv, AddressInv, [Next]_vars PROVE AddressInv'
  <1>1. CASE AudioTask
    BY <1>1, AddressStays DEF AudioTask, ReadSamples, PutPacket, Evict, PutAgain,
       socketVars, addrVars, udpVars
  <1>2. CASE UdpTask
    BY <1>2, UdpAddress
  <1>3. CASE OpenSocket("control")
    BY <1>3, OpenAddress DEF Openers
  <1>4. CASE Retarget
    <2>1. UNCHANGED <<fd, addr, got, upc>> /\ cpc' = "open"
      BY <1>4 DEF Retarget, socketVars, addrVars, udpVars
    <2>2. crossed' = (upc \in {"copy", "socket", "assign"})
      BY <1>4 DEF Retarget
    <2> QED
      BY <2>1, <2>2 DEF AddressInv
  <1>5. CASE OtherSocket
    BY <1>5, AddressStays DEF OtherSocket, addrVars, udpVars
  <1>6. CASE EventTask
    BY <1>6, AddressStays DEF EventTask, GotIp, Disconnected, CloseDisconnected,
       ForgetDisconnected, WifiFrame, addrVars, udpVars
  <1>7. CASE UNCHANGED vars
    BY <1>7, AddressStays DEF vars, socketVars, addrVars, udpVars
  <1> QED
    BY <1>1, <1>2, <1>3, <1>4, <1>5, <1>6, <1>7 DEF Next

\* After a command for the target has been carried out audio goes there whenever a
\* socket is open, whatever opens fail and whichever task opened it last, unless
\* udp_task had the old address in hand when the command came.
THEOREM AudioFollowsTarget == Spec => []TargetFollows
  <1>1. Init => TypeInv /\ AddressInv
    BY InitType DEF Init, AddressInv
  <1>2. TypeInv /\ AddressInv /\ [Next]_vars => (TypeInv /\ AddressInv)'
    BY NextType, NextAddress
  <1>3. AddressInv => TargetFollows
    BY DEF AddressInv, TargetFollows
  <1> QED
    BY <1>1, <1>2, <1>3, PTL DEF Spec
=============================================================================

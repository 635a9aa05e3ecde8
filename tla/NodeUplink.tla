----------------------------- MODULE NodeUplink -----------------------------
(***************************************************************************)
(* The way of the audio through a node: audio_capture.c puts packets into  *)
(* a queue, udp_streamer.c sends them from a socket.                       *)
(*                                                                         *)
(* Tasks, on two cores: audio_task; udp_task; the event task, in which     *)
(* wifi_event_handler tells the streamer whether there is a network; and   *)
(* the control task, which applies commands for the UDP target. The queue  *)
(* is the only thing they share under a lock: the socket's descriptor is a *)
(* plain variable that three of them read and write, so that a step below  *)
(* is one access to it, to a flag, to the queue, to the target or its      *)
(* address, or to lwIP's table of descriptors.                             *)
(*                                                                         *)
(* A packet is its sequence number, a target the number of the command that*)
(* set it, and so is the address it resolves to. The table of descriptors is*)
(* shared with the MQTT client and the setup portal; socket() returns the  *)
(* lowest that is free.                                                    *)
(***************************************************************************)
EXTENDS Integers, Sequences, FiniteSets

CONSTANTS
    QueueDepth,    \* CONFIG_MIC_AUDIO_PACKET_QUEUE_DEPTH
    Descriptors,   \* how many descriptors there are
    MaxPackets,    \* bound on the packets made
    MaxOthers,     \* how many sockets other parts have open at most
    MaxRetargets   \* bound on the commands that set the UDP target

ASSUME ConstantsAssumption ==
    /\ QueueDepth \in Nat \ {0}
    /\ Descriptors \in Nat \ {0}
    /\ MaxPackets \in Nat
    /\ MaxOthers \in Nat
    /\ MaxOthers < Descriptors
    /\ MaxRetargets \in Nat

Fds  == 0..(Descriptors - 1)
NoFd == -1

\* The tasks that run open_socket.
Openers == {"udp", "control"}

VARIABLES
    seq,         \* s_sequence
    packets,     \* s_packet_queue
    apc,         \* audio_task
    ready,       \* s_network_ready
    fd,          \* s_socket_fd
    owner,       \* lwIP: whose socket each descriptor is
    upc, held, sendFd,     \* udp_task, its packet, the descriptor it sends on
    cpc,         \* the control task, in udp_streamer_reconfigure_target
    made,        \* the socket each opener has made and not yet assigned
    addr,        \* s_remote_addr
    got,         \* the address each opener has resolved and not yet copied
    wpc,         \* the event task, in udp_streamer_set_network_ready
    sent, dropped, errors, \* the health counters
    lastOut,     \* history: the packet that went out last
    retargets,   \* how often the UDP target was set while the node ran: the
                 \* target in the configuration
    crossed      \* history: udp_task had an old address in hand when it was set

audioVars  == <<seq, apc, dropped>>
addrVars   == <<addr, got>>
socketVars == <<fd, owner, made, addrVars>>
udpVars    == <<upc, held, sendFd, sent, errors, lastOut>>
targetVars == <<retargets, crossed>>
vars == <<audioVars, socketVars, udpVars, packets, ready, cpc, wpc, targetVars>>

NoPacket == -1
NoAddr   == -1

Init ==
    /\ seq = 0
    /\ packets = <<>>
    /\ apc = "test"
    /\ ready = FALSE
    /\ fd = NoFd
    /\ owner = [d \in Fds |-> "free"]
    /\ upc = "ready"
    /\ held = NoPacket
    /\ sendFd = NoFd
    /\ cpc = "idle"
    /\ made = [o \in Openers |-> NoFd]
    /\ addr = NoAddr
    /\ got = [o \in Openers |-> NoAddr]
    /\ wpc = "idle"
    /\ sent = 0 /\ dropped = 0 /\ errors = 0
    /\ lastOut = NoPacket
    /\ retargets = 0
    /\ crossed = FALSE

-----------------------------------------------------------------------------
(* audio_task *)

\* i2s_channel_read fills a packet while s_streaming_enabled is set. Nothing
\* obliges audio_task to get there: the switch may be off (it is NodeControl's),
\* the channel may fail or fall short.
ReadSamples ==
    /\ apc = "test"
    /\ seq < MaxPackets
    /\ seq' = seq + 1
    /\ apc' = "put"
    /\ UNCHANGED <<dropped, socketVars, udpVars, packets, ready, cpc, wpc, targetVars>>

\* Broken form: one packet more than the queue holds.
PutOneMore ==
    /\ apc = "put"
    /\ IF Len(packets) <= QueueDepth
       THEN packets' = Append(packets, seq - 1) /\ apc' = "test"
       ELSE apc' = "evict" /\ UNCHANGED packets
    /\ UNCHANGED <<seq, dropped, socketVars, udpVars, ready, cpc, wpc, targetVars>>

\* The packet audio_task has in hand is the one it numbered last.
PutPacket ==
    /\ apc = "put"
    /\ IF Len(packets) < QueueDepth
       THEN packets' = Append(packets, seq - 1) /\ apc' = "test"
       ELSE apc' = "evict" /\ UNCHANGED packets
    /\ UNCHANGED <<seq, dropped, socketVars, udpVars, ready, cpc, wpc, targetVars>>

\* The oldest packet makes room for the new one. If udp_task has emptied the
\* queue in the meantime it is the new one that is dropped.
Evict ==
    /\ apc = "evict"
    /\ IF packets # <<>>
       THEN packets' = Tail(packets) /\ apc' = "retry" /\ UNCHANGED dropped
       ELSE dropped' = dropped + 1 /\ apc' = "test" /\ UNCHANGED packets
    /\ UNCHANGED <<seq, socketVars, udpVars, ready, cpc, wpc, targetVars>>

\* Broken form: a packet that made room for another is not counted.
PutAgainUncounted ==
    /\ apc = "retry"
    /\ packets' = Append(packets, seq - 1)
    /\ apc' = "test"
    /\ UNCHANGED <<seq, dropped, socketVars, udpVars, ready, cpc, wpc, targetVars>>

\* There is room, since no other task adds packets.
PutAgain ==
    /\ apc = "retry"
    /\ packets' = Append(packets, seq - 1)
    /\ dropped' = dropped + 1
    /\ apc' = "test"
    /\ UNCHANGED <<seq, socketVars, udpVars, ready, cpc, wpc, targetVars>>

AudioTask == ReadSamples \/ PutPacket \/ Evict \/ PutAgain

-----------------------------------------------------------------------------
(* Descriptors and open_socket. *)

CloseFd(d) ==
    owner' = IF d \in Fds THEN [owner EXCEPT ![d] = "free"] ELSE owner

FreeFds == {d \in Fds : owner[d] = "free"}

\* How far a task is in open_socket; udp_task and the control task may both be.
At(o, label) == IF o = "udp" THEN upc = label ELSE cpc = label

GoTo(o, label) ==
    IF o = "udp" THEN upc' = label /\ UNCHANGED cpc
    ELSE cpc' = label /\ UNCHANGED upc

\* Where open_socket returns to when it has failed.
Failed(o) == IF o = "udp" THEN "ready" ELSE "idle"
Opened(o) == IF o = "udp" THEN "receive" ELSE "idle"

OpenFrame == UNCHANGED <<audioVars, held, sendFd, sent, errors, lastOut, packets, ready,
                         wpc, targetVars>>

CloseOld(o) ==
    /\ At(o, "open")
    /\ IF fd # NoFd THEN CloseFd(fd) /\ GoTo(o, "clear")
                    ELSE GoTo(o, "resolve") /\ UNCHANGED owner
    /\ UNCHANGED <<fd, made, addrVars>>
    /\ OpenFrame

ClearOld(o) ==
    /\ At(o, "clear")
    /\ fd' = NoFd
    /\ GoTo(o, "resolve")
    /\ UNCHANGED <<owner, made, addrVars>>
    /\ OpenFrame

\* Broken form: an address that was found once is used again.
ResolveOnce(o) ==
    /\ At(o, "resolve")
    /\ got' = [got EXCEPT ![o] = IF addr = NoAddr THEN retargets ELSE addr]
    /\ GoTo(o, "copy")
    /\ UNCHANGED <<fd, owner, made, addr>>
    /\ OpenFrame

\* getaddrinfo of the target that is configured now, which may take long.
Resolve(o) ==
    /\ At(o, "resolve")
    /\ got' = [got EXCEPT ![o] = retargets]
    /\ GoTo(o, "copy")
    /\ UNCHANGED <<fd, owner, made, addr>>
    /\ OpenFrame

ResolveFails(o) ==
    /\ At(o, "resolve")
    /\ GoTo(o, Failed(o))
    /\ UNCHANGED socketVars
    /\ OpenFrame

CopyAddress(o) ==
    /\ At(o, "copy")
    /\ addr' = got[o]
    /\ got' = [got EXCEPT ![o] = NoAddr]
    /\ GoTo(o, "socket")
    /\ UNCHANGED <<fd, owner, made>>
    /\ OpenFrame

MakeSocket(o) ==
    /\ At(o, "socket")
    /\ FreeFds # {}
    /\ LET lowest == CHOOSE d \in FreeFds : \A e \in FreeFds : d <= e
       IN  /\ owner' = [owner EXCEPT ![lowest] = "udp"]
           /\ made' = [made EXCEPT ![o] = lowest]
    /\ GoTo(o, "assign")
    /\ UNCHANGED <<fd, addrVars>>
    /\ OpenFrame

SocketFails(o) ==
    /\ At(o, "socket")
    /\ FreeFds = {}
    /\ fd' = NoFd
    /\ GoTo(o, Failed(o))
    /\ UNCHANGED <<owner, made, addrVars>>
    /\ OpenFrame

Assign(o) ==
    /\ At(o, "assign")
    /\ fd' = made[o]
    /\ made' = [made EXCEPT ![o] = NoFd]
    /\ GoTo(o, Opened(o))
    /\ UNCHANGED <<owner, addrVars>>
    /\ OpenFrame

OpenSocket(o) ==
    \/ CloseOld(o)
    \/ ClearOld(o)
    \/ Resolve(o)
    \/ ResolveFails(o)
    \/ CopyAddress(o)
    \/ MakeSocket(o)
    \/ SocketFails(o)
    \/ Assign(o)

\* The control task puts a new target into the configuration and calls
\* udp_streamer_reconfigure_target.
Retarget ==
    /\ cpc = "idle"
    /\ cpc' = "open"
    /\ retargets < MaxRetargets
    /\ retargets' = retargets + 1
    /\ crossed' = (upc \in {"copy", "socket", "assign"})
    /\ UNCHANGED <<audioVars, socketVars, udpVars, packets, ready, wpc>>

\* The MQTT client and the portal open and close sockets of their own, fewer
\* than there are.
OtherSocket ==
    /\ \E d \in Fds :
        \/ /\ owner[d] = "free"
           /\ \A e \in FreeFds : d <= e
           /\ Cardinality({e \in Fds : owner[e] = "other"}) < MaxOthers
           /\ owner' = [owner EXCEPT ![d] = "other"]
        \/ /\ owner[d] = "other"
           /\ owner' = [owner EXCEPT ![d] = "free"]
    /\ UNCHANGED <<audioVars, fd, made, addrVars, udpVars, packets, ready, cpc, wpc, targetVars>>

-----------------------------------------------------------------------------
(* udp_task *)

UdpFrame == UNCHANGED <<audioVars, made, addrVars, ready, cpc, wpc, targetVars>>

TestReady ==
    /\ upc = "ready"
    /\ ready
    /\ upc' = "test"
    /\ UNCHANGED <<held, sendFd, sent, errors, lastOut, fd, owner, packets>>
    /\ UdpFrame

TestSocket ==
    /\ upc = "test"
    /\ upc' = IF fd = NoFd THEN "open" ELSE "receive"
    /\ UNCHANGED <<held, sendFd, sent, errors, lastOut, fd, owner, packets>>
    /\ UdpFrame

\* Broken form: the newest packet is taken.
TakeNewest ==
    /\ upc = "receive"
    /\ packets # <<>>
    /\ held' = packets[Len(packets)]
    /\ packets' = SubSeq(packets, 1, Len(packets) - 1)
    /\ upc' = "load"
    /\ UNCHANGED <<sendFd, sent, errors, lastOut, fd, owner>>
    /\ UdpFrame

TakePacket ==
    /\ upc = "receive"
    /\ packets # <<>>
    /\ held' = Head(packets)
    /\ packets' = Tail(packets)
    /\ upc' = "load"
    /\ UNCHANGED <<sendFd, sent, errors, lastOut, fd, owner>>
    /\ UdpFrame

NoPacketYet ==
    /\ upc = "receive"
    /\ packets = <<>>
    /\ upc' = "ready"
    /\ UNCHANGED <<held, sendFd, sent, errors, lastOut, fd, owner, packets>>
    /\ UdpFrame

\* The descriptor is read, and sendto is called with it.
LoadSocket ==
    /\ upc = "load"
    /\ sendFd' = fd
    /\ upc' = "send"
    /\ UNCHANGED <<held, sent, errors, lastOut, fd, owner, packets>>
    /\ UdpFrame

SendOk ==
    /\ upc = "send"
    /\ sendFd \in Fds
    /\ owner[sendFd] # "free"
    /\ sent' = sent + 1
    /\ lastOut' = held
    /\ held' = NoPacket
    /\ sendFd' = NoFd
    /\ upc' = "ready"
    /\ UNCHANGED <<errors, fd, owner, packets>>
    /\ UdpFrame

SendFails ==
    /\ upc = "send"
    /\ errors' = errors + 1
    /\ held' = NoPacket
    /\ sendFd' = NoFd
    /\ upc' = "close"
    /\ UNCHANGED <<sent, lastOut, fd, owner, packets>>
    /\ UdpFrame

\* Broken form: the socket on which a send failed is left open.
LeaveFailedOpen ==
    /\ upc = "close"
    /\ upc' = "forget"
    /\ UNCHANGED <<held, sendFd, sent, errors, lastOut, fd, owner, packets>>
    /\ UdpFrame

CloseFailed ==
    /\ upc = "close"
    /\ CloseFd(fd)
    /\ upc' = "forget"
    /\ UNCHANGED <<held, sendFd, sent, errors, lastOut, fd, packets>>
    /\ UdpFrame

ForgetFailed ==
    /\ upc = "forget"
    /\ fd' = NoFd
    /\ upc' = "ready"
    /\ UNCHANGED <<held, sendFd, sent, errors, lastOut, owner, packets>>
    /\ UdpFrame

UdpTask ==
    \/ TestReady
    \/ TestSocket
    \/ OpenSocket("udp")
    \/ TakePacket
    \/ NoPacketYet
    \/ LoadSocket
    \/ SendOk
    \/ SendFails
    \/ CloseFailed
    \/ ForgetFailed

-----------------------------------------------------------------------------
(* wifi_event_handler *)

WifiFrame == UNCHANGED <<audioVars, made, addrVars, udpVars, packets, cpc, targetVars>>

GotIp ==
    /\ wpc = "idle"
    /\ ready' = TRUE
    /\ UNCHANGED <<wpc, fd, owner>>
    /\ WifiFrame

Disconnected ==
    /\ wpc = "idle"
    /\ ready' = FALSE
    /\ wpc' = "close"
    /\ UNCHANGED <<fd, owner>>
    /\ WifiFrame

\* Broken form: the socket is forgotten, not closed.
LeaveOpen ==
    /\ wpc = "close"
    /\ wpc' = "forget"
    /\ UNCHANGED <<ready, fd, owner>>
    /\ WifiFrame

CloseDisconnected ==
    /\ wpc = "close"
    /\ IF fd # NoFd THEN CloseFd(fd) /\ wpc' = "forget"
                    ELSE wpc' = "idle" /\ UNCHANGED owner
    /\ UNCHANGED <<ready, fd>>
    /\ WifiFrame

ForgetDisconnected ==
    /\ wpc = "forget"
    /\ fd' = NoFd
    /\ wpc' = "idle"
    /\ UNCHANGED <<ready, owner>>
    /\ WifiFrame

EventTask == GotIp \/ Disconnected \/ CloseDisconnected \/ ForgetDisconnected

Next ==
    \/ AudioTask
    \/ UdpTask
    \/ OpenSocket("control")
    \/ Retarget
    \/ OtherSocket
    \/ EventTask

Spec == Init /\ [][Next]_vars

\* udp_task and the control task are scheduled and their waits end. The target
\* resolves now and then: an open that is tried again and again succeeds.
FairSpec ==
    /\ Spec
    /\ WF_vars(UdpTask)
    /\ WF_vars(OpenSocket("control"))
    /\ SF_vars(Resolve("udp"))

-----------------------------------------------------------------------------
(* Properties. *)

\* Every variable keeps its type, and the queue its bound.
TypeOK ==
    /\ seq \in 0..MaxPackets
    /\ packets \in Seq(0..MaxPackets) /\ Len(packets) <= QueueDepth
    /\ apc \in {"test", "put", "evict", "retry"}
    /\ ready \in BOOLEAN
    /\ fd \in Fds \cup {NoFd}
    /\ owner \in [Fds -> {"free", "udp", "other"}]
    /\ upc \in {"ready", "test", "open", "clear", "resolve", "copy", "socket", "assign",
                "receive", "load", "send", "close", "forget"}
    /\ held \in 0..MaxPackets \cup {NoPacket}
    /\ sendFd \in Fds \cup {NoFd}
    /\ cpc \in {"idle", "open", "clear", "resolve", "copy", "socket", "assign"}
    /\ made \in [Openers -> Fds \cup {NoFd}]
    /\ addr \in 0..MaxRetargets \cup {NoAddr}
    /\ got \in [Openers -> 0..MaxRetargets \cup {NoAddr}]
    /\ wpc \in {"idle", "close", "forget"}
    /\ sent \in Nat /\ dropped \in Nat /\ errors \in Nat
    /\ lastOut \in 0..MaxPackets \cup {NoPacket}
    /\ retargets \in 0..MaxRetargets
    /\ crossed \in BOOLEAN

\* The packets that the two tasks have in their hands; between the two queue
\* operations that make room audio_task has the old packet and the new one.
WithAudioTask == CASE apc \in {"put", "evict"} -> 1 [] apc = "retry" -> 2 [] OTHER -> 0
WithUdpTask   == IF upc \in {"load", "send"} THEN 1 ELSE 0

\* Every packet is on its way, or counted once: as sent, as dropped or as an
\* error, whatever udp_task does while audio_task makes room in the queue.
EveryPacketCounted ==
    seq = WithAudioTask + Len(packets) + WithUdpTask + sent + errors + dropped

\* Packets leave in the order they were made, none twice, though two tasks take
\* them from the head of the queue.
LeavesInOrder == [][sent' # sent => lastOut' > lastOut]_vars

\* There is one UDP socket, and up to two more for each command that has set the
\* target while the node ran: nothing leaks without one, however Wi-Fi events and
\* failing sends come in between, and with it two sockets at most, whatever
\* udp_task, the control task and the event task do to the descriptor at once.
SocketsBounded ==
    Cardinality({d \in Fds : owner[d] = "udp"}) <= 1 + 2 * retargets

\* While a socket is there and no command is being carried out, audio goes to the
\* target in the configuration, whatever opens failed and whoever opened the
\* socket: unless udp_task had resolved the old target when the command came, and
\* copied it or assigned its socket after.
TargetFollows ==
    cpc = "idle" /\ fd # NoFd => addr = retargets \/ crossed

\* While the network is there and packets wait, udp_task comes back to take one,
\* whatever sends and opens fail in between, unless a command sets the target.
UplinkRecovers ==
    []<>(upc = "load" \/ packets = <<>> \/ ~ready \/ retargets > 0)

\* The uplink goes on, commands or not.
UplinkGoesOn ==
    []<>(upc = "load" \/ packets = <<>> \/ ~ready)
=============================================================================

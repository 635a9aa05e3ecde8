----------------------------- MODULE NodeIngest -----------------------------
(***************************************************************************)
(* Audio on its way from the nodes to a clip: packets numbered by          *)
(* audio_capture.c, a UDP network that loses, repeats and reorders them,   *)
(* the receiver thread of hub/receiver.py, which counts a frame in         *)
(* hub/registry.py and then stores it in hub/ring_buffer.py, and clients   *)
(* that cut a window out of the ring.                                      *)
(*                                                                         *)
(* Packets are those of the firmware: well formed, with a sample rate.     *)
(* Durations and times are whole units.                                    *)
(***************************************************************************)
EXTENDS Integers, Sequences, FiniteSets

CONSTANTS
    Nodes,
    Lengths,        \* how long a packet's audio is, in each run of a node: the
                    \* firmware fixes it, and another run may be another build
    MaxSeconds,     \* max_seconds of the ring buffers
    MaxSent,        \* bound on the packets of one run of a node
    MaxRestarts,    \* bound on how often a node's numbers start again
    MaxArrivals,    \* bound on the packets of a node that the hub receives
    MaxTime         \* bound on the clock

ASSUME ConstantsAssumption ==
    /\ MaxSeconds \in Nat
    /\ MaxSent \in Nat
    /\ MaxRestarts \in Nat
    /\ MaxArrivals \in Nat
    /\ MaxTime \in Nat
    /\ Lengths \in [0..MaxRestarts -> Nat \ {0}]

Boots == 0..MaxRestarts
Seqs  == 0..MaxSent
Packets == [node : Nodes, boot : Boots, seq : Seqs]
NoClip == [node |-> "none", from |-> 0, to |-> 0, chunks |-> <<>>]

VARIABLES
    sequence, boot,     \* s_sequence of each node, and which run of it this is
    net,                \* packets under way
    rpc, frame,         \* the receiver thread and the frame in its hands
    known, first, last, received, missing, unordered, lastSeen,  \* the registry
    ring, cached,       \* each node's chunks and _cached_duration
    clip,               \* the last answer to a client
    now,
    heard, start, stored   \* history: the numbers counted of each node, the first of
                           \* them, and every frame ever stored

nodeVars     == <<sequence, boot>>
receiverVars == <<rpc, frame>>
registryVars == <<known, first, last, received, missing, unordered, lastSeen>>
ringVars     == <<ring, cached>>
countedVars  == <<heard, start>>
vars == <<nodeVars, net, receiverVars, registryVars, ringVars, clip, now,
          countedVars, stored>>

Init ==
    /\ sequence = [n \in Nodes |-> 0]
    /\ boot = [n \in Nodes |-> 0]
    /\ net = {}
    /\ rpc = "recv"
    /\ frame = <<>>
    /\ known = {}
    /\ first = [n \in Nodes |-> 0]
    /\ last = [n \in Nodes |-> 0]
    /\ received = [n \in Nodes |-> 0]
    /\ missing = [n \in Nodes |-> 0]
    /\ unordered = [n \in Nodes |-> 0]
    /\ lastSeen = [n \in Nodes |-> 0]
    /\ ring = [n \in Nodes |-> <<>>]
    /\ cached = [n \in Nodes |-> 0]
    /\ clip = NoClip
    /\ now = 0
    /\ heard = [n \in Nodes |-> {}]
    /\ start = [n \in Nodes |-> 0]
    /\ stored = [n \in Nodes |-> <<>>]

-----------------------------------------------------------------------------
(* Nodes and network. *)

\* A packet is captured, numbered, and sent or lost on the node: a packet that
\* stays in net for ever is lost.
Send(n) ==
    /\ sequence[n] < MaxSent
    /\ net' = net \cup {[node |-> n, boot |-> boot[n], seq |-> sequence[n]]}
    /\ sequence' = [sequence EXCEPT ![n] = @ + 1]
    /\ UNCHANGED <<boot, receiverVars, registryVars, ringVars, clip, now,
                   countedVars, stored>>

\* s_sequence is 0 again: the node rebooted, or its 32 bits overflowed.
Restart(n) ==
    /\ boot[n] < MaxRestarts
    /\ boot' = [boot EXCEPT ![n] = @ + 1]
    /\ sequence' = [sequence EXCEPT ![n] = 0]
    /\ UNCHANGED <<net, receiverVars, registryVars, ringVars, clip, now,
                   countedVars, stored>>

-----------------------------------------------------------------------------
(* The receiver thread. *)

\* parse_audio_packet: the frame of a datagram that came at time t.
AudioFrame(p, t) ==
    [node |-> p.node, boot |-> p.boot, seq |-> p.seq, dur |-> Lengths[p.boot], time |-> t]

\* recvfrom and time.time(); the network may have kept a copy.
Receive(p, copy) ==
    /\ rpc = "recv"
    /\ p \in net
    /\ received[p.node] < MaxArrivals
    /\ net' = IF copy THEN net ELSE net \ {p}
    /\ frame' = AudioFrame(p, now)
    /\ rpc' = "register"
    /\ UNCHANGED <<nodeVars, registryVars, ringVars, clip, now, countedVars, stored>>

\* Packets skipped when number s comes after number l.
Skipped(s, l) == IF s > l + 1 THEN s - l - 1 ELSE 0

\* Broken forms: every late packet is taken for one that was missing; the packet
\* that ends a gap is counted with it.
MissingLess(m, s, l) == IF s <= l /\ m > 0 THEN m - 1 ELSE m + Skipped(s, l)
MissingMore(m, s, l) == IF s > l + 1 THEN m + s - l ELSE m

Missing(m, s, l) == m + Skipped(s, l)

\* Broken form: a number that comes again is not counted.
LateOnly(u, s, l) == IF s < l THEN u + 1 ELSE u

Unordered(u, s, l) == IF s <= l THEN u + 1 ELSE u

\* Broken form: the node's first packet is not counted.
CountFirstAsNone(n, s) ==
    /\ n \notin known
    /\ known' = known \cup {n}
    /\ first' = [first EXCEPT ![n] = s]
    /\ last' = [last EXCEPT ![n] = s]
    /\ UNCHANGED <<received, missing, unordered>>

CountFirst(n, s) ==
    /\ n \notin known
    /\ known' = known \cup {n}
    /\ first' = [first EXCEPT ![n] = s]
    /\ last' = [last EXCEPT ![n] = s]
    /\ received' = [received EXCEPT ![n] = 1]
    /\ UNCHANGED <<missing, unordered>>

\* Broken form: packets out of order are counted as nothing else.
CountNextInOrder(n, s) ==
    /\ n \in known
    /\ missing' = [missing EXCEPT ![n] = Missing(@, s, last[n])]
    /\ unordered' = [unordered EXCEPT ![n] = Unordered(@, s, last[n])]
    /\ last' = [last EXCEPT ![n] = IF s > @ THEN s ELSE @]
    /\ received' = [received EXCEPT ![n] = IF s > last[n] THEN @ + 1 ELSE @]
    /\ UNCHANGED <<known, first>>

CountNext(n, s) ==
    /\ n \in known
    /\ missing' = [missing EXCEPT ![n] = Missing(@, s, last[n])]
    /\ unordered' = [unordered EXCEPT ![n] = Unordered(@, s, last[n])]
    /\ last' = [last EXCEPT ![n] = IF s > @ THEN s ELSE @]
    /\ received' = [received EXCEPT ![n] = @ + 1]
    /\ UNCHANGED <<known, first>>

\* register_frame.
Register ==
    /\ rpc = "register"
    /\ CountFirst(frame.node, frame.seq) \/ CountNext(frame.node, frame.seq)
    /\ lastSeen' = [lastSeen EXCEPT ![frame.node] = frame.time]
    /\ heard' = [heard EXCEPT ![frame.node] = @ \cup {frame.seq}]
    /\ start' = IF heard[frame.node] = {}
                THEN [start EXCEPT ![frame.node] = frame.seq] ELSE start
    /\ rpc' = "append"
    /\ UNCHANGED <<nodeVars, net, frame, ringVars, clip, now, stored>>

\* How long the audio in the first i chunks of s is, for each i; and in all of s.
Durations(s) ==
    LET sum[i \in 0..Len(s)] == IF i = 0 THEN 0 ELSE sum[i - 1] + s[i].dur
    IN sum
Duration(s) == Durations(s)[Len(s)]

\* What is cached after i chunks were popped from the left of s.
CachedAfter(s, total, i) == total - Durations(s)[i]

\* Broken form: one chunk goes for the one that came.
PopOne(s, total) == IF total > MaxSeconds THEN 1 ELSE 0

\* How many chunks the loop pops: until the rest fits, or nothing is left.
Popped(s, total) ==
    LET Ends == {i \in 0..Len(s) : CachedAfter(s, total, i) <= MaxSeconds \/ i = Len(s)}
    IN CHOOSE i \in Ends : \A j \in Ends : i <= j

\* RingBufferStore.append: a node's first frame makes its buffer.
AppendChunk ==
    LET n == frame.node
        s == Append(ring[n], frame)
        total == cached[n] + frame.dur
        k == Popped(s, total)
    IN
    /\ rpc = "append"
    /\ ring' = [ring EXCEPT ![n] = SubSeq(s, k + 1, Len(s))]
    /\ cached' = [cached EXCEPT ![n] = CachedAfter(s, total, k)]
    /\ stored' = [stored EXCEPT ![n] = Append(@, frame)]
    /\ rpc' = "recv"
    /\ UNCHANGED <<nodeVars, net, frame, registryVars, clip, now, countedVars>>

-----------------------------------------------------------------------------
(* Clients. *)

\* The chunks that came at one of the times, among the first i of s, for each i;
\* and in all of s.
Selections(s, times) ==
    LET chosen[i \in 0..Len(s)] ==
            IF i = 0 THEN <<>>
            ELSE IF s[i].time \in times THEN Append(chosen[i - 1], s[i])
            ELSE chosen[i - 1]
    IN chosen
Selection(s, times) == Selections(s, times)[Len(s)]

\* Broken form: the end of the window is left out.
HalfOpen(from, to) == from..(to - 1)

Window(from, to) == from..to

\* resolve_node_status and extract_audio, which reads the ring in one go.
Extract(n, from, to) ==
    /\ n \in known
    /\ from < to
    /\ LET chunks == Selection(ring[n], Window(from, to)) IN
        /\ chunks # <<>>
        /\ clip' = [node |-> n, from |-> from, to |-> to, chunks |-> chunks]
    /\ UNCHANGED <<nodeVars, net, receiverVars, registryVars, ringVars, now,
                   countedVars, stored>>

Tick ==
    /\ now < MaxTime
    /\ now' = now + 1
    /\ UNCHANGED <<nodeVars, net, receiverVars, registryVars, ringVars, clip,
                   countedVars, stored>>

Next ==
    \/ \E n \in Nodes : Send(n)
    \/ \E n \in Nodes : Restart(n)
    \/ \E p \in net, copy \in BOOLEAN : Receive(p, copy)
    \/ Register
    \/ AppendChunk
    \/ \E n \in Nodes, from, to \in 0..MaxTime : Extract(n, from, to)
    \/ Tick

Spec == Init /\ [][Next]_vars

-----------------------------------------------------------------------------
(* Properties. *)

Frames == [node : Nodes, boot : Boots, seq : Seqs, dur : Nat \ {0}, time : 0..MaxTime]

\* Every variable keeps its type, and the registry knows whom it counts.
\* (RingIsRecentAudio and AnswersAreWhole say all there is of cached and clip.)
TypeOK ==
    /\ sequence \in [Nodes -> Seqs]
    /\ boot \in [Nodes -> Boots]
    /\ net \subseteq Packets
    /\ rpc \in {"recv", "register", "append"}
    /\ IF rpc = "recv" THEN frame = <<>> \/ frame \in Frames ELSE frame \in Frames
    /\ known \subseteq Nodes
    /\ first \in [Nodes -> Seqs]
    /\ last \in [Nodes -> Seqs]
    /\ received \in [Nodes -> 0..MaxArrivals]
    /\ missing \in [Nodes -> Nat]
    /\ unordered \in [Nodes -> Nat]
    /\ lastSeen \in [Nodes -> 0..MaxTime]
    /\ ring \in [Nodes -> Seq(Frames)]
    /\ now \in 0..MaxTime
    /\ heard \in [Nodes -> SUBSET Seqs]
    /\ start \in [Nodes -> Seqs]
    /\ stored \in [Nodes -> Seq(Frames)]
    /\ \A n \in Nodes : n \in known <=> received[n] > 0

\* The registry's counters (packets_received, packets_missing,
\* packets_out_of_order) account for every number from the first to the last,
\* whatever the network repeats, loses or reorders and however often nodes
\* start again.
CountersAddUp ==
    \A n \in known : received[n] + missing[n] - unordered[n] = last[n] - first[n] + 1

\* The numbers between the first and the greatest counted of a node that never were
\* counted themselves, in whichever of its runs.
Gap(n) == {s \in Seqs \ heard[n] : s > start[n] /\ \E t \in heard[n] : t > s}

\* Each number of a node that never came, between the first that came and the greatest,
\* is counted in packets_missing, whatever comes late or twice and however often the
\* node's numbers start again; and no more is counted than is missing or came out of
\* order. So what a restart hides is the loss of numbers that an earlier run had brought,
\* or that are below the node's first, and of no others.
LossIsKnown ==
    \A n \in Nodes :
        /\ Cardinality(Gap(n)) <= missing[n]
        /\ missing[n] <= Cardinality(Gap(n)) + unordered[n]

\* Whatever is in a ring was counted first: a client that is refused because its
\* node is unknown did not miss audio, and the node's last_seen is not older than
\* its newest chunk. At most the frame in the receiver's hands was counted and
\* not stored.
AudioIsCounted ==
    \A n \in Nodes :
        /\ received[n] = Len(stored[n])
                         + (IF rpc = "append" /\ frame.node = n THEN 1 ELSE 0)
        /\ ring[n] # <<>> => n \in known /\ lastSeen[n] >= ring[n][Len(ring[n])].time

\* A ring holds the longest run of newest frames that fits into max_seconds, and
\* _cached_duration is how long that is: evictions never go wrong by a chunk, and
\* the cached figure never drifts from the chunks.
RingIsRecentAudio ==
    \A n \in Nodes :
        LET s == stored[n]
            k == Len(s) - Len(ring[n])
        IN /\ ring[n] = SubSeq(s, k + 1, Len(s))
           /\ cached[n] = Duration(ring[n])
           /\ cached[n] <= MaxSeconds
           /\ k > 0 => Duration(SubSeq(s, k, Len(s))) > MaxSeconds

\* A client is given the frames that came within its window, all of them and in
\* the order they came, except the oldest ones that no longer fitted into
\* max_seconds.
AnswerIsWhole ==
    LET n == clip.node
        all == Selection(stored[n], clip.from..clip.to)
        k == Len(all) - Len(clip.chunks)
    IN /\ clip.chunks = SubSeq(all, k + 1, Len(all))
       /\ \A i \in 1..k : \E j \in 1..Len(stored[n]) :
             /\ stored[n][j] = all[i]
             /\ Duration(SubSeq(stored[n], j, Len(stored[n]))) > MaxSeconds
AnswersAreWhole == [][clip' # clip => AnswerIsWhole']_vars
=============================================================================

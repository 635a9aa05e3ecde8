-------------------------- MODULE NodeIngestProofs --------------------------
(***************************************************************************)
(* Theorems about NodeIngest, for every value of its constants.            *)
(***************************************************************************)
EXTENDS NodeIngest, FiniteSetTheorems, WellFoundedInduction, SequenceTheorems, TLAPS

USE DEF Boots, Seqs

-----------------------------------------------------------------------------
(* Recursive functions. Induction is over the members of a set, so that no   *)
(* theorem about formulas has to be instantiated.                            *)

LEMMA UpTo ==
  ASSUME NEW n \in Nat, NEW S, 0 \in S, \A k \in 0..n : k < n /\ k \in S => k + 1 \in S
  PROVE  0..n \subseteq S
  <1> DEFINE Rest == {k \in 0..n : k \notin S}
  <1>1. SUFFICES ASSUME Rest # {} PROVE FALSE
    OBVIOUS
  <1>2. Rest \subseteq Nat
    OBVIOUS
  <1>3. PICK k \in Rest : \A j \in Rest : ~(<<j, k>> \in OpToRel(<, Nat))
    BY <1>1, <1>2, NatLessThanWellFounded, WFMin
  <1>4. \A j \in Rest : ~(j < k)
    BY <1>2, <1>3 DEF OpToRel
  <1>5. k \in 0..n /\ k \notin S /\ k # 0
    OBVIOUS
  <1>6. k - 1 \in 0..n /\ k - 1 < n /\ k - 1 < k /\ (k - 1) + 1 = k
    BY <1>5
  <1>7. k - 1 \in S
    BY <1>4, <1>6
  <1> QED
    BY <1>5, <1>6, <1>7

\* f starts with base, and goes on as step says for each index and value before it.
Recurs(f, n, base, step) == f[0] = base /\ \A i \in 1..n : f[i] = step[i][f[i - 1]]

LEMMA RecursionHasFunction ==
  ASSUME NEW n \in Nat, NEW T, NEW base \in T, NEW step \in [1..n -> [T -> T]]
  PROVE  \E f \in [0..n -> T] : Recurs(f, n, base, step)
  <1> USE DEF Recurs
  <1> DEFINE S == {k \in 0..n : \E f \in [0..k -> T] : Recurs(f, k, base, step)}
  <1>1. 0 \in S
    <2> DEFINE f == [i \in 0..0 |-> base]
    <2>1. f \in [0..0 -> T]
      OBVIOUS
    <2>2. f[0] = base /\ \A i \in 1..0 : f[i] = step[i][f[i - 1]]
      <3>1. 0 \in 0..0 /\ 1..0 = {}
        OBVIOUS
      <3> QED
        BY <3>1
    <2> HIDE DEF f
    <2> QED
      BY <2>1, <2>2
  <1>2. ASSUME NEW k \in 0..n, k < n, k \in S PROVE k + 1 \in S
    <2>1. PICK f \in [0..k -> T] : Recurs(f, k, base, step)
      BY <1>2
    <2> DEFINE last1 == step[k + 1][f[k]]
               g == [i \in 0..(k + 1) |-> IF i = k + 1 THEN last1 ELSE f[i]]
    <2>2. last1 \in T
      <3>1. k + 1 \in 1..n /\ k \in 0..k
        BY <1>2
      <3> QED
        BY <3>1
    <2>3. \A i \in 0..(k + 1) : i # k + 1 => i \in 0..k
      BY <1>2
    <2>4. g \in [0..(k + 1) -> T]
      BY <2>2, <2>3
    <2>5. g[0] = base
      BY <1>2, <2>1
    <2>6. ASSUME NEW i \in 1..(k + 1) PROVE g[i] = step[i][g[i - 1]]
      <3>1. i - 1 \in 0..k /\ i - 1 \in 0..(k + 1) /\ i - 1 # k + 1 /\ i \in 0..(k + 1)
        BY <1>2
      <3>2. g[i - 1] = f[i - 1]
        BY <3>1
      <3>3. CASE i = k + 1
        <4>1. i - 1 = k /\ g[i] = last1
          BY <1>2, <3>1, <3>3
        <4> QED
          BY <3>3, <3>2, <4>1
      <3>4. CASE i # k + 1
        <4>1. i \in 1..k
          BY <1>2, <3>4
        <4>2. g[i] = f[i]
          BY <3>1, <3>4
        <4> QED
          BY <2>1, <3>2, <4>1, <4>2
      <3> QED
        BY <3>3, <3>4
    <2>7. k + 1 \in 0..n
      BY <1>2
    <2> HIDE DEF g
    <2> QED
      BY <2>4, <2>5, <2>6, <2>7
  <1>3. n \in S
    <2> HIDE DEF S
    <2>1. 0..n \subseteq S
      BY <1>1, <1>2, UpTo
    <2> QED
      BY <2>1
  <1> QED
    BY <1>3

-----------------------------------------------------------------------------
(* Durations. *)

LEMMA FramesHaveDurations ==
  ASSUME NEW s \in Seq(Frames), NEW i \in 1..Len(s)
  PROVE  s[i] \in Frames /\ s[i].dur \in Nat
  <1>1. s[i] \in Frames
    BY ElementOfSeq
  <1> QED
    BY <1>1 DEF Frames

\* The durations of the beginnings of s, one after the other.
LEMMA DurationsAdd ==
  ASSUME NEW s \in Seq(Frames)
  PROVE  /\ Durations(s) \in [0..Len(s) -> Nat]
         /\ Durations(s)[0] = 0
         /\ \A i \in 1..Len(s) : Durations(s)[i] = Durations(s)[i - 1] + s[i].dur
  <1> DEFINE n == Len(s)
             step == [i \in 1..n |-> [x \in Nat |-> x + s[i].dur]]
  <1>1. n \in Nat
    BY LenProperties
  <1>2. step \in [1..n -> [Nat -> Nat]]
    <2>1. \A i \in 1..n : [x \in Nat |-> x + s[i].dur] \in [Nat -> Nat]
      BY FramesHaveDurations
    <2> QED
      BY <2>1
  <1>3. PICK f \in [0..n -> Nat] : Recurs(f, n, 0, step)
    <2> HIDE DEF step, n
    <2>1. 0 \in Nat
      OBVIOUS
    <2> QED
      BY <1>1, <1>2, <2>1, RecursionHasFunction
  <1>4. \A i \in 1..n : f[i] = f[i - 1] + s[i].dur
    <2> SUFFICES ASSUME NEW i \in 1..n PROVE f[i] = f[i - 1] + s[i].dur
      OBVIOUS
    <2>1. i - 1 \in 0..n
      BY <1>1
    <2>2. f[i - 1] \in Nat
      BY <2>1
    <2>3. step[i][f[i - 1]] = f[i - 1] + s[i].dur
      BY <2>2
    <2> QED
      BY <1>3, <2>3 DEF Recurs
  <1>5. f = [i \in 0..n |-> IF i = 0 THEN 0 ELSE f[i - 1] + s[i].dur]
    <2>1. \A i \in 0..n : f[i] = IF i = 0 THEN 0 ELSE f[i - 1] + s[i].dur
      <3>1. \A i \in 0..n : i = 0 \/ i \in 1..n
        BY <1>1
      <3> QED
        BY <1>3, <1>4, <3>1 DEF Recurs
    <2> QED
      BY <2>1
  <1>6. Durations(s) = [i \in 0..n |-> IF i = 0 THEN 0 ELSE Durations(s)[i - 1] + s[i].dur]
    BY <1>5 DEF Durations
  <1> DEFINE d == Durations(s)
  <1>7. d = [i \in 0..n |-> IF i = 0 THEN 0 ELSE d[i - 1] + s[i].dur]
    BY <1>6
  <1> HIDE DEF d, n
  <1>8. d[0] = 0 /\ \A i \in 1..n : i - 1 \in 0..n /\ d[i] = d[i - 1] + s[i].dur
    <2>1. 0 \in 0..n /\ \A i \in 1..n : i \in 0..n /\ i # 0 /\ i - 1 \in 0..n
      BY <1>1
    <2> QED
      BY <1>7, <2>1
  <1>9. \A i \in 0..n : d[i] \in Nat
    <2> DEFINE S == {i \in 0..n : d[i] \in Nat}
    <2>1. 0 \in S
      BY <1>1, <1>8
    <2>2. ASSUME NEW k \in 0..n, k < n, k \in S PROVE k + 1 \in S
      <3>1. k + 1 \in 1..n /\ (k + 1) - 1 = k
        BY <1>1, <2>2
      <3>2. s[k + 1].dur \in Nat
        BY <3>1, FramesHaveDurations DEF n
      <3>3. d[k + 1] = d[k] + s[k + 1].dur
        BY <1>8, <3>1
      <3>4. d[k] \in Nat
        BY <2>2
      <3>5. d[k + 1] \in Nat /\ k + 1 \in 0..n
        BY <1>1, <3>1, <3>2, <3>3, <3>4
      <3> QED
        BY <3>5
    <2> HIDE DEF S
    <2>3. 0..n \subseteq S
      BY <1>1, <2>1, <2>2, UpTo
    <2> QED
      BY <2>3 DEF S
  <1>10. DOMAIN d = 0..n
    BY <1>7
  <1> QED
    BY <1>7, <1>8, <1>9, <1>10 DEF d, n

\* Later beginnings are longer.
LEMMA DurationsGrow ==
  ASSUME NEW s \in Seq(Frames), NEW i \in 0..Len(s), NEW j \in 0..Len(s), i <= j
  PROVE  Durations(s)[i] <= Durations(s)[j]
  <1> DEFINE n == Len(s)
             d == Durations(s)
             S == {k \in 0..n : k <= i \/ d[i] <= d[k]}
  <1>1. n \in Nat /\ d \in [0..n -> Nat] /\ \A k \in 1..n : d[k] = d[k - 1] + s[k].dur
    BY LenProperties, DurationsAdd
  <1>2. i \in 0..n /\ j \in 0..n
    OBVIOUS
  <1>3. \A k \in 1..n : s[k].dur \in Nat
    BY FramesHaveDurations
  <1> HIDE DEF n, d
  <1>4. 0 \in S
    BY <1>1, <1>2
  <1>5. ASSUME NEW k \in 0..n, k < n, k \in S PROVE k + 1 \in S
    <2>1. k + 1 \in 1..n /\ (k + 1) - 1 = k
      BY <1>1, <1>5
    <2>2. d[k + 1] = d[k] + s[k + 1].dur /\ s[k + 1].dur \in Nat /\ d[k] \in Nat /\ d[i] \in Nat
      BY <1>1, <1>2, <1>3, <2>1
    <2>3. k <= i \/ d[i] <= d[k]
      BY <1>5
    <2>4. CASE k <= i
      <3>1. CASE k = i
        BY <1>1, <2>1, <2>2, <3>1
      <3>2. CASE k < i
        <4>1. k + 1 <= i
          BY <1>2, <3>2
        <4> QED
          BY <1>1, <2>1, <4>1
      <3> QED
        BY <1>2, <2>4, <3>1, <3>2
    <2>5. CASE d[i] <= d[k]
      <3>1. d[i] <= d[k + 1]
        BY <2>2, <2>5
      <3>2. k + 1 \in 0..n
        BY <1>1, <2>1
      <3> QED
        BY <3>1, <3>2
    <2> QED
      BY <2>3, <2>4, <2>5
  <1> HIDE DEF S
  <1>6. 0..n \subseteq S
    BY <1>1, <1>4, <1>5, UpTo
  <1>7. j <= i \/ d[i] <= d[j]
    BY <1>2, <1>6 DEF S
  <1>8. CASE j = i
    BY <1>1, <1>2, <1>8 DEF d
  <1> QED
    BY <1>2, <1>7, <1>8 DEF d

\* What a sequence holds of another one lasts as long in it.
LEMMA DurationsOfPart ==
  ASSUME NEW s \in Seq(Frames), NEW r \in Seq(Frames), NEW k \in Nat,
         k + Len(r) <= Len(s), \A i \in 1..Len(r) : r[i] = s[k + i]
  PROVE  \A i \in 0..Len(r) : /\ k + i \in 0..Len(s)
                              /\ Durations(r)[i] = Durations(s)[k + i] - Durations(s)[k]
  <1> DEFINE n == Len(r)
             l == Len(s)
             d == Durations(s)
             e == Durations(r)
             S == {i \in 0..n : e[i] = d[k + i] - d[k]}
  <1>1. /\ n \in Nat /\ l \in Nat /\ k + n <= l
        /\ d \in [0..l -> Nat] /\ \A i \in 1..l : d[i] = d[i - 1] + s[i].dur
        /\ e \in [0..n -> Nat] /\ e[0] = 0 /\ \A i \in 1..n : e[i] = e[i - 1] + r[i].dur
    BY LenProperties, DurationsAdd
  <1>2. \A i \in 1..n : r[i] = s[k + i] /\ r[i].dur \in Nat
    BY FramesHaveDurations
  <1> HIDE DEF n, l, d, e
  <1>3. 0 \in S
    <2>1. k \in 0..l /\ k + 0 = k
      BY <1>1
    <2>2. d[k] - d[k] = 0
      BY <1>1, <2>1
    <2> QED
      BY <1>1, <2>1, <2>2
  <1>4. ASSUME NEW i \in 0..n, i < n, i \in S PROVE i + 1 \in S
    <2>1. /\ i + 1 \in 1..n /\ (i + 1) - 1 = i
          /\ k + (i + 1) \in 1..l /\ (k + (i + 1)) - 1 = k + i
          /\ k \in 0..l /\ k + i \in 0..l
      BY <1>1, <1>4
    <2>2. e[i + 1] = e[i] + r[i + 1].dur /\ d[k + (i + 1)] = d[k + i] + s[k + (i + 1)].dur
      BY <1>1, <2>1
    <2>3. r[i + 1] = s[k + (i + 1)] /\ r[i + 1].dur \in Nat
      BY <1>2, <2>1
    <2>4. d[k] \in Nat /\ d[k + i] \in Nat /\ e[i] = d[k + i] - d[k]
      BY <1>1, <1>4, <2>1
    <2>5. e[i + 1] = d[k + (i + 1)] - d[k]
      BY <2>2, <2>3, <2>4
    <2> QED
      BY <1>1, <2>1, <2>5
  <1> HIDE DEF S
  <1>5. 0..n \subseteq S
    BY <1>1, <1>3, <1>4, UpTo
  <1>6. \A i \in 0..n : k + i \in 0..l
    BY <1>1
  <1> QED
    BY <1>5, <1>6 DEF S, n, l, d, e

-----------------------------------------------------------------------------
(* Eviction. *)

\* The loop pops chunks until the rest fits, and no more; it ends when none is left.
LEMMA PoppedIsLeast ==
  ASSUME NEW s \in Seq(Frames), NEW total
  PROVE  LET k == Popped(s, total)
         IN /\ k \in 0..Len(s)
            /\ CachedAfter(s, total, k) <= MaxSeconds \/ k = Len(s)
            /\ \A j \in 0..Len(s) : j < k => ~(CachedAfter(s, total, j) <= MaxSeconds)
  <1> DEFINE Ends == {i \in 0..Len(s) : CachedAfter(s, total, i) <= MaxSeconds \/ i = Len(s)}
             k == CHOOSE i \in Ends : \A j \in Ends : i <= j
  <1>1. Ends \subseteq Nat /\ Len(s) \in Ends
    OBVIOUS
  <1>2. Popped(s, total) = k
    BY DEF Popped
  <1>3. k \in Ends /\ \A j \in Ends : k <= j
    <2> HIDE DEF Ends
    <2>1. \E i \in Ends : \A j \in Ends : i <= j
      <3>1. PICK i \in Ends : \A j \in Ends : ~(<<j, i>> \in OpToRel(<, Nat))
        BY <1>1, NatLessThanWellFounded, WFMin
      <3>2. \A j \in Ends : ~(j < i)
        BY <1>1, <3>1 DEF OpToRel
      <3> QED
        BY <1>1, <3>2
    <2> QED
      BY <2>1
  <1> HIDE DEF k
  <1>4. ASSUME NEW j \in 0..Len(s), j < k PROVE ~(CachedAfter(s, total, j) <= MaxSeconds)
    BY <1>3, <1>4
  <1> QED
    BY <1>2, <1>3, <1>4

LEMMA PoppedInRange ==
  ASSUME NEW s \in Seq(Frames), NEW total
  PROVE  Popped(s, total) \in 0..Len(s)
  BY PoppedIsLeast

\* What is left of a ring ends with the chunk that came last, if anything is left.
LEMMA RingAfterAppend ==
  ASSUME NEW s \in Seq(Frames), NEW f \in Frames, NEW k \in 0..(Len(s) + 1)
  PROVE  LET r == SubSeq(Append(s, f), k + 1, Len(Append(s, f)))
         IN r \in Seq(Frames) /\ (r # <<>> => r[Len(r)] = f)
  <1> DEFINE a == Append(s, f)
             r == SubSeq(a, k + 1, Len(a))
  <1>1. a \in Seq(Frames) /\ Len(a) = Len(s) + 1 /\ a[Len(a)] = f
    BY AppendProperties
  <1>2. \A i \in (k + 1)..Len(a) : a[i] \in Frames
    BY <1>1, ElementOfSeq
  <1> HIDE DEF a
  <1>3. /\ r \in Seq(Frames)
        /\ Len(r) = IF k + 1 <= Len(a) THEN Len(a) - k ELSE 0
        /\ \A i \in 1..(Len(a) - k) : r[i] = a[k + i]
    BY <1>1, <1>2, SubSeqProperties
  <1> HIDE DEF r
  <1>4. ASSUME r # <<>> PROVE r[Len(r)] = f
    <2>1. Len(r) # 0
      BY <1>3, <1>4, EmptySeq
    <2>2. Len(r) = Len(a) - k /\ Len(r) \in 1..(Len(a) - k)
      BY <1>1, <1>3, <2>1
    <2>3. r[Len(r)] = a[k + (Len(a) - k)]
      BY <1>3, <2>2
    <2>4. k + (Len(a) - k) = Len(a)
      BY <1>1
    <2> QED
      BY <1>1, <2>3, <2>4
  <1> QED
    BY <1>3, <1>4 DEF r, a

-----------------------------------------------------------------------------
(* Type correctness. *)

\* The frame in the receiver's hands is not newer than the clock; there is room
\* for one that is not counted yet, and one that is counted has a known node.
FrameInv ==
    /\ rpc # "recv" => frame.time <= now
    /\ rpc = "register" => received[frame.node] < MaxArrivals
    /\ rpc = "append" => frame.node \in known /\ lastSeen[frame.node] = frame.time

TypeInv == TypeOK /\ FrameInv

LEMMA InitType == Init => TypeInv
  <1> SUFFICES ASSUME Init PROVE TypeInv
    OBVIOUS
  <1>1. /\ 0 \in Seqs /\ 0 \in Boots /\ 0 \in 0..MaxArrivals /\ 0 \in 0..MaxTime
    BY ConstantsAssumption
  <1>2. /\ sequence \in [Nodes -> Seqs] /\ boot \in [Nodes -> Boots]
        /\ first \in [Nodes -> Seqs] /\ last \in [Nodes -> Seqs]
        /\ received \in [Nodes -> 0..MaxArrivals] /\ lastSeen \in [Nodes -> 0..MaxTime]
        /\ missing \in [Nodes -> Nat] /\ unordered \in [Nodes -> Nat]
    BY <1>1 DEF Init
  <1>3. /\ heard \in [Nodes -> SUBSET Seqs]
        /\ start \in [Nodes -> Seqs]
    BY <1>1 DEF Init
  <1>4. ring \in [Nodes -> Seq(Frames)] /\ stored \in [Nodes -> Seq(Frames)]
    BY DEF Init
  <1>5. net \subseteq Packets /\ known \subseteq Nodes /\ \A n \in Nodes : n \in known <=> received[n] > 0
    BY DEF Init
  <1> QED
    BY <1>1, <1>2, <1>3, <1>4, <1>5 DEF Init, TypeInv, TypeOK, FrameInv

\* Each action keeps the types.
LEMMA SendType ==
  ASSUME TypeInv, NEW n \in Nodes, Send(n)
  PROVE  TypeInv'
  <1>1. sequence[n] \in Nat /\ sequence[n] < MaxSent
    BY DEF TypeInv, TypeOK, Send
  <1>2. [node |-> n, boot |-> boot[n], seq |-> sequence[n]] \in Packets
    BY <1>1, ConstantsAssumption DEF TypeInv, TypeOK, Packets
  <1>3. net' \subseteq Packets
    BY <1>2 DEF TypeInv, TypeOK, Send
  <1>4. sequence' \in [Nodes -> Seqs]
    <2>1. sequence[n] + 1 \in Seqs
      BY <1>1, ConstantsAssumption
    <2> QED
      BY <2>1 DEF TypeInv, TypeOK, Send
  <1> QED
    BY <1>3, <1>4 DEF TypeInv, TypeOK, FrameInv, Send, receiverVars, registryVars,
                      ringVars, countedVars

LEMMA RestartType == ASSUME TypeInv, NEW n \in Nodes, Restart(n) PROVE TypeInv'
  <1>1. boot[n] + 1 \in Boots /\ 0 \in Seqs
    <2>1. boot[n] \in Boots /\ boot[n] < MaxRestarts
      BY DEF TypeInv, TypeOK, Restart
    <2>2. MaxRestarts \in Nat /\ MaxSent \in Nat
      BY ConstantsAssumption
    <2> QED
      BY <2>1, <2>2
  <1>2. boot' \in [Nodes -> Boots] /\ sequence' \in [Nodes -> Seqs]
    BY <1>1 DEF TypeInv, TypeOK, Restart
  <1> QED
    BY <1>2 DEF TypeInv, TypeOK, FrameInv, Restart, receiverVars, registryVars,
                ringVars, countedVars

LEMMA ReceiveType ==
  ASSUME TypeInv, NEW p \in net, NEW copy \in BOOLEAN, Receive(p, copy)
  PROVE  TypeInv'
  <1>1. p \in Packets /\ now \in 0..MaxTime
    BY DEF TypeInv, TypeOK
  <1>2. frame' \in Frames /\ frame'.node = p.node /\ frame'.time = now
    BY <1>1, ConstantsAssumption DEF Receive, AudioFrame, Packets, Frames
  <1>3. net' \subseteq Packets
    BY DEF TypeInv, TypeOK, Receive
  <1>4. FrameInv'
    BY <1>1, <1>2 DEF FrameInv, Receive, registryVars, Packets, TypeInv, TypeOK
  <1>5. TypeOK'
    BY <1>2, <1>3 DEF TypeInv, TypeOK, Receive, nodeVars, registryVars, ringVars,
                      countedVars
  <1> QED
    BY <1>4, <1>5 DEF TypeInv

LEMMA RegisterType == ASSUME TypeInv, Register PROVE TypeInv'
  <1> DEFINE n == frame.node
             s == frame.seq
  <1>1. /\ frame \in Frames /\ n \in Nodes /\ s \in Seqs
        /\ frame.boot \in Boots /\ frame.time \in 0..MaxTime
    BY DEF TypeInv, TypeOK, Register, Frames
  <1>2. received[n] \in 0..MaxArrivals /\ received[n] < MaxArrivals
    BY <1>1 DEF TypeInv, TypeOK, FrameInv, Register
  <1>3. /\ heard' \in [Nodes -> SUBSET Seqs]
        /\ start' \in [Nodes -> Seqs]
        /\ lastSeen' \in [Nodes -> 0..MaxTime]
        /\ lastSeen'[n] = frame.time
    BY <1>1 DEF TypeInv, TypeOK, Register
  <1>4. /\ known' \subseteq Nodes /\ n \in known'
        /\ first' \in [Nodes -> Seqs] /\ last' \in [Nodes -> Seqs]
        /\ received' \in [Nodes -> 0..MaxArrivals]
        /\ missing' \in [Nodes -> Nat] /\ unordered' \in [Nodes -> Nat]
        /\ \A m \in Nodes : m \in known' <=> received'[m] > 0
    <2>1. CASE CountFirst(n, s)
      <3>1. 1 \in 0..MaxArrivals
        BY <1>2, ConstantsAssumption
      <3>2. /\ known' \subseteq Nodes /\ n \in known'
            /\ first' \in [Nodes -> Seqs] /\ last' \in [Nodes -> Seqs]
            /\ missing' \in [Nodes -> Nat] /\ unordered' \in [Nodes -> Nat]
        BY <1>1, <2>1 DEF CountFirst, TypeInv, TypeOK
      <3>3. received' \in [Nodes -> 0..MaxArrivals]
        BY <1>1, <2>1, <3>1 DEF CountFirst, TypeInv, TypeOK
      <3>4. \A m \in Nodes : received'[m] = IF m = n THEN 1 ELSE received[m]
        BY <1>1, <2>1 DEF CountFirst, TypeInv, TypeOK
      <3>5. \A m \in Nodes : m \in known <=> received[m] > 0
        BY DEF TypeInv, TypeOK
      <3>6. \A m \in Nodes : m \in known' <=> m \in known \/ m = n
        BY <2>1 DEF CountFirst
      <3>7. \A m \in Nodes : m \in known' <=> received'[m] > 0
        BY <3>4, <3>5, <3>6
      <3> QED
        BY <3>2, <3>3, <3>7
    <2>2. CASE CountNext(n, s)
      <3>1. missing[n] \in Nat /\ unordered[n] \in Nat /\ last[n] \in Seqs
        BY <1>1 DEF TypeInv, TypeOK
      <3>2. Missing(missing[n], s, last[n]) \in Nat /\ Unordered(unordered[n], s, last[n]) \in Nat
        BY <1>1, <3>1 DEF Missing, Skipped, Unordered
      <3>3. received[n] + 1 \in 0..MaxArrivals /\ received[n] + 1 > 0
        BY <1>2, ConstantsAssumption
      <3>4. /\ missing' \in [Nodes -> Nat] /\ unordered' \in [Nodes -> Nat]
            /\ last' \in [Nodes -> Seqs] /\ received' \in [Nodes -> 0..MaxArrivals]
        BY <1>1, <2>2, <3>2, <3>3 DEF CountNext, TypeInv, TypeOK
      <3>5. \A m \in Nodes : received'[m] = IF m = n THEN received[n] + 1 ELSE received[m]
        BY <1>1, <2>2 DEF CountNext, TypeInv, TypeOK
      <3> QED
        BY <1>1, <2>2, <3>3, <3>4, <3>5 DEF CountNext, TypeInv, TypeOK
    <2> QED
      BY <2>1, <2>2 DEF Register
  <1> QED
    BY <1>1, <1>3, <1>4 DEF TypeInv, TypeOK, FrameInv, Register, nodeVars, ringVars

LEMMA AppendChunkType == ASSUME TypeInv, AppendChunk PROVE TypeInv'
  <1> DEFINE n == frame.node
             s == Append(ring[n], frame)
             k == Popped(s, cached[n] + frame.dur)
  <1>1. frame \in Frames /\ n \in Nodes
    BY DEF TypeInv, TypeOK, AppendChunk, Frames
  <1>2. ring[n] \in Seq(Frames) /\ stored[n] \in Seq(Frames)
    BY <1>1 DEF TypeInv, TypeOK
  <1>3. s \in Seq(Frames) /\ Len(s) = Len(ring[n]) + 1
    BY <1>1, <1>2, AppendProperties
  <1>4. k \in 0..(Len(ring[n]) + 1)
    BY <1>3, PoppedInRange
  <1>5. SubSeq(s, k + 1, Len(s)) \in Seq(Frames)
    BY <1>1, <1>2, <1>4, RingAfterAppend
  <1>6. Append(stored[n], frame) \in Seq(Frames)
    BY <1>1, <1>2, AppendProperties
  <1>7. ring' \in [Nodes -> Seq(Frames)] /\ stored' \in [Nodes -> Seq(Frames)]
    BY <1>5, <1>6 DEF TypeInv, TypeOK, AppendChunk
  <1> QED
    BY <1>1, <1>7 DEF TypeInv, TypeOK, FrameInv, AppendChunk, nodeVars, registryVars,
                      countedVars

LEMMA ExtractType ==
  ASSUME TypeInv, NEW n, NEW from, NEW to, Extract(n, from, to)
  PROVE  TypeInv'
  BY DEF TypeInv, TypeOK, FrameInv, Extract, nodeVars, receiverVars, registryVars, ringVars,
         countedVars

LEMMA TickType == ASSUME TypeInv, Tick PROVE TypeInv'
  <1>1. now' \in 0..MaxTime /\ \A t \in 0..MaxTime : t <= now => t <= now'
    BY ConstantsAssumption DEF TypeInv, TypeOK, Tick
  <1>2. rpc # "recv" => frame.time \in 0..MaxTime
    BY DEF TypeInv, TypeOK, Frames
  <1> QED
    BY <1>1, <1>2 DEF TypeInv, TypeOK, FrameInv, Tick, nodeVars, receiverVars, registryVars,
                      ringVars, countedVars

LEMMA StutterType == ASSUME TypeInv, UNCHANGED vars PROVE TypeInv'
  BY DEF TypeInv, TypeOK, FrameInv, vars, nodeVars, receiverVars, registryVars, ringVars,
         countedVars

LEMMA NextType == TypeInv /\ [Next]_vars => TypeInv'
  BY SendType, RestartType, ReceiveType, RegisterType, AppendChunkType, ExtractType,
     TickType, StutterType DEF Next

LEMMA TypeAlways == Spec => []TypeInv
  BY InitType, NextType, PTL DEF Spec

\* Every variable keeps its type, the counters stay within the packets received,
\* and the nodes that the registry knows are those it counted packets of
\* (register_frame, RingBufferStore.append).
THEOREM TypeCorrect == Spec => []TypeOK
  <1>1. TypeInv => TypeOK
    BY DEF TypeInv
  <1> QED
    BY <1>1, TypeAlways, PTL

-----------------------------------------------------------------------------
(* The counters add up. *)

\* A node that is not known has nothing counted.
UncountedInv ==
    \A n \in Nodes \ known :
        missing[n] = 0 /\ unordered[n] = 0 /\ heard[n] = {}

CountInv == CountersAddUp /\ UncountedInv

LEMMA RegisterAddsUp ==
  ASSUME TypeInv, CountInv, Register
  PROVE  CountInv'
  <1> DEFINE n == frame.node
             s == frame.seq
  <1>1. n \in Nodes /\ s \in Nat
    BY DEF TypeInv, TypeOK, Register, Frames
  <1>2. \A m \in Nodes : /\ received[m] \in Nat /\ missing[m] \in Nat /\ unordered[m] \in Nat
                         /\ last[m] \in Nat /\ first[m] \in Nat
    BY DEF TypeInv, TypeOK
  <1>3. known \subseteq Nodes
    BY DEF TypeInv, TypeOK
  <1>4. ASSUME CountFirst(n, s) PROVE CountersAddUp'
    <2>1. missing[n] = 0 /\ unordered[n] = 0
      BY <1>1, <1>4 DEF CountFirst, CountInv, UncountedInv
    <2> QED
      BY <1>1, <1>2, <1>3, <1>4, <2>1 DEF CountFirst, CountersAddUp, CountInv, TypeInv, TypeOK
  <1>5. ASSUME CountNext(n, s) PROVE CountersAddUp'
    <2>1. /\ missing'[n] = Missing(missing[n], s, last[n])
          /\ unordered'[n] = Unordered(unordered[n], s, last[n])
          /\ last'[n] = IF s > last[n] THEN s ELSE last[n]
          /\ received'[n] = received[n] + 1
          /\ first'[n] = first[n]
      BY <1>1, <1>5 DEF CountNext, TypeInv, TypeOK
    <2>2. received[n] + missing[n] - unordered[n] = last[n] - first[n] + 1
      BY <1>5 DEF CountNext, CountersAddUp, CountInv
    <2>3. received'[n] + missing'[n] - unordered'[n] = last'[n] - first'[n] + 1
      BY <1>1, <1>2, <2>1, <2>2 DEF Missing, Skipped, Unordered
    <2>4. \A m \in known \ {n} :
             /\ missing'[m] = missing[m] /\ unordered'[m] = unordered[m]
             /\ last'[m] = last[m] /\ received'[m] = received[m] /\ first'[m] = first[m]
      BY <1>1, <1>3, <1>5 DEF CountNext, TypeInv, TypeOK
    <2>5. known' = known
      BY <1>5 DEF CountNext
    <2> QED
      BY <2>3, <2>4, <2>5 DEF CountersAddUp, CountInv
  <1>6. UncountedInv'
    <2>1. known' = known \cup {n}
      BY <1>4, <1>5 DEF Register, CountFirst, CountNext
    <2>2. \A m \in Nodes \ {n} : missing'[m] = missing[m] /\ unordered'[m] = unordered[m]
                                  /\ heard'[m] = heard[m]
      BY <1>1 DEF Register, CountFirst, CountNext, TypeInv, TypeOK
    <2> QED
      BY <2>1, <2>2 DEF UncountedInv, CountInv
  <1> QED
    BY <1>4, <1>5, <1>6 DEF Register, CountInv

\* No other action touches the counters.
LEMMA OthersKeepCounters ==
  ASSUME [Next]_vars, ~Register
  PROVE  UNCHANGED <<registryVars, countedVars>>
  BY DEF Next, vars, Send, Restart, Receive, AppendChunk, Extract, Tick, registryVars,
         countedVars

LEMMA CountStep == TypeInv /\ CountInv /\ [Next]_vars => CountInv'
  <1>1. ASSUME CountInv, UNCHANGED <<registryVars, countedVars>> PROVE CountInv'
    BY <1>1 DEF CountInv, CountersAddUp, UncountedInv, registryVars, countedVars
  <1> QED
    BY <1>1, RegisterAddsUp, OthersKeepCounters

\* packets_received + packets_missing - packets_out_of_order is the number of
\* sequence numbers from the first to the last, whatever the network does and
\* however often nodes restart (NodeRegistry.register_frame).
THEOREM CountersAreConsistent == Spec => []CountersAddUp
  <1>1. Init => CountInv
    BY DEF Init, CountInv, CountersAddUp, UncountedInv
  <1>2. CountInv => CountersAddUp
    BY DEF CountInv
  <1> QED
    BY <1>1, <1>2, CountStep, TypeAlways, PTL DEF Spec

-----------------------------------------------------------------------------
(* Audio is counted before it is stored. *)

\* The clock and the frames that are counted go forward together.
SeenInv ==
    /\ \A n \in Nodes : lastSeen[n] <= now
    /\ rpc = "register" => \A n \in Nodes : lastSeen[n] <= frame.time

AudioInv == AudioIsCounted /\ SeenInv

LEMMA ReceiveCounted ==
  ASSUME TypeInv, AudioInv, NEW p \in net, NEW copy \in BOOLEAN, Receive(p, copy)
  PROVE  AudioInv'
  <1>1. frame'.time = now /\ UNCHANGED <<now, known, lastSeen, received, ring, stored>>
    BY DEF Receive, AudioFrame, registryVars, ringVars
  <1> QED
    BY <1>1 DEF AudioInv, AudioIsCounted, SeenInv, Receive

LEMMA RegisterCounted == ASSUME TypeInv, AudioInv, Register PROVE AudioInv'
  <1> DEFINE n == frame.node
  <1>1. n \in Nodes /\ frame.time \in Nat /\ frame.time <= now
    BY DEF TypeInv, TypeOK, FrameInv, Register, Frames
  <1>2. /\ known' = known \cup {n}
        /\ \A m \in Nodes : received'[m] = IF m = n THEN received[m] + 1 ELSE received[m]
        /\ \A m \in Nodes : lastSeen'[m] = IF m = n THEN frame.time ELSE lastSeen[m]
    <2>1. \A m \in Nodes : m \in known <=> received[m] > 0
      BY DEF TypeInv, TypeOK
    <2>2. received \in [Nodes -> 0..MaxArrivals] /\ lastSeen \in [Nodes -> 0..MaxTime]
      BY DEF TypeInv, TypeOK
    <2>3. CASE CountFirst(n, frame.seq)
      <3>1. received[n] = 0
        BY <1>1, <2>1, <2>2, <2>3 DEF CountFirst
      <3> QED
        BY <1>1, <2>2, <2>3, <3>1 DEF CountFirst, Register
    <2>4. CASE CountNext(n, frame.seq)
      BY <1>1, <2>2, <2>4 DEF CountNext, Register
    <2> QED
      BY <2>3, <2>4 DEF Register
  <1>3. \A m \in Nodes : lastSeen[m] <= frame.time /\ lastSeen[m] \in Nat
    BY DEF AudioInv, SeenInv, Register, TypeInv, TypeOK
  <1>4. SeenInv'
    BY <1>1, <1>2, <1>3 DEF AudioInv, SeenInv, Register
  <1>5. \A m \in Nodes : lastSeen'[m] >= lastSeen[m]
    BY <1>1, <1>2, <1>3
  <1>6. \A m \in Nodes : ring[m] # <<>> =>
          /\ m \in known'
          /\ lastSeen'[m] >= ring[m][Len(ring[m])].time
    <2> SUFFICES ASSUME NEW m \in Nodes, ring[m] # <<>>
                 PROVE  m \in known' /\ lastSeen'[m] >= ring[m][Len(ring[m])].time
      OBVIOUS
    <2>1. m \in known /\ lastSeen[m] >= ring[m][Len(ring[m])].time
      BY DEF AudioInv, AudioIsCounted
    <2>2. ring[m] \in Seq(Frames)
      BY DEF TypeInv, TypeOK
    <2>3. ring[m][Len(ring[m])] \in Frames
      BY <2>2, ElementOfSeq, EmptySeq
    <2>4. ring[m][Len(ring[m])].time \in Nat
      BY <2>3 DEF Frames
    <2> QED
      BY <1>1, <1>2, <1>3, <1>5, <2>1, <2>4
  <1>7. \A m \in Nodes : received[m] = Len(stored[m])
    BY DEF AudioInv, AudioIsCounted, Register, TypeInv, TypeOK
  <1> QED
    BY <1>1, <1>2, <1>4, <1>6, <1>7 DEF AudioInv, AudioIsCounted, Register, ringVars

LEMMA AppendChunkCounted == ASSUME TypeInv, AudioInv, AppendChunk PROVE AudioInv'
  <1> DEFINE n == frame.node
             s == Append(ring[n], frame)
             k == Popped(s, cached[n] + frame.dur)
  <1>1. frame \in Frames /\ n \in Nodes /\ frame.time \in Nat
    BY DEF TypeInv, TypeOK, AppendChunk, Frames
  <1>2. ring[n] \in Seq(Frames) /\ stored[n] \in Seq(Frames)
    BY <1>1 DEF TypeInv, TypeOK
  <1>3. s \in Seq(Frames) /\ Len(s) = Len(ring[n]) + 1
    BY <1>1, <1>2, AppendProperties
  <1>4. k \in 0..(Len(ring[n]) + 1)
    BY <1>3, PoppedInRange
  <1>5. ring'[n] # <<>> => ring'[n][Len(ring'[n])] = frame
    <2>1. ring'[n] = SubSeq(s, k + 1, Len(s))
      BY <1>1 DEF AppendChunk, TypeInv, TypeOK
    <2> HIDE DEF k
    <2>2. LET r == SubSeq(s, k + 1, Len(s)) IN r # <<>> => r[Len(r)] = frame
      BY <1>1, <1>2, <1>4, RingAfterAppend
    <2> QED
      BY <2>1, <2>2
  <1>6. n \in known /\ lastSeen[n] = frame.time
    BY DEF TypeInv, FrameInv, AppendChunk
  <1>7. Len(stored'[n]) = Len(stored[n]) + 1
    BY <1>1, <1>2, AppendProperties DEF AppendChunk, TypeInv, TypeOK
  <1>8. \A m \in Nodes \ {n} : ring'[m] = ring[m] /\ stored'[m] = stored[m]
    BY <1>1 DEF AppendChunk, TypeInv, TypeOK
  <1>9. /\ UNCHANGED <<known, lastSeen, received, now>> /\ rpc = "append" /\ rpc' = "recv"
    BY DEF AppendChunk, registryVars
  <1>10. \A m \in Nodes : received'[m] = Len(stored'[m])
    <2>1. received[n] = Len(stored[n]) + 1
      BY <1>1, <1>9 DEF AudioInv, AudioIsCounted
    <2>2. \A m \in Nodes \ {n} : received[m] = Len(stored[m]) + 0
      BY <1>9 DEF AudioInv, AudioIsCounted
    <2>3. \A m \in Nodes : Len(stored[m]) \in Nat
      BY DEF TypeInv, TypeOK
    <2> QED
      BY <1>7, <1>8, <1>9, <2>1, <2>2, <2>3
  <1>11. \A m \in Nodes : ring'[m] # <<>> =>
           m \in known' /\ lastSeen'[m] >= ring'[m][Len(ring'[m])].time
    <2>1. ASSUME ring'[n] # <<>>
          PROVE  n \in known' /\ lastSeen'[n] >= ring'[n][Len(ring'[n])].time
      <3>1. ring'[n][Len(ring'[n])].time = frame.time
        BY <1>5, <2>1
      <3>2. lastSeen'[n] = frame.time /\ n \in known'
        BY <1>6, <1>9
      <3> QED
        BY <1>1, <3>1, <3>2
    <2>2. \A m \in Nodes \ {n} : ring'[m] # <<>> =>
            m \in known' /\ lastSeen'[m] >= ring'[m][Len(ring'[m])].time
      BY <1>8, <1>9 DEF AudioInv, AudioIsCounted
    <2> QED
      BY <2>1, <2>2
  <1>12. \A m \in Nodes : received'[m] \in Nat /\ Len(stored'[m]) \in Nat
    <2>1. stored' \in [Nodes -> Seq(Frames)] /\ received' \in [Nodes -> 0..MaxArrivals]
      BY AppendChunkType DEF TypeInv, TypeOK
    <2> QED
      BY <2>1, LenProperties
  <1>13. SeenInv'
    BY <1>9 DEF AudioInv, SeenInv
  <1> QED
    <2>1. \A m \in Nodes :
             received'[m] = Len(stored'[m])
                            + (IF rpc' = "append" /\ frame'.node = m THEN 1 ELSE 0)
      BY <1>9, <1>10, <1>12
    <2> QED
      BY <1>11, <1>13, <2>1 DEF AudioInv, AudioIsCounted

LEMMA TickCounted == ASSUME TypeInv, AudioInv, Tick PROVE AudioInv'
  <1>1. now \in Nat /\ \A n \in Nodes : lastSeen[n] \in Nat
    BY DEF TypeInv, TypeOK
  <1>2. now' = now + 1 /\ UNCHANGED <<rpc, frame, known, lastSeen, received, ring, stored>>
    BY DEF Tick, receiverVars, registryVars, ringVars
  <1>3. AudioIsCounted'
    BY <1>2 DEF AudioInv, AudioIsCounted
  <1>4. SeenInv'
    BY <1>1, <1>2 DEF AudioInv, SeenInv
  <1> QED
    BY <1>3, <1>4 DEF AudioInv

LEMMA OthersKeepAudio ==
  ASSUME [Next]_vars, ~Register, ~AppendChunk, ~Tick,
         ~\E p \in net, copy \in BOOLEAN : Receive(p, copy)
  PROVE  UNCHANGED <<rpc, frame, known, lastSeen, received, ring, stored, now>>
  BY DEF Next, vars, Send, Restart, Extract, receiverVars, registryVars, ringVars

LEMMA AudioStep == TypeInv /\ AudioInv /\ [Next]_vars => AudioInv'
  <1>1. ASSUME AudioInv, UNCHANGED <<rpc, frame, known, lastSeen, received, ring, stored, now>>
        PROVE  AudioInv'
    BY <1>1 DEF AudioInv, AudioIsCounted, SeenInv
  <1> QED
    BY <1>1, ReceiveCounted, RegisterCounted, AppendChunkCounted, TickCounted, OthersKeepAudio

\* The receiver counts a frame before it stores it, so no ring holds audio of a node
\* that the registry does not know, or newer than the node's last_seen; and what is
\* counted and not stored is at most the frame in the receiver's hands.
THEOREM AudioIsAlwaysCounted == Spec => []AudioIsCounted
  <1>1. Init => AudioInv
    BY DEF Init, AudioInv, AudioIsCounted, SeenInv
  <1>2. AudioInv => AudioIsCounted
    BY DEF AudioInv
  <1> QED
    BY <1>1, <1>2, AudioStep, TypeAlways, PTL DEF Spec

-----------------------------------------------------------------------------
(* What is in a ring. *)

\* A ring holds the newest frames of its node, in the order they were stored.
RingIsNewest ==
    \A n \in Nodes :
        /\ Len(ring[n]) <= Len(stored[n])
        /\ \A i \in 1..Len(ring[n]) :
              ring[n][i] = stored[n][Len(stored[n]) - Len(ring[n]) + i]

\* The length and the elements of what is left of s when k are popped.
LEMMA PoppedElements ==
  ASSUME NEW s \in Seq(Frames), NEW k \in 0..Len(s)
  PROVE  /\ Len(SubSeq(s, k + 1, Len(s))) = Len(s) - k
         /\ \A i \in 1..(Len(s) - k) : SubSeq(s, k + 1, Len(s))[i] = s[k + i]
  <1>1. \A i \in (k + 1)..Len(s) : s[i] \in Frames
    BY ElementOfSeq
  <1>2. k \in Nat /\ Len(s) \in Nat /\ k <= Len(s)
    OBVIOUS
  <1>3. Len(SubSeq(s, k + 1, Len(s))) = IF k + 1 <= Len(s) THEN Len(s) - (k + 1) + 1 ELSE 0
    BY <1>1, <1>2, SubSeqProperties
  <1>4. \A i \in 1..(Len(s) - (k + 1) + 1) : SubSeq(s, k + 1, Len(s))[i] = s[(k + 1) + i - 1]
    BY <1>1, <1>2, SubSeqProperties
  <1> QED
    BY <1>2, <1>3, <1>4

LEMMA AppendChunkNewest == ASSUME TypeInv, RingIsNewest, AppendChunk PROVE RingIsNewest'
  <1>1. PICK n \in Nodes : n = frame.node /\ frame \in Frames
    BY DEF TypeInv, TypeOK, AppendChunk, Frames
  <1>2. ring[n] \in Seq(Frames) /\ stored[n] \in Seq(Frames)
    BY <1>1 DEF TypeInv, TypeOK
  <1>3. PICK s \in Seq(Frames) : s = Append(ring[n], frame)
    BY <1>1, <1>2, AppendProperties
  <1>4. PICK ls \in Nat, lt \in Nat : ls = Len(ring[n]) /\ lt = Len(stored[n])
    BY <1>2, LenProperties
  <1>5. /\ Len(s) = ls + 1 /\ s[ls + 1] = frame
        /\ \A i \in 1..ls : s[i] = ring[n][i]
    BY <1>1, <1>2, <1>3, <1>4, AppendProperties
  <1>6. PICK k \in 0..(ls + 1) : k = Popped(s, cached[n] + frame.dur)
    BY <1>5, PoppedInRange
  <1>7. ring'[n] = SubSeq(s, k + 1, Len(s)) /\ stored'[n] = Append(stored[n], frame)
    BY <1>1, <1>3, <1>6 DEF AppendChunk, TypeInv, TypeOK
  <1>8. /\ Len(ring'[n]) = ls + 1 - k
        /\ \A i \in 1..(ls + 1 - k) : ring'[n][i] = s[k + i]
    <2>1. k \in 0..Len(s) /\ Len(s) - k = ls + 1 - k
      BY <1>5
    <2>2. /\ Len(SubSeq(s, k + 1, Len(s))) = Len(s) - k
          /\ \A i \in 1..(Len(s) - k) : SubSeq(s, k + 1, Len(s))[i] = s[k + i]
      BY <2>1, PoppedElements
    <2> QED
      BY <1>7, <2>1, <2>2
  <1>9. /\ Len(stored'[n]) = lt + 1 /\ stored'[n][lt + 1] = frame
        /\ \A i \in 1..lt : stored'[n][i] = stored[n][i]
    BY <1>1, <1>2, <1>4, <1>7, AppendProperties
  <1>10. ls <= lt /\ \A i \in 1..ls : ring[n][i] = stored[n][lt - ls + i]
    BY <1>4 DEF RingIsNewest
  <1>11. \A i \in 1..(ls + 1 - k) : ring'[n][i] = stored'[n][(lt + 1) - (ls + 1 - k) + i]
    <2> SUFFICES ASSUME NEW i \in 1..(ls + 1 - k)
                 PROVE  ring'[n][i] = stored'[n][(lt + 1) - (ls + 1 - k) + i]
      OBVIOUS
    <2>1. /\ i \in Nat /\ k \in Nat /\ k + i \in 1..(ls + 1)
          /\ (lt + 1) - (ls + 1 - k) + i = lt - ls + (k + i)
      BY <1>10
    <2>2. ring'[n][i] = s[k + i]
      BY <1>8
    <2>3. CASE k + i = ls + 1
      <3>1. lt - ls + (k + i) = lt + 1
        BY <2>3
      <3> QED
        BY <1>5, <1>9, <2>1, <2>2, <2>3, <3>1
    <2>4. CASE k + i \in 1..ls
      <3>1. lt - ls + (k + i) \in 1..lt
        BY <1>10, <2>4
      <3>2. s[k + i] = stored[n][lt - ls + (k + i)]
        BY <1>5, <1>10, <2>4
      <3> QED
        BY <1>9, <2>1, <2>2, <3>1, <3>2
    <2> QED
      BY <2>1, <2>3, <2>4
  <1>12. /\ Len(ring'[n]) <= Len(stored'[n])
         /\ \A i \in 1..Len(ring'[n]) :
               ring'[n][i] = stored'[n][Len(stored'[n]) - Len(ring'[n]) + i]
    BY <1>8, <1>9, <1>10, <1>11
  <1>13. ASSUME NEW m \in Nodes, m # n
         PROVE  /\ Len(ring'[m]) <= Len(stored'[m])
                /\ \A i \in 1..Len(ring'[m]) :
                      ring'[m][i] = stored'[m][Len(stored'[m]) - Len(ring'[m]) + i]
    <2>1. ring'[m] = ring[m] /\ stored'[m] = stored[m]
      BY <1>1, <1>13 DEF AppendChunk, TypeInv, TypeOK
    <2> QED
      BY <2>1 DEF RingIsNewest
  <1> QED
    BY <1>12, <1>13 DEF RingIsNewest

\* Evictions take the oldest chunks only: no frame that was stored is skipped,
\* repeated or moved within a ring (RingBuffer.append of hub/ring_buffer.py).
THEOREM RingsHoldTheNewest == Spec => []RingIsNewest
  <1>1. Init => RingIsNewest
    BY DEF Init, RingIsNewest
  <1>2. ASSUME TypeInv, RingIsNewest, [Next]_vars PROVE RingIsNewest'
    <2>1. CASE AppendChunk
      BY <1>2, <2>1, AppendChunkNewest
    <2>2. CASE ~AppendChunk
      <3>1. ring' = ring /\ stored' = stored
        BY <1>2, <2>2 DEF Next, Send, Restart, Receive, Register, Extract, Tick, vars,
                          ringVars
      <3> QED
        BY <1>2, <3>1 DEF RingIsNewest
    <2> QED
      BY <2>1, <2>2
  <1> QED
    BY <1>1, <1>2, TypeAlways, PTL DEF Spec

-----------------------------------------------------------------------------
(* How much is in a ring. *)

\* What is left of s when k are popped lasts as long as s without them.
LEMMA DurationOfRest ==
  ASSUME NEW s \in Seq(Frames), NEW k \in 0..Len(s)
  PROVE  Duration(SubSeq(s, k + 1, Len(s))) = Durations(s)[Len(s)] - Durations(s)[k]
  <1> DEFINE r == SubSeq(s, k + 1, Len(s))
  <1>1. \A i \in (k + 1)..Len(s) : s[i] \in Frames
    BY ElementOfSeq
  <1>2. r \in Seq(Frames)
    BY <1>1, SubSeqProperties
  <1>3. Len(r) = Len(s) - k /\ \A i \in 1..Len(r) : r[i] = s[k + i]
    BY PoppedElements
  <1> HIDE DEF r
  <1>4. k \in Nat /\ Len(s) \in Nat /\ k <= Len(s)
    OBVIOUS
  <1>5. k + Len(r) <= Len(s)
    BY <1>3, <1>4
  <1>6. Durations(r)[Len(r)] = Durations(s)[k + Len(r)] - Durations(s)[k]
    <2>1. Len(r) \in 0..Len(r)
      BY <1>3, <1>4
    <2> QED
      BY <1>2, <1>3, <1>4, <1>5, <2>1, DurationsOfPart
  <1>7. k + Len(r) = Len(s)
    BY <1>3, <1>4
  <1> QED
    BY <1>6, <1>7 DEF Duration, r

\* A frame that comes is as much longer for what is kept as it is for what was stored.
LEMMA DurationsOfAppend ==
  ASSUME NEW t \in Seq(Frames), NEW r \in Seq(Frames), NEW f \in Frames, NEW k0 \in Nat,
         k0 + Len(r) = Len(t), \A i \in 1..Len(r) : r[i] = t[k0 + i]
  PROVE  LET d == Durations(Append(t, f))
         IN /\ d[Len(t) + 1] = Durations(t)[Len(t)] + f.dur
            /\ \A i \in 0..Len(t) : Durations(t)[i] = d[i]
            /\ \A i \in 0..(Len(r) + 1) : Durations(Append(r, f))[i] = d[k0 + i] - d[k0]
  <1> DEFINE s == Append(r, f)
             u == Append(t, f)
             ls == Len(r)
             lt == Len(t)
  <1>1. /\ s \in Seq(Frames) /\ Len(s) = ls + 1 /\ s[ls + 1] = f
        /\ \A i \in 1..ls : s[i] = r[i]
    BY AppendProperties
  <1>2. /\ u \in Seq(Frames) /\ Len(u) = lt + 1 /\ u[lt + 1] = f
        /\ \A i \in 1..lt : u[i] = t[i]
    BY AppendProperties
  <1>3. ls \in Nat /\ lt \in Nat /\ k0 + ls = lt
    BY LenProperties
  <1> HIDE DEF s, u
  <1>4. \A i \in 1..Len(s) : s[i] = u[k0 + i]
    <2> SUFFICES ASSUME NEW i \in 1..(ls + 1) PROVE s[i] = u[k0 + i]
      BY <1>1
    <2>1. CASE i = ls + 1
      BY <1>1, <1>2, <1>3, <2>1
    <2>2. CASE i \in 1..ls
      <3>1. k0 + i \in 1..lt
        BY <1>3, <2>2
      <3> QED
        BY <1>1, <1>2, <2>2, <3>1
    <2> QED
      BY <1>3, <2>1, <2>2
  <1>5. \A i \in 1..Len(t) : t[i] = u[0 + i]
    <2> SUFFICES ASSUME NEW i \in 1..Len(t) PROVE t[i] = u[0 + i]
      OBVIOUS
    <2>1. 0 + i = i
      BY <1>3
    <2> QED
      BY <1>2, <2>1
  <1>6. \A i \in 0..(ls + 1) : Durations(s)[i] = Durations(u)[k0 + i] - Durations(u)[k0]
    <2>1. k0 + Len(s) <= Len(u)
      BY <1>1, <1>2, <1>3
    <2>2. \A i \in 0..Len(s) : Durations(s)[i] = Durations(u)[k0 + i] - Durations(u)[k0]
      BY <1>1, <1>2, <1>4, <2>1, DurationsOfPart
    <2> QED
      BY <1>1, <2>2
  <1>7. /\ Durations(u) \in [0..(lt + 1) -> Nat]
        /\ Durations(u)[0] = 0
        /\ \A i \in 1..(lt + 1) : Durations(u)[i] = Durations(u)[i - 1] + u[i].dur
    BY <1>2, DurationsAdd
  <1>8. \A i \in 0..lt : Durations(t)[i] = Durations(u)[i]
    <2>1. 0 + Len(t) <= Len(u)
      BY <1>2, <1>3
    <2>2. \A i \in 0..Len(t) : Durations(t)[i] = Durations(u)[0 + i] - Durations(u)[0]
      <3>1. 0 \in Nat
        OBVIOUS
      <3> QED
        BY <1>2, <1>5, <2>1, <3>1, DurationsOfPart
    <2> SUFFICES ASSUME NEW i \in 0..lt PROVE Durations(t)[i] = Durations(u)[i]
      OBVIOUS
    <2>3. 0 + i = i /\ Durations(u)[i] \in Nat
      BY <1>3, <1>7
    <2>4. Durations(t)[i] = Durations(u)[0 + i] - Durations(u)[0]
      BY <2>2
    <2> QED
      BY <1>7, <2>3, <2>4
  <1>9. Durations(u)[lt + 1] = Durations(t)[lt] + f.dur
    <2>1. lt + 1 \in 1..(lt + 1) /\ (lt + 1) - 1 = lt /\ lt \in 0..lt
      BY <1>3
    <2> QED
      BY <1>2, <1>7, <1>8, <2>1
  <1> QED
    BY <1>6, <1>8, <1>9 DEF s, u

\* With d the durations of l chunks: the ones after the first k last c, which fits, and
\* would not if one more were kept.
Fits(d, l, k, c) ==
    /\ c \in Int
    /\ c = d[l] - d[k]
    /\ c <= MaxSeconds
    /\ k > 0 => d[l] - d[k - 1] > MaxSeconds

\* What is cached is how long the audio in the ring is, told by the durations of all
\* that was stored; that fits, and would not if one chunk more were kept.
RecentInv ==
    /\ DOMAIN cached = Nodes
    /\ \A n \in Nodes :
          Fits(Durations(stored[n]), Len(stored[n]), Len(stored[n]) - Len(ring[n]), cached[n])

\* The ring r, cut from the end of t, after f came and the loop popped its chunks.
LEMMA EvictionIsExact ==
  ASSUME NEW t \in Seq(Frames), NEW r \in Seq(Frames), NEW f \in Frames, NEW k0 \in Nat,
         k0 + Len(r) = Len(t), \A i \in 1..Len(r) : r[i] = t[k0 + i],
         NEW c, Fits(Durations(t), Len(t), k0, c)
  PROVE  LET s == Append(r, f)
             total == c + f.dur
             k == Popped(s, total)
         IN /\ k \in 0..(Len(r) + 1)
            /\ Fits(Durations(Append(t, f)), Len(t) + 1, k0 + k, CachedAfter(s, total, k))
  <1> DEFINE s == Append(r, f)
             u == Append(t, f)
             ls == Len(r)
             lt == Len(t)
             d == Durations(u)
             total == c + f.dur
             k == Popped(s, total)
  <1>1. s \in Seq(Frames) /\ Len(s) = ls + 1
    BY AppendProperties
  <1>2. u \in Seq(Frames) /\ Len(u) = lt + 1
    BY AppendProperties
  <1>3. ls \in Nat /\ lt \in Nat /\ k0 + ls = lt
    BY LenProperties
  <1>4. d \in [0..(lt + 1) -> Nat]
    BY <1>2, DurationsAdd
  <1>5. /\ d[lt + 1] = Durations(t)[lt] + f.dur
        /\ \A i \in 0..lt : Durations(t)[i] = d[i]
        /\ \A i \in 0..(ls + 1) : Durations(s)[i] = d[k0 + i] - d[k0]
    BY DurationsOfAppend
  <1>6. /\ k \in 0..(ls + 1)
        /\ CachedAfter(s, total, k) <= MaxSeconds \/ k = ls + 1
        /\ \A j \in 0..(ls + 1) : j < k => ~(CachedAfter(s, total, j) <= MaxSeconds)
    BY <1>1, PoppedIsLeast
  <1>7. f.dur \in Nat /\ MaxSeconds \in Nat
    BY ConstantsAssumption DEF Frames
  <1> HIDE DEF s, u, ls, lt, d, total, k
  <1>8. k0 \in 0..lt /\ lt \in 0..lt /\ k0 \in 0..(lt + 1) /\ lt \in 0..(lt + 1) /\ lt + 1 \in 0..(lt + 1)
    BY <1>3
  <1>9. d[k0] \in Nat /\ d[lt] \in Nat /\ d[lt + 1] \in Nat /\ d[lt + 1] = d[lt] + f.dur
    BY <1>4, <1>5, <1>8
  <1>10. c = d[lt] - d[k0] /\ (k0 > 0 => Durations(t)[lt] - Durations(t)[k0 - 1] > MaxSeconds)
    BY <1>5, <1>8 DEF lt, Fits
  <1>11. total = d[lt + 1] - d[k0]
    BY <1>7, <1>9, <1>10 DEF total
  <1>12. ASSUME NEW j \in 0..(ls + 1)
         PROVE  /\ k0 + j \in 0..(lt + 1)
                /\ CachedAfter(s, total, j) = d[lt + 1] - d[k0 + j]
                /\ CachedAfter(s, total, j) \in Int
    <2>1. k0 + j \in 0..(lt + 1)
      BY <1>3
    <2>2. d[k0 + j] \in Nat
      BY <1>4, <2>1
    <2>3. Durations(s)[j] = d[k0 + j] - d[k0]
      BY <1>5
    <2> QED
      BY <1>9, <1>11, <2>1, <2>2, <2>3 DEF CachedAfter
  <1>13. CachedAfter(s, total, k) <= MaxSeconds
    <2>1. CASE k = ls + 1
      <3>1. k0 + k = lt + 1
        BY <1>3, <2>1
      <3>2. CachedAfter(s, total, k) = d[lt + 1] - d[lt + 1]
        BY <1>6, <1>12, <3>1
      <3> QED
        BY <1>7, <1>9, <3>2
    <2> QED
      BY <1>6, <2>1
  <1>14. ASSUME k0 + k > 0 PROVE d[lt + 1] - d[k0 + k - 1] > MaxSeconds
    <2>1. CASE k > 0
      <3>1. k - 1 \in 0..(ls + 1) /\ k - 1 < k /\ k0 + (k - 1) = k0 + k - 1
        BY <1>3, <1>6, <2>1
      <3>2. ~(CachedAfter(s, total, k - 1) <= MaxSeconds)
        BY <1>6, <3>1
      <3> QED
        BY <1>7, <1>12, <3>1, <3>2
    <2>2. CASE k = 0
      <3>1. k0 > 0 /\ k0 - 1 \in 0..lt /\ k0 - 1 \in 0..(lt + 1) /\ k0 + k - 1 = k0 - 1
        BY <1>3, <1>14, <2>2
      <3>2. d[lt] - d[k0 - 1] > MaxSeconds
        BY <1>5, <1>8, <1>10, <3>1
      <3>3. d[k0 - 1] \in Nat
        BY <1>4, <3>1
      <3> QED
        BY <1>7, <1>9, <3>1, <3>2, <3>3
    <2> QED
      BY <1>6, <2>1, <2>2
  <1>15. CachedAfter(s, total, k) = d[lt + 1] - d[k0 + k] /\ CachedAfter(s, total, k) \in Int
    BY <1>6, <1>12
  <1> QED
    <2>1. Fits(d, lt + 1, k0 + k, CachedAfter(s, total, k))
      BY <1>3, <1>6, <1>13, <1>14, <1>15 DEF Fits
    <2> QED
      BY <1>6, <2>1 DEF s, u, ls, lt, d, total, k

LEMMA AppendChunkRecent ==
  ASSUME TypeInv, RingIsNewest, RecentInv, AppendChunk
  PROVE  RecentInv'
  <1>1. PICK n \in Nodes : n = frame.node
    BY DEF TypeInv, TypeOK, AppendChunk, Frames
  <1>2. PICK f \in Frames : f = frame
    BY DEF TypeInv, TypeOK, AppendChunk
  <1>3. PICK t \in Seq(Frames) : t = stored[n]
    BY <1>1 DEF TypeInv, TypeOK
  <1>4. PICK r \in Seq(Frames) : r = ring[n]
    BY <1>1 DEF TypeInv, TypeOK
  <1>6. Len(t) \in Nat /\ Len(r) \in Nat /\ Len(r) <= Len(t)
    BY <1>1, <1>3, <1>4, LenProperties DEF RingIsNewest
  <1>7. PICK k0 \in Nat : k0 + Len(r) = Len(t) /\ k0 = Len(t) - Len(r)
    BY <1>6
  <1>8. \A i \in 1..Len(r) : r[i] = t[k0 + i]
    BY <1>1, <1>3, <1>4, <1>7 DEF RingIsNewest
  <1> DEFINE c == cached[n]
             s == Append(r, f)
             u == Append(t, f)
             k == Popped(s, c + f.dur)
             left == CachedAfter(s, c + f.dur, k)
  <1>9. s \in Seq(Frames) /\ Len(s) = Len(r) + 1 /\ u \in Seq(Frames) /\ Len(u) = Len(t) + 1
    BY AppendProperties
  <1>10. Fits(Durations(t), Len(t), k0, c)
    BY <1>1, <1>3, <1>4, <1>7 DEF RecentInv
  <1>11. k \in 0..(Len(r) + 1) /\ Fits(Durations(u), Len(t) + 1, k0 + k, left)
    BY <1>7, <1>8, <1>10, EvictionIsExact
  <1>12. /\ ring' = [ring EXCEPT ![n] = SubSeq(s, k + 1, Len(s))]
         /\ cached' = [cached EXCEPT ![n] = left]
         /\ stored' = [stored EXCEPT ![n] = u]
    BY <1>1, <1>2, <1>3, <1>4 DEF AppendChunk
  <1> HIDE DEF s, u, k, left
  <1>13. /\ stored'[n] = u /\ cached'[n] = left /\ ring'[n] = SubSeq(s, k + 1, Len(s))
         /\ DOMAIN cached' = Nodes
         /\ \A m \in Nodes \ {n} :
               stored'[m] = stored[m] /\ cached'[m] = cached[m] /\ ring'[m] = ring[m]
    BY <1>1, <1>12 DEF TypeInv, TypeOK, RecentInv
  <1>14. Len(ring'[n]) = Len(r) + 1 - k
    <2>1. k \in 0..Len(s)
      BY <1>9, <1>11
    <2> QED
      BY <1>9, <1>13, <2>1, PoppedElements
  <1>15. Len(stored'[n]) = Len(t) + 1 /\ Len(stored'[n]) - Len(ring'[n]) = k0 + k
    <2>1. Len(stored'[n]) = Len(t) + 1
      BY <1>9, <1>13
    <2>2. (Len(t) + 1) - (Len(r) + 1 - k) = k0 + k
      BY <1>6, <1>7, <1>11
    <2> QED
      BY <1>14, <2>1, <2>2
  <1>16. Fits(Durations(stored'[n]), Len(stored'[n]), Len(stored'[n]) - Len(ring'[n]), cached'[n])
    BY <1>11, <1>13, <1>15
  <1> QED
    BY <1>13, <1>16 DEF RecentInv

LEMMA RecentStep ==
  TypeInv /\ RingIsNewest /\ RecentInv /\ [Next]_vars => RecentInv'
  <1>1. ASSUME RecentInv, UNCHANGED <<ring, cached, stored>> PROVE RecentInv'
    BY <1>1 DEF RecentInv
  <1>2. ASSUME [Next]_vars, ~AppendChunk PROVE UNCHANGED <<ring, cached, stored>>
    BY <1>2 DEF Next, Send, Restart, Receive, Register, Extract, Tick, vars, ringVars
  <1> QED
    BY <1>1, <1>2, AppendChunkRecent

LEMMA RecentIsRecentAudio ==
  ASSUME TypeInv, RingIsNewest, RecentInv
  PROVE  RingIsRecentAudio
  <1> SUFFICES ASSUME NEW n \in Nodes
               PROVE  LET s == stored[n]
                          k == Len(s) - Len(ring[n])
                      IN /\ ring[n] = SubSeq(s, k + 1, Len(s))
                         /\ cached[n] = Duration(ring[n])
                         /\ cached[n] <= MaxSeconds
                         /\ k > 0 => Duration(SubSeq(s, k, Len(s))) > MaxSeconds
    BY DEF RingIsRecentAudio
  <1> DEFINE s == stored[n]
             r == ring[n]
             k == Len(s) - Len(r)
  <1>1. s \in Seq(Frames) /\ r \in Seq(Frames) /\ Len(s) \in Nat /\ Len(r) \in Nat
    BY DEF TypeInv, TypeOK
  <1>2. Len(r) <= Len(s) /\ \A i \in 1..Len(r) : r[i] = s[k + i]
    BY DEF RingIsNewest
  <1>3. /\ cached[n] = Durations(s)[Len(s)] - Durations(s)[k]
        /\ cached[n] <= MaxSeconds
        /\ k > 0 => Durations(s)[Len(s)] - Durations(s)[k - 1] > MaxSeconds
    BY DEF RecentInv, Fits
  <1> HIDE DEF s, r
  <1>4. k \in 0..Len(s) /\ Len(s) - k = Len(r)
    BY <1>1, <1>2
  <1> HIDE DEF k
  <1>5. r = SubSeq(s, k + 1, Len(s))
    <2> DEFINE q == SubSeq(s, k + 1, Len(s))
    <2>1. Len(q) = Len(r) /\ \A i \in 1..Len(r) : q[i] = s[k + i]
      BY <1>1, <1>4, PoppedElements
    <2>2. \A i \in (k + 1)..Len(s) : s[i] \in Frames
      <3>1. \A i \in (k + 1)..Len(s) : i \in 1..Len(s)
        BY <1>1, <1>4
      <3> QED
        BY <1>1, <3>1, ElementOfSeq
    <2>3. q \in Seq(Frames)
      BY <1>1, <1>4, <2>2, SubSeqProperties
    <2> HIDE DEF q
    <2>4. q = r
      BY <1>1, <1>2, <2>1, <2>3, SeqEqual
    <2> QED
      BY <2>4 DEF q
  <1>6. Duration(r) = Durations(s)[Len(s)] - Durations(s)[k]
    BY <1>1, <1>4, <1>5, DurationOfRest
  <1>7. ASSUME k > 0 PROVE Duration(SubSeq(s, k, Len(s))) > MaxSeconds
    <2>1. k - 1 \in 0..Len(s) /\ (k - 1) + 1 = k
      BY <1>1, <1>4, <1>7
    <2>2. Duration(SubSeq(s, (k - 1) + 1, Len(s))) = Durations(s)[Len(s)] - Durations(s)[k - 1]
      BY <1>1, <2>1, DurationOfRest
    <2> QED
      BY <1>3, <1>7, <2>1, <2>2
  <1> QED
    BY <1>3, <1>5, <1>6, <1>7 DEF s, r, k

LEMMA RecentAlways == Spec => []RecentInv
  <1>1. Init => RecentInv
    <2> SUFFICES ASSUME Init PROVE RecentInv
      OBVIOUS
    <2>1. <<>> \in Seq(Frames) /\ Len(<<>>) = 0
      OBVIOUS
    <2>2. Durations(<<>>)[0] = 0
      BY <2>1, DurationsAdd
    <2> QED
      BY <2>1, <2>2, ConstantsAssumption DEF Init, RecentInv, Fits
  <1> QED
    BY <1>1, RecentStep, RingsHoldTheNewest, TypeAlways, PTL DEF Spec

\* A ring holds the longest run of newest frames that fits into max_seconds, and the
\* duration the buffer keeps up to date is that of its chunks: nothing is evicted that
\* would still fit, and the figure never drifts (RingBuffer.append and its loop that
\* pops from the left).
THEOREM RingsAreRecentAudio == Spec => []RingIsRecentAudio
  BY RecentIsRecentAudio, RecentAlways, RingsHoldTheNewest, TypeAlways, PTL

-----------------------------------------------------------------------------
(* Answers. *)

\* The selections from the beginnings of s, one after the other.
LEMMA SelectionsAppend ==
  ASSUME NEW s \in Seq(Frames), NEW times
  PROVE  /\ Selections(s, times) \in [0..Len(s) -> Seq(Frames)]
         /\ Selections(s, times)[0] = <<>>
         /\ \A i \in 1..Len(s) :
               Selections(s, times)[i] = IF s[i].time \in times
                                         THEN Append(Selections(s, times)[i - 1], s[i])
                                         ELSE Selections(s, times)[i - 1]
  <1> DEFINE n == Len(s)
             add(i, x) == IF s[i].time \in times THEN Append(x, s[i]) ELSE x
             step == [i \in 1..n |-> [x \in Seq(Frames) |-> add(i, x)]]
  <1>1. n \in Nat
    BY LenProperties
  <1>2. \A i \in 1..n : \A x \in Seq(Frames) : add(i, x) \in Seq(Frames)
    <2>1. \A i \in 1..n : s[i] \in Frames
      BY FramesHaveDurations
    <2> QED
      BY <2>1, AppendProperties
  <1> HIDE DEF add
  <1>3. step \in [1..n -> [Seq(Frames) -> Seq(Frames)]]
    BY <1>2
  <1>4. PICK f \in [0..n -> Seq(Frames)] : Recurs(f, n, <<>>, step)
    <2> HIDE DEF step, n
    <2>1. <<>> \in Seq(Frames)
      OBVIOUS
    <2> QED
      BY <1>1, <1>3, <2>1, RecursionHasFunction
  <1>5. \A i \in 1..n : f[i] = add(i, f[i - 1])
    <2> SUFFICES ASSUME NEW i \in 1..n PROVE f[i] = add(i, f[i - 1])
      OBVIOUS
    <2>1. i - 1 \in 0..n
      BY <1>1
    <2>2. f[i - 1] \in Seq(Frames)
      BY <2>1
    <2>3. step[i][f[i - 1]] = add(i, f[i - 1])
      BY <2>2
    <2> QED
      BY <1>4, <2>3 DEF Recurs
  <1>6. f = [i \in 0..n |-> IF i = 0 THEN <<>>
                            ELSE IF s[i].time \in times THEN Append(f[i - 1], s[i])
                            ELSE f[i - 1]]
    <2>1. \A i \in 0..n : f[i] = IF i = 0 THEN <<>>
                                 ELSE IF s[i].time \in times THEN Append(f[i - 1], s[i])
                                 ELSE f[i - 1]
      <3>1. \A i \in 0..n : i = 0 \/ i \in 1..n
        BY <1>1
      <3>2. f[0] = <<>>
        BY <1>4 DEF Recurs
      <3> QED
        BY <1>5, <3>1, <3>2 DEF add
    <2> QED
      BY <2>1
  <1> DEFINE d == Selections(s, times)
  <1>7. d = [i \in 0..n |-> IF i = 0 THEN <<>>
                            ELSE IF s[i].time \in times THEN Append(d[i - 1], s[i])
                            ELSE d[i - 1]]
    BY <1>6 DEF Selections
  <1> HIDE DEF d, n
  <1>8. d[0] = <<>> /\ \A i \in 1..n : i - 1 \in 0..n /\ d[i] = add(i, d[i - 1])
    <2>1. 0 \in 0..n /\ \A i \in 1..n : i \in 0..n /\ i # 0 /\ i - 1 \in 0..n
      BY <1>1
    <2> QED
      BY <1>7, <2>1 DEF add
  <1>9. \A i \in 0..n : d[i] \in Seq(Frames)
    <2> DEFINE S == {i \in 0..n : d[i] \in Seq(Frames)}
    <2>1. 0 \in S
      <3>1. 0 \in 0..n /\ <<>> \in Seq(Frames)
        BY <1>1
      <3>2. d[0] \in Seq(Frames)
        BY <1>8, <3>1
      <3> QED
        BY <3>1, <3>2
    <2>2. ASSUME NEW k \in 0..n, k < n, k \in S PROVE k + 1 \in S
      <3>1. k + 1 \in 1..n /\ (k + 1) - 1 = k /\ k + 1 \in 0..n
        BY <1>1, <2>2
      <3>2. d[k] \in Seq(Frames)
        BY <2>2
      <3>3. d[k + 1] = add(k + 1, d[k])
        BY <1>8, <3>1
      <3>4. d[k + 1] \in Seq(Frames)
        BY <1>2, <3>1, <3>2, <3>3
      <3> QED
        BY <3>1, <3>4
    <2> HIDE DEF S
    <2>3. 0..n \subseteq S
      BY <1>1, <2>1, <2>2, UpTo
    <2> QED
      BY <2>3 DEF S
  <1>10. DOMAIN d = 0..n
    BY <1>7
  <1>11. d \in [0..n -> Seq(Frames)]
    BY <1>7, <1>9, <1>10
  <1> QED
    BY <1>8, <1>11 DEF d, n, add

LEMMA AppendToRest ==
  ASSUME NEW a \in Seq(Frames), NEW b \in Seq(Frames), NEW f \in Frames
  PROVE  Append(a \o b, f) = a \o Append(b, f)
  <1>1. <<f>> \in Seq(Frames) /\ a \o b \in Seq(Frames)
    BY ConcatProperties
  <1>2. Append(a \o b, f) = (a \o b) \o <<f>> /\ Append(b, f) = b \o <<f>>
    BY <1>1, AppendIsConcat
  <1>3. (a \o b) \o <<f>> = a \o (b \o <<f>>)
    BY <1>1, ConcatAssociative
  <1> QED
    BY <1>2, <1>3

\* A selection from s is one from its beginning and one from its rest.
LEMMA SelectionOfRest ==
  ASSUME NEW s \in Seq(Frames), NEW r \in Seq(Frames), NEW times, NEW k \in Nat,
         k + Len(r) = Len(s), \A i \in 1..Len(r) : r[i] = s[k + i]
  PROVE  Selection(s, times) = Selections(s, times)[k] \o Selection(r, times)
  <1> DEFINE n == Len(r)
             l == Len(s)
             d == Selections(s, times)
             e == Selections(r, times)
             S == {i \in 0..n : d[k + i] = d[k] \o e[i]}
  <1>1. n \in Nat /\ l \in Nat /\ k + n = l
    BY LenProperties
  <1>2. /\ d \in [0..l -> Seq(Frames)]
        /\ \A i \in 1..l : d[i] = IF s[i].time \in times THEN Append(d[i - 1], s[i])
                                  ELSE d[i - 1]
    BY SelectionsAppend
  <1>3. /\ e \in [0..n -> Seq(Frames)] /\ e[0] = <<>>
        /\ \A i \in 1..n : e[i] = IF r[i].time \in times THEN Append(e[i - 1], r[i])
                                  ELSE e[i - 1]
    BY SelectionsAppend
  <1>4. \A i \in 1..n : r[i] = s[k + i] /\ r[i] \in Frames
    BY FramesHaveDurations
  <1> HIDE DEF n, l, d, e
  <1>5. k \in 0..l /\ d[k] \in Seq(Frames)
    BY <1>1, <1>2
  <1>6. 0 \in S
    <2>1. k + 0 = k /\ 0 \in 0..n
      BY <1>1
    <2>2. d[k] \o <<>> = d[k]
      BY <1>5, ConcatEmptySeq
    <2> QED
      BY <1>3, <2>1, <2>2
  <1>7. ASSUME NEW i \in 0..n, i < n, i \in S PROVE i + 1 \in S
    <2>1. /\ i + 1 \in 1..n /\ (i + 1) - 1 = i /\ i + 1 \in 0..n
          /\ k + (i + 1) \in 1..l /\ (k + (i + 1)) - 1 = k + i
      BY <1>1, <1>7
    <2>2. e[i] \in Seq(Frames) /\ d[k + i] = d[k] \o e[i]
      BY <1>3, <1>7
    <2>3. PICK f \in Frames : f = r[i + 1] /\ f = s[k + (i + 1)]
      BY <1>4, <2>1
    <2>4. /\ e[i + 1] = IF f.time \in times THEN Append(e[i], f) ELSE e[i]
          /\ d[k + (i + 1)] = IF f.time \in times THEN Append(d[k + i], f) ELSE d[k + i]
      BY <1>2, <1>3, <2>1, <2>3
    <2>5. Append(d[k] \o e[i], f) = d[k] \o Append(e[i], f)
      BY <1>5, <2>2, AppendToRest
    <2>6. d[k + (i + 1)] = d[k] \o e[i + 1]
      BY <2>2, <2>4, <2>5
    <2> QED
      BY <2>1, <2>6
  <1> HIDE DEF S
  <1>8. 0..n \subseteq S
    BY <1>1, <1>6, <1>7, UpTo
  <1>9. d[k + n] = d[k] \o e[n]
    <2>1. n \in S
      BY <1>1, <1>8
    <2> QED
      BY <2>1 DEF S
  <1> QED
    BY <1>1, <1>9 DEF Selection, n, l, d, e

\* The elements of q are among the first k of s.
Drawn(q, s, k) == \A i \in 1..Len(q) : \E j \in 1..k : s[j] = q[i]

\* What is selected from the beginnings of s is in them.
LEMMA SelectedAreElements ==
  ASSUME NEW s \in Seq(Frames), NEW times, NEW k \in 0..Len(s)
  PROVE  Drawn(Selections(s, times)[k], s, k)
  <1> DEFINE n == Len(s)
             d == Selections(s, times)
             S == {x \in 0..n : Drawn(d[x], s, x)}
  <1>1. n \in Nat
    BY LenProperties
  <1>2. /\ d \in [0..n -> Seq(Frames)] /\ d[0] = <<>>
        /\ \A x \in 1..n : d[x] = IF s[x].time \in times THEN Append(d[x - 1], s[x])
                                  ELSE d[x - 1]
    BY SelectionsAppend
  <1>3. \A x \in 1..n : s[x] \in Frames
    BY FramesHaveDurations
  <1>4. k \in 0..n
    OBVIOUS
  <1> HIDE DEF n, d
  <1>5. 0 \in S
    <2>1. 1..Len(d[0]) = {} /\ 0 \in 0..n
      BY <1>1, <1>2
    <2> QED
      BY <2>1 DEF Drawn
  <1>6. ASSUME NEW x \in 0..n, x < n, x \in S PROVE x + 1 \in S
    <2>1. x + 1 \in 1..n /\ (x + 1) - 1 = x /\ x + 1 \in 0..n
      BY <1>1, <1>6
    <2>2. PICK f \in Frames : f = s[x + 1]
      BY <1>3, <2>1
    <2>3. PICK b \in Seq(Frames) : b = d[x]
      BY <1>2
    <2>4. \A q \in 1..Len(b) : \E j \in 1..x : s[j] = b[q]
      BY <1>6, <2>3 DEF Drawn
    <2>5. \A j \in 1..x : j \in 1..(x + 1)
      BY <2>1
    <2>6. CASE d[x + 1] = b
      <3>1. Drawn(d[x + 1], s, x + 1)
        BY <2>4, <2>5, <2>6 DEF Drawn
      <3> QED
        BY <2>1, <3>1
    <2>7. CASE d[x + 1] = Append(b, f)
      <3>1. /\ Len(Append(b, f)) = Len(b) + 1 /\ Append(b, f)[Len(b) + 1] = f
            /\ \A q \in 1..Len(b) : Append(b, f)[q] = b[q]
        BY AppendProperties
      <3>2. ASSUME NEW q \in 1..Len(Append(b, f))
            PROVE  \E j \in 1..(x + 1) : s[j] = Append(b, f)[q]
        <4>1. q \in 1..Len(b) \/ q = Len(b) + 1
          BY <3>1, LenProperties
        <4>2. CASE q \in 1..Len(b)
          BY <2>4, <2>5, <3>1, <4>2
        <4>3. CASE q = Len(b) + 1
          <5>1. x + 1 \in 1..(x + 1)
            BY <2>1
          <5> QED
            BY <2>2, <3>1, <4>3, <5>1
        <4> QED
          BY <4>1, <4>2, <4>3
      <3>3. Drawn(d[x + 1], s, x + 1)
        BY <2>7, <3>2 DEF Drawn
      <3> QED
        BY <2>1, <3>3
    <2> QED
      BY <1>2, <2>1, <2>2, <2>3, <2>6, <2>7
  <1> HIDE DEF S
  <1>7. 0..n \subseteq S
    BY <1>1, <1>5, <1>6, UpTo
  <1> QED
    BY <1>4, <1>7 DEF S, d

\* The chunks are the newest of those that came to t at the times, and those before them
\* no longer fit.
NewestOf(chunks, t, times) ==
    LET all == Selection(t, times)
        k   == Len(all) - Len(chunks)
    IN /\ chunks = SubSeq(all, k + 1, Len(all))
       /\ \A i \in 1..k : \E j \in 1..Len(t) :
             /\ t[j] = all[i]
             /\ Duration(SubSeq(t, j, Len(t))) > MaxSeconds

\* A client that cuts a window out of a ring is answered with the newest part of what
\* a ring without limit would give, and what is left out no longer fits.
LEMMA CutIsWhole ==
  ASSUME NEW t \in Seq(Frames), NEW r \in Seq(Frames), NEW k0 \in Nat, NEW times,
         k0 + Len(r) = Len(t), \A i \in 1..Len(r) : r[i] = t[k0 + i],
         k0 > 0 => Durations(t)[Len(t)] - Durations(t)[k0 - 1] > MaxSeconds
  PROVE  NewestOf(Selection(r, times), t, times)
  <1> DEFINE all    == Selection(t, times)
             chunks == Selection(r, times)
             old    == Selections(t, times)[k0]
             k      == Len(all) - Len(chunks)
             l      == Len(t)
  <1>1. l \in Nat /\ k0 \in 0..l /\ Len(r) \in 0..Len(r) /\ l \in 0..l
    BY LenProperties
  <1>2. old \in Seq(Frames) /\ chunks \in Seq(Frames)
    <2>1. old \in Seq(Frames)
      BY <1>1, SelectionsAppend
    <2>2. Selections(r, times)[Len(r)] \in Seq(Frames)
      BY <1>1, SelectionsAppend
    <2> QED
      BY <2>1, <2>2 DEF Selection
  <1>3. all = old \o chunks
    BY SelectionOfRest
  <1>4. \A i \in 1..Len(old) : \E j \in 1..k0 : t[j] = old[i]
    <2>1. Drawn(old, t, k0)
      BY <1>1, SelectedAreElements
    <2> QED
      BY <2>1 DEF Drawn
  <1> HIDE DEF all, chunks, old
  <1>5. PICK lo \in Nat, lc \in Nat : lo = Len(old) /\ lc = Len(chunks)
    BY <1>2, LenProperties
  <1>6. /\ all \in Seq(Frames) /\ Len(all) = lo + lc
        /\ \A i \in 1..(lo + lc) : all[i] = IF i <= lo THEN old[i] ELSE chunks[i - lo]
    BY <1>2, <1>3, <1>5, ConcatProperties
  <1>7. k = lo
    BY <1>5, <1>6
  <1>8. chunks = SubSeq(all, lo + 1, Len(all))
    <2> DEFINE q == SubSeq(all, lo + 1, Len(all))
    <2>1. lo \in 0..Len(all) /\ Len(all) - lo = lc
      BY <1>5, <1>6
    <2>2. Len(q) = lc /\ \A i \in 1..lc : q[i] = all[lo + i]
      BY <1>6, <2>1, PoppedElements
    <2>3. q \in Seq(Frames)
      <3>1. \A i \in (lo + 1)..Len(all) : i \in 1..Len(all)
        BY <1>5, <1>6
      <3>2. \A i \in (lo + 1)..Len(all) : all[i] \in Frames
        BY <1>6, <3>1, ElementOfSeq
      <3> QED
        BY <1>6, <2>1, <3>2, SubSeqProperties
    <2>4. \A i \in 1..lc : all[lo + i] = chunks[i]
      <3> SUFFICES ASSUME NEW i \in 1..lc PROVE all[lo + i] = chunks[i]
        OBVIOUS
      <3>1. lo + i \in 1..(lo + lc) /\ ~(lo + i <= lo) /\ (lo + i) - lo = i
        OBVIOUS
      <3> QED
        BY <1>6, <3>1
    <2> HIDE DEF q
    <2>5. q = chunks
      BY <1>2, <1>5, <2>2, <2>3, <2>4, SeqEqual
    <2> QED
      BY <2>5 DEF q
  <1>9. ASSUME NEW i \in 1..lo
        PROVE  \E j \in 1..Len(t) : t[j] = all[i] /\ Duration(SubSeq(t, j, Len(t))) > MaxSeconds
    <2>1. PICK j \in 1..k0 : t[j] = old[i]
      BY <1>4, <1>5
    <2>2. i \in 1..(lo + lc) /\ i <= lo
      OBVIOUS
    <2>3. t[j] = all[i]
      BY <1>6, <2>1, <2>2
    <2>4. j \in 1..l /\ j - 1 \in 0..l /\ k0 - 1 \in 0..l /\ j - 1 <= k0 - 1 /\ k0 > 0
          /\ (j - 1) + 1 = j
      BY <1>1
    <2>5. Durations(t)[j - 1] <= Durations(t)[k0 - 1]
      BY <2>4, DurationsGrow
    <2>6. /\ Durations(t)[j - 1] \in Nat /\ Durations(t)[k0 - 1] \in Nat
          /\ Durations(t)[l] \in Nat
      BY <1>1, <2>4, DurationsAdd
    <2>7. Duration(SubSeq(t, (j - 1) + 1, Len(t))) = Durations(t)[l] - Durations(t)[j - 1]
      BY <2>4, DurationOfRest
    <2>8. Durations(t)[l] - Durations(t)[k0 - 1] > MaxSeconds
      BY <2>4
    <2>9. Duration(SubSeq(t, j, Len(t))) > MaxSeconds
      BY <2>4, <2>5, <2>6, <2>7, <2>8, ConstantsAssumption
    <2> QED
      BY <2>3, <2>4, <2>9
  <1> QED
    BY <1>7, <1>8, <1>9 DEF NewestOf, all, chunks, k

LEMMA ExtractIsWhole ==
  ASSUME TypeInv, RingIsNewest, RecentInv,
         NEW n \in Nodes, NEW from \in 0..MaxTime, NEW to \in 0..MaxTime, Extract(n, from, to)
  PROVE  AnswerIsWhole'
  <1>1. PICK t \in Seq(Frames) : t = stored[n]
    BY DEF TypeInv, TypeOK
  <1>2. PICK r \in Seq(Frames) : r = ring[n]
    BY DEF TypeInv, TypeOK
  <1>3. Len(t) \in Nat /\ Len(r) \in Nat /\ Len(r) <= Len(t)
    BY <1>1, <1>2, LenProperties DEF RingIsNewest
  <1>4. PICK k0 \in Nat : k0 + Len(r) = Len(t) /\ k0 = Len(t) - Len(r)
    BY <1>3
  <1>5. \A i \in 1..Len(r) : r[i] = t[k0 + i]
    BY <1>1, <1>2, <1>4 DEF RingIsNewest
  <1>6. k0 > 0 => Durations(t)[Len(t)] - Durations(t)[k0 - 1] > MaxSeconds
    BY <1>1, <1>2, <1>4 DEF RecentInv, Fits
  <1>7. /\ clip' = [node |-> n, from |-> from, to |-> to, chunks |-> Selection(r, from..to)]
        /\ stored'[n] = t
    BY <1>1, <1>2 DEF Extract, Window
  <1>8. NewestOf(Selection(r, from..to), t, from..to)
    BY <1>4, <1>5, <1>6, CutIsWhole
  <1> QED
    BY <1>7, <1>8 DEF NewestOf, AnswerIsWhole

\* Whenever a client is answered, it gets every frame of the node that came within its
\* window, in the order they came, but for the oldest, and those are only missing when
\* what came from them on no longer fits into max_seconds
\* (RingBufferStore.extract, PerNodeRingBuffer.extract).
THEOREM AnswersAreAlwaysWhole == Spec => AnswersAreWhole
  <1>1. ASSUME TypeInv, RingIsNewest, RecentInv, [Next]_vars
        PROVE  clip' # clip => AnswerIsWhole'
    <2>1. CASE \E n \in Nodes, from, to \in 0..MaxTime : Extract(n, from, to)
      BY <1>1, <2>1, ExtractIsWhole
    <2>2. CASE ~\E n \in Nodes, from, to \in 0..MaxTime : Extract(n, from, to)
      <3>1. clip' = clip
        BY <1>1, <2>2 DEF Next, Send, Restart, Receive, Register, AppendChunk, Tick, vars
      <3> QED
        BY <3>1
    <2> QED
      BY <2>1, <2>2
  <1>2. TypeInv /\ RingIsNewest /\ RecentInv /\ [Next]_vars => [clip' # clip => AnswerIsWhole']_vars
    BY <1>1
  <1> QED
    BY <1>2, RecentAlways, RingsHoldTheNewest, TypeAlways, PTL DEF Spec, AnswersAreWhole

-----------------------------------------------------------------------------
(* What is missing is counted. *)

\* The numbers from f to l that are not in H.
Unheard(f, l, H) == (f..l) \ H

\* A number that comes late fills a hole, or is a repetition.
LEMMA LateNumber ==
  ASSUME NEW f \in Int, NEW l \in Int, NEW H, NEW s \in Int
  PROVE  LET before == Unheard(f, l, H)
             after  == Unheard(f, l, H \cup {s})
         IN /\ Cardinality(before) \in Nat /\ Cardinality(after) \in Nat
            /\ Cardinality(after) <= Cardinality(before)
            /\ Cardinality(before) <= Cardinality(after) + 1
  <1> DEFINE before == Unheard(f, l, H)
             after  == Unheard(f, l, H \cup {s})
  <1>1. after = before \ {s}
    BY DEF Unheard
  <1>2. IsFiniteSet(before)
    BY FS_Interval, FS_Difference DEF Unheard
  <1>3. Cardinality(before) \in Nat
    BY <1>2, FS_CardinalityType
  <1> HIDE DEF before, after
  <1>4. IsFiniteSet(after)
        /\ Cardinality(after) = IF s \in before THEN Cardinality(before) - 1
                                ELSE Cardinality(before)
    BY <1>1, <1>2, FS_RemoveElement
  <1>5. Cardinality(after) \in Nat
    BY <1>4, FS_CardinalityType
  <1> QED
    BY <1>3, <1>4, <1>5 DEF before, after

\* A number that comes next adds the numbers it skips.
LEMMA NextNumber ==
  ASSUME NEW f \in Int, NEW l \in Int, NEW s \in Int, NEW H \in SUBSET (0..l),
         f <= l, l < s
  PROVE  /\ Cardinality(Unheard(f, l, H)) \in Nat
         /\ Cardinality(Unheard(f, s, H \cup {s})) = Cardinality(Unheard(f, l, H)) + (s - l - 1)
  <1> DEFINE before == Unheard(f, l, H)
             after  == Unheard(f, s, H \cup {s})
             skip   == (l + 1)..(s - 1)
  <1>1. after = before \cup skip /\ before \cap skip = {}
    BY DEF Unheard
  <1>2. IsFiniteSet(before)
    BY FS_Interval, FS_Difference DEF Unheard
  <1>3. Cardinality(before) \in Nat
    BY <1>2, FS_CardinalityType
  <1>4. IsFiniteSet(skip) /\ Cardinality(skip) = s - l - 1
    BY FS_Interval
  <1>5. Cardinality(before \cap skip) = 0
    BY <1>1, FS_EmptySet
  <1>6. Cardinality(before \cup skip)
          = Cardinality(before) + Cardinality(skip) - Cardinality(before \cap skip)
    BY <1>2, <1>4, FS_Union
  <1> HIDE DEF before, after, skip
  <1>7. Cardinality(after) = Cardinality(before) + (s - l - 1)
    BY <1>1, <1>3, <1>4, <1>5, <1>6
  <1> QED
    BY <1>3, <1>7 DEF before, after

\* The numbers from the first to the last that were not counted.
Hole(n) == Unheard(first[n], last[n], heard[n])

HoleInv(n) ==
    /\ start[n] = first[n]
    /\ first[n] \in heard[n]
    /\ last[n] \in heard[n]
    /\ \A t \in heard[n] : t <= last[n]
    /\ Cardinality(Hole(n)) <= missing[n]
    /\ missing[n] <= Cardinality(Hole(n)) + unordered[n]

LossInv == UncountedInv /\ \A n \in known : HoleInv(n)

\* The gaps the property speaks of are the holes the counters measure.
LEMMA GapIsHole ==
  ASSUME TypeInv, NEW n \in Nodes, HoleInv(n)
  PROVE  Gap(n) = Hole(n)
  <1>1. /\ heard[n] \subseteq Seqs
        /\ first[n] \in Seqs /\ last[n] \in Seqs
    BY ConstantsAssumption DEF TypeInv, TypeOK
  <1>2. start[n] = first[n] /\ first[n] \in heard[n] /\ last[n] \in heard[n]
        /\ \A t \in heard[n] : t <= last[n]
    BY DEF HoleInv
  <1>3. ASSUME NEW s \in Gap(n) PROVE s \in Hole(n)
    <2>1. s \in Nat /\ s \notin heard[n] /\ s > first[n]
      BY <1>2 DEF Gap
    <2>2. PICK t \in heard[n] : t > s
      BY DEF Gap
    <2> QED
      BY <1>1, <1>2, <2>1, <2>2 DEF Hole, Unheard
  <1>4. ASSUME NEW s \in Hole(n) PROVE s \in Gap(n)
    <2>1. s \in first[n]..last[n] /\ s \notin heard[n]
      BY DEF Hole, Unheard
    <2>2. s \in Seqs /\ s > first[n] /\ last[n] > s
      BY <1>1, <1>2, <2>1, ConstantsAssumption
    <2> QED
      BY <1>2, <2>1, <2>2 DEF Gap
  <1> QED
    BY <1>3, <1>4

LEMMA FirstLoss ==
  ASSUME TypeInv, LossInv, Register, CountFirst(frame.node, frame.seq)
  PROVE  HoleInv(frame.node)'
  <1> DEFINE n == frame.node
             s == frame.seq
  <1>1. n \in Nodes /\ s \in Seqs
    BY DEF TypeInv, TypeOK, Register, Frames
  <1>2. heard[n] = {} /\ missing[n] = 0 /\ unordered[n] = 0
    BY <1>1, ConstantsAssumption DEF LossInv, UncountedInv, CountFirst
  <1>3. heard'[n] = {s} /\ start'[n] = s
    BY <1>1, <1>2 DEF Register, TypeInv, TypeOK
  <1>4. first'[n] = s /\ last'[n] = s /\ missing'[n] = 0 /\ unordered'[n] = 0
    BY <1>1, <1>2 DEF CountFirst, TypeInv, TypeOK
  <1>5. (s..s) \ {s} = {}
    BY <1>1
  <1>6. Cardinality({}) = 0
    BY FS_EmptySet
  <1>7. n' = n
    BY DEF Register
  <1>8. Hole(n)' = {}
    BY <1>3, <1>4, <1>5, <1>7 DEF Hole, Unheard
  <1>9. \A t \in {s} : t <= s
    BY <1>1
  <1>10. Cardinality(Hole(n)') = 0
    BY <1>6, <1>8
  <1>11. /\ start'[n] = first'[n] /\ first'[n] \in heard'[n]
         /\ last'[n] \in heard'[n] /\ \A t \in heard'[n] : t <= last'[n]
    BY <1>3, <1>4, <1>9
  <1>12. Cardinality(Hole(n)') <= missing'[n]
         /\ missing'[n] <= Cardinality(Hole(n)') + unordered'[n]
    BY <1>4, <1>10
  <1> QED
    BY <1>7, <1>11, <1>12 DEF HoleInv

LEMMA NextLoss ==
  ASSUME TypeInv, LossInv, Register, CountNext(frame.node, frame.seq)
  PROVE  HoleInv(frame.node)'
  <1> DEFINE n == frame.node
             s == frame.seq
             H == heard[n]
             l == last[n]
             f == first[n]
  <1>1. n \in Nodes /\ s \in Nat /\ n' = n
    BY ConstantsAssumption DEF TypeInv, TypeOK, Register, Frames
  <1>2. /\ l \in Nat /\ f \in Nat /\ H \subseteq Nat
        /\ missing[n] \in Nat /\ unordered[n] \in Nat
    <2>1. H \subseteq Nat
      <3>1. heard[n] \subseteq Seqs
        BY <1>1 DEF TypeInv, TypeOK
      <3> QED
        BY <3>1, ConstantsAssumption
    <2> QED
      BY <1>1, <2>1 DEF TypeInv, TypeOK
  <1>3. HoleInv(n)
    BY DEF LossInv, CountNext
  <1>4. start[n] = f /\ f \in H /\ l \in H /\ \A t \in H : t <= l
    BY <1>3 DEF HoleInv
  <1>5. heard'[n] = H \cup {s} /\ start'[n] = f
    BY <1>1, <1>4 DEF Register, TypeInv, TypeOK
  <1>6. /\ missing'[n] = Missing(missing[n], s, l)
        /\ unordered'[n] = Unordered(unordered[n], s, l)
        /\ last'[n] = IF s > l THEN s ELSE l
        /\ first'[n] = f
    BY <1>1 DEF CountNext, TypeInv, TypeOK
  <1>7. Hole(n)' = Unheard(f, last'[n], H \cup {s})
    BY <1>1, <1>5, <1>6 DEF Hole
  <1>8. Cardinality(Unheard(f, l, H)) <= missing[n]
        /\ missing[n] <= Cardinality(Unheard(f, l, H)) + unordered[n]
    BY <1>3 DEF HoleInv, Hole
  <1>9. Cardinality(Hole(n)') <= missing'[n]
        /\ missing'[n] <= Cardinality(Hole(n)') + unordered'[n]
    <2>1. CASE s <= l
      <3>1. /\ missing'[n] = missing[n] /\ unordered'[n] = unordered[n] + 1 /\ last'[n] = l
        BY <1>1, <1>2, <1>6, <2>1 DEF Missing, Skipped, Unordered
      <3>2. /\ Cardinality(Unheard(f, l, H)) \in Nat
            /\ Cardinality(Unheard(f, l, H \cup {s})) \in Nat
            /\ Cardinality(Unheard(f, l, H \cup {s})) <= Cardinality(Unheard(f, l, H))
            /\ Cardinality(Unheard(f, l, H)) <= Cardinality(Unheard(f, l, H \cup {s})) + 1
        <4>1. f \in Int /\ l \in Int /\ s \in Int
          BY <1>1, <1>2
        <4> HIDE DEF H, l, f, s
        <4> QED
          BY <4>1, LateNumber
      <3> QED
        BY <1>2, <1>7, <1>8, <3>1, <3>2
    <2>2. CASE s > l
      <3>1. /\ missing'[n] = missing[n] + Skipped(s, l) /\ unordered'[n] = unordered[n]
            /\ last'[n] = s
        BY <1>1, <1>2, <1>6, <2>2 DEF Missing, Unordered
      <3>2. /\ Cardinality(Unheard(f, l, H)) \in Nat
            /\ Cardinality(Unheard(f, s, H \cup {s})) = Cardinality(Unheard(f, l, H)) + (s - l - 1)
        <4>1. f \in Int /\ l \in Int /\ s \in Int
          BY <1>1, <1>2
        <4>2. f <= l
          BY <1>4
        <4>3. l < s
          BY <1>1, <1>2, <2>2
        <4>4. H \in SUBSET (0..l)
          BY <1>2, <1>4
        <4> HIDE DEF H, l, f, s
        <4> QED
          BY <4>1, <4>2, <4>3, <4>4, NextNumber
      <3>3. Skipped(s, l) = s - l - 1
        BY <1>1, <1>2, <2>2 DEF Skipped
      <3> QED
        BY <1>1, <1>2, <1>7, <1>8, <3>1, <3>2, <3>3
    <2> QED
      BY <1>1, <1>2, <2>1, <2>2
  <1>10. last'[n] \in H \cup {s} /\ \A t \in H \cup {s} : t <= last'[n]
    BY <1>1, <1>2, <1>4, <1>6
  <1> QED
    BY <1>1, <1>4, <1>5, <1>6, <1>9, <1>10 DEF HoleInv, Hole

LEMMA LossStep == TypeInv /\ CountInv /\ LossInv /\ [Next]_vars => LossInv'
  <1> SUFFICES ASSUME TypeInv, CountInv, LossInv, [Next]_vars PROVE LossInv'
    OBVIOUS
  <1>1. CASE Register
    <2> DEFINE n == frame.node
    <2>1. n \in Nodes /\ known \subseteq Nodes /\ UNCHANGED frame
      BY <1>1 DEF TypeInv, TypeOK, Register, Frames
    <2>2. UncountedInv'
      BY <1>1, RegisterAddsUp DEF CountInv
    <2>3. HoleInv(n)'
      BY <1>1, FirstLoss, NextLoss DEF Register
    <2>4. known' = known \cup {n}
      BY <1>1 DEF Register, CountFirst, CountNext
    <2>5. ASSUME NEW m \in known, m # n PROVE HoleInv(m)'
      <3>1. /\ heard'[m] = heard[m] /\ start'[m] = start[m] /\ first'[m] = first[m]
            /\ last'[m] = last[m] /\ missing'[m] = missing[m] /\ unordered'[m] = unordered[m]
        BY <1>1, <2>1, <2>5 DEF Register, CountFirst, CountNext, TypeInv, TypeOK
      <3>2. HoleInv(m)
        BY <2>5 DEF LossInv
      <3> QED
        BY <3>1, <3>2 DEF HoleInv, Hole
    <2> QED
      BY <2>1, <2>2, <2>3, <2>4, <2>5 DEF LossInv
  <1>2. CASE ~Register
    <2>1. UNCHANGED <<registryVars, countedVars>>
      BY <1>2, OthersKeepCounters
    <2> QED
      BY <2>1 DEF LossInv, UncountedInv, HoleInv, Hole, registryVars, countedVars
  <1> QED
    BY <1>1, <1>2

LEMMA LossBounds ==
  ASSUME TypeInv, LossInv, NEW n \in Nodes
  PROVE  /\ Cardinality(Gap(n)) <= missing[n]
         /\ missing[n] <= Cardinality(Gap(n)) + unordered[n]
  <1>1. CASE n \in known
    BY <1>1, GapIsHole DEF LossInv, HoleInv
  <1>2. CASE n \notin known
    <2>1. heard[n] = {} /\ missing[n] = 0 /\ unordered[n] = 0
      BY <1>2, ConstantsAssumption DEF LossInv, UncountedInv
    <2>2. Gap(n) = {}
      BY <2>1 DEF Gap
    <2> QED
      BY <2>1, <2>2, FS_EmptySet
  <1> QED
    BY <1>1, <1>2

\* Each number of a node that never came, between the first that came and the greatest,
\* is counted in packets_missing, and no more than never came or came out of order;
\* packets that come late or twice, and numbers that start again, do not hide it
\* (NodeRegistry.register_frame).
THEOREM LossIsAlwaysKnown == Spec => []LossIsKnown
  <1>1. Init => CountInv /\ LossInv
    BY DEF Init, CountInv, CountersAddUp, UncountedInv, LossInv
  <1>2. TypeInv /\ LossInv => LossIsKnown
    BY LossBounds DEF LossIsKnown
  <1> QED
    BY <1>1, <1>2, CountStep, LossStep, TypeAlways, PTL DEF Spec
=============================================================================

-------------------------- MODULE JobServiceProofs --------------------------
(***************************************************************************)
(* What JobService promises, for any number of jobs and any capacity. What *)
(* implements JobService promises it too.                                  *)
(***************************************************************************)
EXTENDS JobService, SequenceTheorems, TLAPS

Inv == TypeOK /\ Orderly

LEMMA InitInv == ASSUME Capacity \in Nat PROVE Init => Inv
  <1> SUFFICES ASSUME Init PROVE Inv
    OBVIOUS
  <1>1. waiting \in Seq(Jobs) /\ Len(waiting) = 0 /\ 1..Len(waiting) = {}
    BY DEF Init
  <1>2. \A j \in Jobs : outcome[j] = "none"
    BY DEF Init
  <1>3. Orderly
    BY <1>1, <1>2 DEF Orderly
  <1> QED
    BY <1>1, <1>3 DEF Init, Inv, TypeOK

LEMMA AcceptInv ==
  ASSUME Inv, Capacity \in Nat, NEW j \in Jobs, Accept(j)
  PROVE  Inv'
  <1>1. PICK w \in Seq(Jobs), n \in Nat : w = waiting /\ n = Len(w)
    BY LenProperties DEF Inv, TypeOK
  <1>2. /\ waiting' \in Seq(Jobs) /\ Len(waiting') = n + 1 /\ waiting'[n + 1] = j
        /\ \A i \in 1..n : waiting'[i] = w[i]
    BY <1>1, AppendProperties DEF Accept
  <1>3. \A i \in 1..n : w[i] \in Jobs /\ w[i] # j
    <2>1. outcome[j] # "waiting"
      BY DEF Accept
    <2> QED
      BY <1>1, <2>1, ElementOfSeq DEF Inv, Orderly
  <1>4. \A k \in Jobs : outcome'[k] = IF k = j THEN "waiting" ELSE outcome[k]
    BY DEF Accept, Inv, TypeOK
  <1>5. TypeOK'
    BY <1>2 DEF Accept, Inv, TypeOK
  <1>6. Capacity = 0 \/ Len(waiting') <= Capacity
    BY <1>1, <1>2 DEF Accept
  <1>7. ASSUME NEW k \in Jobs
        PROVE  outcome'[k] = "waiting" <=> \E i \in 1..Len(waiting') : waiting'[i] = k
    <2>1. CASE k = j
      <3>1. n + 1 \in 1..Len(waiting')
        BY <1>2
      <3> QED
        BY <1>2, <1>4, <2>1, <3>1
    <2>2. CASE k # j
      <3>1. outcome'[k] = "waiting" <=> \E i \in 1..n : w[i] = k
        BY <1>1, <1>4, <2>2 DEF Inv, Orderly
      <3>2. \A i \in 1..(n + 1) : i \in 1..n \/ i = n + 1
        OBVIOUS
      <3>3. \A i \in 1..n : i \in 1..(n + 1)
        OBVIOUS
      <3> QED
        BY <1>2, <2>2, <3>1, <3>2, <3>3
    <2> QED
      BY <2>1, <2>2
  <1>8. ASSUME NEW i \in 1..Len(waiting'), NEW k \in 1..Len(waiting'), waiting'[i] = waiting'[k]
        PROVE  i = k
    <2>1. (i \in 1..n \/ i = n + 1) /\ (k \in 1..n \/ k = n + 1)
      BY <1>2
    <2>2. CASE i \in 1..n /\ k \in 1..n
      BY <1>1, <1>2, <1>8, <2>2 DEF Inv, Orderly
    <2> QED
      BY <1>2, <1>3, <1>8, <2>1, <2>2
  <1>9. \A k, l \in Jobs : outcome'[k] = "serving" /\ outcome'[l] = "serving" => k = l
    BY <1>4 DEF Inv, Orderly
  <1> QED
    BY <1>5, <1>6, <1>7, <1>8, <1>9 DEF Inv, Orderly

\* The first of the waiting jobs, and the others, which move up.
LEMMA Shift ==
  ASSUME Inv, waiting # <<>>
  PROVE  /\ Head(waiting) \in Jobs /\ Head(waiting) = waiting[1]
         /\ Tail(waiting) \in Seq(Jobs)
         /\ Len(waiting) \in Nat \ {0}
         /\ Len(Tail(waiting)) = Len(waiting) - 1
         /\ \A i \in 1..Len(Tail(waiting)) :
               i + 1 \in 2..Len(waiting) /\ Tail(waiting)[i] = waiting[i + 1]
         /\ \A i \in 2..Len(waiting) :
               i - 1 \in 1..Len(Tail(waiting)) /\ Tail(waiting)[i - 1] = waiting[i]
  <1>1. PICK w \in Seq(Jobs) : w = waiting /\ w # <<>>
    BY DEF Inv, TypeOK
  <1>2. Len(w) \in Nat \ {0}
    BY <1>1, EmptySeq
  <1>3. 1 \in 1..Len(w)
    BY <1>2
  <1>4. Head(w) = w[1] /\ w[1] \in Jobs
    BY <1>1, <1>3, HeadTailProperties, ElementOfSeq
  <1>5. /\ Tail(w) \in Seq(Jobs) /\ Len(Tail(w)) = Len(w) - 1
        /\ \A i \in 1..Len(Tail(w)) : Tail(w)[i] = w[i + 1]
    BY <1>1, HeadTailProperties
  <1>6. \A i \in 2..Len(w) : i - 1 \in 1..Len(Tail(w)) /\ (i - 1) + 1 = i
    BY <1>2, <1>5
  <1>7. \A i \in 2..Len(w) : Tail(w)[i - 1] = w[i]
    BY <1>5, <1>6
  <1>8. \A i \in 1..Len(Tail(w)) : i + 1 \in 2..Len(w)
    BY <1>2, <1>5
  <1> QED
    BY <1>1, <1>2, <1>4, <1>5, <1>6, <1>7, <1>8

LEMMA ServeInv == ASSUME Inv, Capacity \in Nat, Serve PROVE Inv'
  <1>1. PICK w \in Seq(Jobs), n \in Nat : w = waiting /\ n = Len(w) /\ n # 0
    BY Shift DEF Inv, TypeOK, Serve
  <1>2. PICK h \in Jobs, t \in Seq(Jobs) :
           /\ h = Head(waiting) /\ h = w[1] /\ t = waiting'
           /\ Len(t) = n - 1
           /\ \A i \in 1..(n - 1) : i + 1 \in 2..n /\ t[i] = w[i + 1]
           /\ \A i \in 2..n : i - 1 \in 1..(n - 1) /\ t[i - 1] = w[i]
    <2>1. waiting # <<>> /\ waiting' = Tail(waiting)
      BY DEF Serve
    <2> QED
      BY <1>1, <2>1, Shift
  <1>3. \A k \in Jobs : outcome'[k] = IF k = h THEN "serving" ELSE outcome[k]
    BY <1>2 DEF Serve, Inv, TypeOK
  <1>4. TypeOK'
    BY <1>2 DEF Serve, Inv, TypeOK
  <1>5. Capacity = 0 \/ Len(waiting') <= Capacity
    BY <1>1, <1>2 DEF Inv, Orderly
  <1>6. \A i, k \in 1..n : w[i] = w[k] => i = k
    BY <1>1 DEF Inv, Orderly
  <1>7. ASSUME NEW k \in Jobs
        PROVE  outcome'[k] = "waiting" <=> \E i \in 1..Len(waiting') : waiting'[i] = k
    <2>1. 1 \in 1..n /\ \A i \in 2..n : i \in 1..n /\ i # 1
      BY <1>1
    <2>2. ~\E i \in 1..(n - 1) : t[i] = h
      BY <1>2, <1>6, <2>1
    <2>3. CASE k = h
      BY <1>2, <1>3, <2>2, <2>3
    <2>4. CASE k # h
      <3>1. outcome'[k] = "waiting" <=> \E i \in 1..n : w[i] = k
        BY <1>1, <1>3, <2>4 DEF Inv, Orderly
      <3>2. \A i \in 1..n : w[i] = k => i \in 2..n
        BY <1>2, <2>4
      <3>3. (\E i \in 1..n : w[i] = k) <=> \E i \in 1..(n - 1) : t[i] = k
        BY <1>2, <2>1, <3>2
      <3> QED
        BY <1>2, <3>1, <3>3
    <2> QED
      BY <2>3, <2>4
  <1>8. ASSUME NEW i \in 1..Len(waiting'), NEW k \in 1..Len(waiting'), waiting'[i] = waiting'[k]
        PROVE  i = k
    <2>1. i \in 1..(n - 1) /\ k \in 1..(n - 1)
      BY <1>2
    <2>2. w[i + 1] = w[k + 1] /\ i + 1 \in 1..n /\ k + 1 \in 1..n
      BY <1>2, <1>8, <2>1
    <2>3. i + 1 = k + 1
      BY <1>6, <2>2
    <2> QED
      BY <2>1, <2>3
  <1>9. \A k, l \in Jobs : outcome'[k] = "serving" /\ outcome'[l] = "serving" => k = l
    BY <1>3 DEF Serve
  <1> QED
    BY <1>4, <1>5, <1>7, <1>8, <1>9 DEF Inv, Orderly

\* Steps that leave the queue alone, and no more jobs waiting or served.
LEMMA KeepsOrder ==
  ASSUME Inv, TypeOK', waiting' = waiting,
         \A j \in Jobs : /\ outcome'[j] = "waiting" <=> outcome[j] = "waiting"
                         /\ outcome'[j] = "serving" => outcome[j] = "serving"
  PROVE  Inv'
  BY DEF Inv, Orderly

LEMMA DeliverInv ==
  ASSUME Inv, NEW j \in Jobs, NEW verdict \in Verdicts, Deliver(j, verdict)
  PROVE  Inv'
  <1>1. \A k \in Jobs : outcome'[k] = IF k = j THEN verdict ELSE outcome[k]
    BY DEF Deliver, Inv, TypeOK
  <1>2. TypeOK'
    BY DEF Deliver, Inv, TypeOK
  <1> QED
    BY <1>1, <1>2, KeepsOrder DEF Deliver, Verdicts

LEMMA AgeInv ==
  ASSUME Inv, NEW old \in SUBSET Jobs, NEW dead \in SUBSET Jobs, Age(old, dead)
  PROVE  Inv'
  <1>1. \A k \in Jobs : outcome'[k] = IF k \in old THEN "expired"
                                      ELSE IF k \in dead THEN "forgotten" ELSE outcome[k]
    BY DEF Age
  <1>2. TypeOK'
    BY DEF Age, Inv, TypeOK
  <1> QED
    BY <1>1, <1>2, KeepsOrder DEF Age, Verdicts

LEMMA NextInv ==
  ASSUME Capacity \in Nat, Inv, [Next]_vars
  PROVE  Inv'
  <1>1. ASSUME UNCHANGED <<waiting, outcome>>, stopped' \in BOOLEAN PROVE Inv'
    BY <1>1 DEF Inv, TypeOK, Orderly
  <1>2. CASE Stop
    BY <1>1, <1>2 DEF Stop
  <1>3. CASE UNCHANGED vars
    BY <1>1, <1>3 DEF vars, Inv, TypeOK
  <1> QED
    BY <1>2, <1>3, AcceptInv, ServeInv, DeliverInv, AgeInv DEF Next

LEMMA Always == ASSUME Capacity \in Nat PROVE Spec => []Inv
  BY InitInv, NextInv, PTL DEF Spec

\* At most Capacity jobs wait, each once, and one job is served at a time.
THEOREM ServiceIsOrderly == ASSUME Capacity \in Nat PROVE Spec => []Orderly
  <1>1. Inv => Orderly
    BY DEF Inv
  <1> QED
    BY <1>1, Always, PTL

\* Jobs are served in the order they were accepted.
THEOREM ServiceIsFifo == ASSUME Capacity \in Nat PROVE Spec => FirstComeFirstServed
  <1>1. ASSUME Inv, [Next]_vars, NEW j \in Jobs, NEW k \in Jobs, Before(j, k)
        PROVE  outcome'[k] = "waiting"
    <2>1. PICK i \in 1..Len(waiting), l \in 1..Len(waiting) :
             i < l /\ waiting[i] = j /\ waiting[l] = k
      BY <1>1 DEF Before
    <2>2. outcome[k] = "waiting"
      BY <1>1, <2>1 DEF Inv, Orderly
    <2>3. k # waiting[1]
      <3>1. 1 \in 1..Len(waiting) /\ l # 1
        BY <2>1
      <3> QED
        BY <1>1, <2>1, <3>1 DEF Inv, Orderly
    <2>4. outcome \in [Jobs -> {"none", "waiting", "serving", "expired", "forgotten"}
                                 \cup Verdicts]
      BY <1>1 DEF Inv, TypeOK
    <2>5. CASE Serve
      <3>1. Head(waiting) # k
        BY <1>1, <2>3, <2>5, Shift DEF Serve
      <3> QED
        BY <2>2, <2>4, <2>5, <3>1 DEF Serve
    <2>6. CASE \E m \in Jobs : Accept(m)
      BY <2>2, <2>4, <2>6 DEF Accept
    <2>7. CASE \E m \in Jobs, verdict \in Verdicts : Deliver(m, verdict)
      BY <2>2, <2>4, <2>7 DEF Deliver
    <2>8. CASE \E old, dead \in SUBSET Jobs : Age(old, dead)
      BY <2>2, <2>8 DEF Age, Verdicts
    <2>9. CASE Stop \/ UNCHANGED vars
      BY <2>2, <2>9 DEF Stop, vars
    <2> QED
      BY <1>1, <2>5, <2>6, <2>7, <2>8, <2>9 DEF Next
  <1>2. Inv /\ [Next]_vars =>
          [\A j, k \in Jobs : Before(j, k) => outcome'[k] = "waiting"]_vars
    BY <1>1
  <1> QED
    BY <1>2, Always, PTL DEF Spec, FirstComeFirstServed

\* A caller that has seen a verdict never sees another one.
THEOREM VerdictsAreFinal == ASSUME Capacity \in Nat PROVE Spec => VerdictsStand
  <1> DEFINE Stands(j) ==
        /\ outcome[j] \in Verdicts => outcome'[j] \in {outcome[j], "expired"}
        /\ outcome[j] = "expired" => outcome'[j] \in {"expired", "forgotten"}
        /\ outcome[j] = "forgotten" => outcome'[j] = "forgotten"
  <1>1. ASSUME Inv, [Next]_vars, NEW j \in Jobs PROVE Stands(j)
    <2>1. outcome \in [Jobs -> {"none", "waiting", "serving", "expired", "forgotten"}
                                 \cup Verdicts]
      BY <1>1 DEF Inv, TypeOK
    <2>2. CASE Serve
      <3>1. Head(waiting) \in Jobs /\ outcome[Head(waiting)] = "waiting"
        <4>1. Head(waiting) \in Jobs /\ Head(waiting) = waiting[1] /\ 1 \in 1..Len(waiting)
          BY <1>1, <2>2, Shift DEF Serve
        <4> QED
          BY <1>1, <4>1 DEF Inv, Orderly
      <3> QED
        BY <2>1, <2>2, <3>1 DEF Serve, Verdicts
    <2>3. CASE \E m \in Jobs : Accept(m)
      BY <2>1, <2>3 DEF Accept, Verdicts
    <2>4. CASE \E m \in Jobs, verdict \in Verdicts : Deliver(m, verdict)
      BY <2>1, <2>4 DEF Deliver, Verdicts
    <2>5. CASE \E old, dead \in SUBSET Jobs : Age(old, dead)
      BY <2>5 DEF Age, Verdicts
    <2>6. CASE Stop \/ UNCHANGED vars
      BY <2>6 DEF Stop, vars
    <2> QED
      BY <1>1, <2>2, <2>3, <2>4, <2>5, <2>6 DEF Next
  <1>2. Inv /\ [Next]_vars => [\A j \in Jobs : Stands(j)]_vars
    BY <1>1
  <1> QED
    BY <1>2, Always, PTL DEF Spec, VerdictsStand
=============================================================================

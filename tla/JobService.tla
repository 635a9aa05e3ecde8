----------------------------- MODULE JobService -----------------------------
(***************************************************************************)
(* What the speech-to-text queue of the hub promises, without threads,     *)
(* locks, clips or clocks: accepted jobs wait in a bounded FIFO, one at a  *)
(* time is served, each gets one verdict, and verdicts are aged out.       *)
(* SttJobs (hub/jobs.py) is checked and proved to implement this.          *)
(***************************************************************************)
EXTENDS Naturals, Sequences

CONSTANTS Jobs,       \* the job identifiers
          Capacity    \* how many jobs may wait; 0 means no limit

VARIABLES waiting,    \* the accepted jobs not yet served, oldest first
          outcome,    \* what a caller may learn of each job
          stopped     \* the service was told to stop

vars == <<waiting, outcome, stopped>>

Verdicts == {"succeeded", "failed"}

TypeOK ==
    /\ waiting \in Seq(Jobs)
    /\ outcome \in [Jobs -> {"none", "waiting", "serving", "expired", "forgotten"}
                              \cup Verdicts]
    /\ stopped \in BOOLEAN

Init ==
    /\ waiting = <<>>
    /\ outcome = [j \in Jobs |-> "none"]
    /\ stopped = FALSE

Accept(j) ==
    /\ outcome[j] = "none"
    /\ Capacity = 0 \/ Len(waiting) < Capacity
    /\ waiting' = Append(waiting, j)
    /\ outcome' = [outcome EXCEPT ![j] = "waiting"]
    /\ UNCHANGED stopped

Serve ==
    /\ waiting # <<>>
    /\ \A j \in Jobs : outcome[j] # "serving"
    /\ waiting' = Tail(waiting)
    /\ outcome' = [outcome EXCEPT ![Head(waiting)] = "serving"]
    /\ UNCHANGED stopped

Deliver(j, verdict) ==
    /\ outcome[j] = "serving"
    /\ outcome' = [outcome EXCEPT ![j] = verdict]
    /\ UNCHANGED <<waiting, stopped>>

\* Verdicts in `old' are withdrawn and expired jobs in `dead' are forgotten.
Age(old, dead) ==
    /\ \A j \in old : outcome[j] \in Verdicts
    /\ \A j \in dead : outcome[j] = "expired"
    /\ outcome' = [j \in Jobs |-> IF j \in old THEN "expired"
                                  ELSE IF j \in dead THEN "forgotten"
                                  ELSE outcome[j]]
    /\ UNCHANGED <<waiting, stopped>>

Stop ==
    /\ stopped' = TRUE
    /\ UNCHANGED <<waiting, outcome>>

Next ==
    \/ \E j \in Jobs : Accept(j)
    \/ Serve
    \/ \E j \in Jobs, verdict \in Verdicts : Deliver(j, verdict)
    \/ \E old, dead \in SUBSET Jobs : Age(old, dead)
    \/ Stop

Spec == Init /\ [][Next]_vars

\* A job being served gets its verdict, and as long as the service is not
\* stopped the next waiting job is served.
Fairness ==
    /\ WF_vars(~stopped /\ Serve)
    /\ WF_vars(\E j \in Jobs, verdict \in Verdicts : Deliver(j, verdict))

FairSpec == Spec /\ Fairness

-----------------------------------------------------------------------------
(* What follows for the callers. *)

\* No more jobs wait than may, the ones that wait are those accepted and not yet
\* served, each once, and one is served at a time.
Orderly ==
    /\ Capacity = 0 \/ Len(waiting) <= Capacity
    /\ \A j \in Jobs : outcome[j] = "waiting" <=> \E i \in 1..Len(waiting) : waiting[i] = j
    /\ \A i, k \in 1..Len(waiting) : waiting[i] = waiting[k] => i = k
    /\ \A j, k \in Jobs : outcome[j] = "serving" /\ outcome[k] = "serving" => j = k

Before(j, k) ==
    \E i, l \in 1..Len(waiting) : i < l /\ waiting[i] = j /\ waiting[l] = k

\* No job is served while one that was accepted before it waits.
FirstComeFirstServed ==
    [][\A j, k \in Jobs : Before(j, k) => outcome'[k] = "waiting"]_vars

\* A verdict stands until it is withdrawn; what was withdrawn never comes back.
VerdictsStand ==
    [][\A j \in Jobs :
          /\ outcome[j] \in Verdicts => outcome'[j] \in {outcome[j], "expired"}
          /\ outcome[j] = "expired" => outcome'[j] \in {"expired", "forgotten"}
          /\ outcome[j] = "forgotten" => outcome'[j] = "forgotten"]_vars
=============================================================================

------------------------------- MODULE SttPath -------------------------------
(***************************************************************************)
(* The whole way of a transcript: a client's request to the hub            *)
(* (HubProcess), the job it becomes, the call of the worker by the         *)
(* manager's thread (_call_worker in hub/jobs.py), the worker (AsrWorker), *)
(* and the verdict the client polls. The two processes share the network,  *)
(* and, for the clips, a directory.                                        *)
(***************************************************************************)
EXTENDS HubProcess

CONSTANTS
    NoModel, Devices, MaxAudio, MaxCrashes,   \* see AsrWorker
    SharedDir   \* the worker finds the hub's clips at the paths the hub sends

ASSUME WorkerAssumption ==
    /\ NoModel \notin Requests
    /\ Devices \in Nat \ {0}
    /\ MaxAudio \in Nat
    /\ MaxCrashes \in Nat
    /\ SharedDir \in BOOLEAN

\* By default a window has 120 s of 32 kB each, and the cloud takes 7.5 MB.
ASSUME SizesAssumption == MaxQuery + 1 <= MaxAudio

VARIABLES
    up, model, wpc, tries, held, conn, fault, crashes,   \* see AsrWorker
    abandoned   \* history: the requests the hub stopped waiting for

workerVars == <<up, model, wpc, tries, held, conn, fault, crashes>>
vars == <<hubVars, workerVars, abandoned>>

Worker == INSTANCE AsrWorker WITH
    file <- [r \in Requests |-> IF SharedDir THEN clips[r] ELSE NoFile]

Init ==
    /\ HubInit
    /\ Worker!Init
    /\ abandoned = {}

-----------------------------------------------------------------------------
(* The manager's thread, between its queue and the worker. *)

Serve ==
    /\ Running
    /\ Service!Serve
    /\ UNCHANGED <<setup, phase, requestVars, clips, workerVars, abandoned>>

\* Job r gets its verdict.
Finish(r, verdict) ==
    /\ Running
    /\ Service!Deliver(r, verdict)
    /\ UNCHANGED <<setup, phase, requestVars, clips>>

Post(r) ==
    /\ Running
    /\ outcome[r] = "serving"
    /\ Worker!Connect(r)
    /\ UNCHANGED <<hubVars, abandoned>>

\* The connection is refused.
PostFails(r) ==
    /\ conn[r] = "none"
    /\ ~up
    /\ Finish(r, "failed")
    /\ fault' = fault \cup {r}
    /\ UNCHANGED <<up, model, wpc, tries, held, conn, crashes, abandoned>>

\* Broken form: an answer is written down whenever it comes.
ReadAnswerLate(r) ==
    /\ Running
    /\ conn[r] \in Worker!Answers
    /\ outcome[r] \in {"serving", "succeeded", "failed"}
    /\ outcome' = [outcome EXCEPT ![r] = IF conn[r] = "ok" THEN "succeeded" ELSE "failed"]
    /\ UNCHANGED <<setup, phase, requestVars, clips, waiting, stopped, workerVars, abandoned>>

\* An HTTP error and a closed connection are exceptions of urlopen.
ReadAnswer(r) ==
    /\ conn[r] \in Worker!Answers
    /\ Finish(r, IF conn[r] = "ok" THEN "succeeded" ELSE "failed")
    /\ UNCHANGED <<workerVars, abandoned>>

\* Broken form: only a worker that died is given up.
GiveUpDead(r) ==
    /\ conn[r] = "open"
    /\ ~up
    /\ Finish(r, "failed")
    /\ fault' = fault \cup {r}
    /\ abandoned' = abandoned \cup {r}
    /\ UNCHANGED <<up, model, wpc, tries, held, conn, crashes>>

\* Nothing came for 120 s. The worker's thread does not learn of it.
GiveUp(r) ==
    /\ conn[r] = "open"
    /\ Finish(r, "failed")
    /\ fault' = fault \cup {r}
    /\ abandoned' = abandoned \cup {r}
    /\ UNCHANGED <<up, model, wpc, tries, held, conn, crashes>>

Dispatcher ==
    \/ Serve
    \/ \E r \in Requests : Post(r) \/ PostFails(r) \/ ReadAnswer(r) \/ GiveUp(r)

\* What the worker does when the hub is gone concerns nobody.
Next ==
    \/ HubNext /\ UNCHANGED <<workerVars, abandoned>>
    \/ phase # "exited" /\ Worker!Next /\ UNCHANGED <<hubVars, abandoned>>
    \/ Dispatcher

Spec == Init /\ [][Next]_vars

\* The manager's thread is scheduled, and a client polls until its job is done.
\* Nothing is assumed of the worker.
FairSpec ==
    /\ Spec
    /\ WF_vars(Dispatcher)
    /\ \A r \in Requests : WF_vars(Poll(r) /\ UNCHANGED <<workerVars, abandoned>>)

-----------------------------------------------------------------------------
(* Properties. *)

\* Every variable keeps its type, the queue its bound, and the worker a thread for
\* every request it has not answered.
TypeOK ==
    /\ HubTypeOK
    /\ Worker!TypeOK
    /\ abandoned \subseteq Requests

\* A job fails for no other reason than its surroundings: the worker is down, dies,
\* is not set up or too slow, or the cloud or the model fails. Never because of
\* what the two processes do together: a clip that is not where the worker looks
\* for it, was deleted too early, or is longer than the worker takes.
FailureHasCause == \A r \in Requests : outcome[r] = "failed" => r \in fault

\* The model is in memory twice only if the hub gave up waiting for one of the
\* requests that load it: _get_model has no lock, and what keeps two threads from
\* loading is that the hub has one job served at a time.
ModelLoadedOnce ==
    \A l, m \in Worker!Copies : l # m => l \in abandoned \/ m \in abandoned

\* A client that was refused, or told that the queue is full, left nothing behind:
\* no job and no clip. One that was told a status has a job, and every job has a
\* client that was told so, is about to be, or lost the hub.
AnswersMatchEffects ==
    \A r \in Requests :
        /\ told[r] \in {"refused", "busy"} => outcome[r] = "none" /\ clips[r] = NoFile
        /\ told[r] \in Statuses => outcome[r] # "none"
        /\ outcome[r] # "none" => told[r] \in {"lost"} \cup Statuses \/ rpc[r] = "reply"

\* What a client is told of its job never goes back, and a verdict does not turn
\* into another one, however late the worker answers.
Later(status) ==
    CASE status = "pending"                     -> Statuses
      [] status \in {"succeeded", "failed"}     -> {"expired", "forgotten"}
      [] status = "expired"                     -> {"forgotten"}
      [] OTHER                                  -> {}
AnswersStand ==
    [][\A r \in Requests :
          told[r] \in Statuses => told'[r] \in {told[r]} \cup Later(told[r])]_vars

\* A client whose job was accepted, and who polls it, learns its verdict, or that it
\* came too late for it, unless the hub is leaving.
Leaving == phase \in {"shutdown", "stop_jobs", "stop_receiver", "exited"}
PollerLearns ==
    \A r \in Requests :
        told[r] = "pending" ~> told[r] \in Statuses \ {"pending"} \/ Leaving
=============================================================================

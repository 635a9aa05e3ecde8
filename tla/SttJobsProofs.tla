---------------------------- MODULE SttJobsProofs ----------------------------
(***************************************************************************)
(* Theorems about SttJobs, for every value of its constants.               *)
(***************************************************************************)
EXTENDS SttJobs, TLAPS

USE DEF NoFile, Absent, Finished, Live, Status

-----------------------------------------------------------------------------
(* Type correctness. *)

\* A record of a job that is not in the dict is a record of a job.
LEMMA NotInDictType == ASSUME NEW s \in Absent PROVE NotInDict(s) \in Job
  BY DEF NotInDict, Job

LEMMA InitType == Init => TypeOK
  <1> SUFFICES ASSUME Init PROVE TypeOK
    OBVIOUS
  <1>1. jobs \in [JobIds -> Job]
    BY NotInDictType DEF Init
  <1>2. queue \in Seq(JobIds) /\ Len(queue) = 0
    BY DEF Init
  <1>3. stopping \in BOOLEAN
    BY DEF Init
  <1>4. clips \in [Paths -> Nat \cup {NoFile}]
    BY DEF Init
  <1>5. /\ path \in [Clients -> Paths \cup {NoPath}]
        /\ job \in [Clients -> JobIds \cup {NoJob}]
        /\ pc \in [Clients -> {"idle", "get", "extracted", "expire", "register",
                               "enqueue", "drop", "delete"}]
    BY DEF Init
  <1>6. asked \in [Paths -> {"no", "query", "submit"}]
    BY DEF Init
  <1> QED
    BY <1>1, <1>2, <1>3, <1>4, <1>5, <1>6, ConstantsAssumption DEF Init, TypeOK

\* Expiring keeps the types of the jobs and of the clips.
LEMMA ExpireType ==
  ASSUME TypeOK, NEW t \in Nat, ExpireOldJobs(t)
  PROVE  /\ jobs' \in [JobIds -> Job]
         /\ clips' \in [Paths -> Nat \cup {NoFile}]
  <1>1. [status |-> "expired", updated_at |-> t, audio_path |-> NoPath] \in Job
    BY DEF Job
  <1>2. NotInDict("gone") \in Job
    BY NotInDictType
  <1>3. \A j \in JobIds : jobs[j] \in Job
    BY DEF TypeOK
  <1>4. jobs' \in [JobIds -> Job]
    BY <1>1, <1>2, <1>3 DEF ExpireOldJobs
  <1>5. clips' \in [Paths -> Nat \cup {NoFile}]
    BY DEF ExpireOldJobs, TypeOK
  <1> QED
    BY <1>4, <1>5

\* So does setting a status.
LEMMA SetStatusType ==
  ASSUME TypeOK, NEW j \in JobIds, NEW s \in Live, SetStatus(j, s)
  PROVE  jobs' \in [JobIds -> Job]
  <1>1. clock \in Nat /\ jobs[j] \in Job
    BY DEF TypeOK
  <1>2. [jobs[j] EXCEPT !.status = s, !.updated_at = clock] \in Job
    BY <1>1 DEF Job
  <1>3. CASE jobs[j].status \in Absent
    BY <1>3 DEF SetStatus, TypeOK
  <1>4. CASE jobs[j].status \notin Absent
    <2>1. jobs' = [jobs EXCEPT ![j] = [jobs[j] EXCEPT !.status = s, !.updated_at = clock]]
      BY <1>4 DEF SetStatus
    <2> QED
      BY <1>2, <2>1 DEF TypeOK
  <1> QED
    BY <1>3, <1>4

\* The runner has a job when it uses one.
RunnerHasJob ==
    /\ rpc \in {"start", "call", "answer", "handle"} => rjob \in JobIds
    /\ rpc = "unlink" => victim \in Paths
    /\ \A c \in Clients : /\ pc[c] \in {"enqueue", "drop"} => job[c] \in JobIds
                          /\ path[c] \in Paths <=> pc[c] \notin {"idle", "get"}

TypeInv == TypeOK /\ RunnerHasJob

LEMMA TypeStep == TypeInv /\ [Next]_vars => TypeInv'
  <1> SUFFICES ASSUME TypeOK, RunnerHasJob, [Next]_vars PROVE TypeInv'
    BY DEF TypeInv
  <1> USE ConstantsAssumption DEF clientVars, runnerVars, historyVars
  <1>1. CASE UNCHANGED vars
    BY <1>1 DEF vars, TypeInv, TypeOK, RunnerHasJob
  <1>2. ASSUME NEW p \in Paths, QueryAudio(p) PROVE TypeInv'
    BY <1>2 DEF QueryAudio, TypeInv, TypeOK, RunnerHasJob
  <1>3. ASSUME NEW c \in Clients, NEW p \in Paths, ExtractClip(c, p) PROVE TypeInv'
    BY <1>3 DEF ExtractClip, TypeInv, TypeOK, RunnerHasJob
  <1>4. ASSUME NEW c \in Clients, ReadClock(c) PROVE TypeInv'
    BY <1>4 DEF ReadClock, TypeInv, TypeOK, RunnerHasJob
  <1>5. ASSUME NEW c \in Clients, Expire(c) PROVE TypeInv'
    <2>1. jobs' \in [JobIds -> Job] /\ clips' \in [Paths -> Nat \cup {NoFile}]
      BY <1>5, ExpireType DEF Expire, TypeOK
    <2> QED
      BY <1>5, <2>1 DEF Expire, TypeInv, TypeOK, RunnerHasJob
  <1>6. ASSUME NEW c \in Clients, NEW j \in JobIds, Register(c, j) PROVE TypeInv'
    <2>1. jobs' \in [JobIds -> Job]
      BY <1>6 DEF Register, TypeOK, Job
    <2> QED
      BY <1>6, <2>1 DEF Register, TypeInv, TypeOK, RunnerHasJob
  <1>7. ASSUME NEW c \in Clients, Enqueue(c) PROVE TypeInv'
    <2>1. job[c] \in JobIds
      BY <1>7 DEF Enqueue, RunnerHasJob
    <2>2. /\ queue' \in Seq(JobIds)
          /\ Len(queue') = Len(queue) + 1
          /\ Len(queue) \in Nat
      BY <1>7, <2>1 DEF Enqueue, TypeOK
    <2>3. QueueSize > 0 => Len(queue') <= QueueSize
      BY <1>7, <2>2 DEF Enqueue, QueueFull
    <2> QED
      BY <1>7, <2>2, <2>3 DEF Enqueue, TypeInv, TypeOK, RunnerHasJob
  <1>8. ASSUME NEW c \in Clients, Refuse(c) PROVE TypeInv'
    BY <1>8 DEF Refuse, TypeInv, TypeOK, RunnerHasJob
  <1>9. ASSUME NEW c \in Clients, DropRefused(c) PROVE TypeInv'
    <2>1. jobs' \in [JobIds -> Job]
      BY <1>9, NotInDictType DEF DropRefused, TypeOK
    <2> QED
      BY <1>9, <2>1 DEF DropRefused, TypeInv, TypeOK, RunnerHasJob
  <1>10. ASSUME NEW c \in Clients, DeleteRefused(c) PROVE TypeInv'
    BY <1>10 DEF DeleteRefused, TypeInv, TypeOK, RunnerHasJob
  <1>11. CASE TestStop
    BY <1>11 DEF TestStop, TypeInv, TypeOK, RunnerHasJob
  <1>12. CASE Dequeue
    <2>1. /\ queue' \in Seq(JobIds)
          /\ Head(queue) \in JobIds
          /\ Len(queue') = Len(queue) - 1
          /\ Len(queue) \in Nat
      BY <1>12 DEF Dequeue, TypeOK
    <2> QED
      BY <1>12, <2>1 DEF Dequeue, TypeInv, TypeOK, RunnerHasJob
  <1>13. CASE GetTimesOut
    BY <1>13 DEF GetTimesOut, TypeInv, TypeOK, RunnerHasJob
  <1>14. CASE StartJob
    <2>1. jobs' \in [JobIds -> Job]
      BY <1>14, SetStatusType DEF StartJob, RunnerHasJob
    <2> QED
      BY <1>14, <2>1 DEF StartJob, TypeInv, TypeOK, RunnerHasJob
  <1>15. ASSUME NEW r \in Replies, CallWorker(r) PROVE TypeInv'
    BY <1>15 DEF CallWorker, TypeInv, TypeOK, RunnerHasJob
  <1>16. CASE HalfWriteResult
    <2>1. jobs' \in [JobIds -> Job]
      <3>1. rjob \in JobIds /\ jobs[rjob] \in Job
        BY <1>16 DEF HalfWriteResult, TypeOK, RunnerHasJob
      <3>2. [jobs[rjob] EXCEPT !.status = "succeeded"] \in Job
        BY <3>1 DEF Job
      <3>3. jobs' = [jobs EXCEPT ![rjob] = [jobs[rjob] EXCEPT !.status = "succeeded"]]
        BY <1>16 DEF HalfWriteResult
      <3> QED
        BY <3>1, <3>2, <3>3 DEF TypeOK
    <2> QED
      BY <1>16, <2>1 DEF HalfWriteResult, TypeInv, TypeOK, RunnerHasJob
  <1>17. CASE FinishJob
    <2>1. rjob \in JobIds
      BY <1>17 DEF FinishJob, RunnerHasJob
    <2>2. jobs' \in [JobIds -> Job]
      BY <1>17, <2>1, SetStatusType DEF FinishJob
    <2> QED
      BY <1>17, <2>1, <2>2 DEF FinishJob, TypeInv, TypeOK, RunnerHasJob
  <1>18. CASE ListProtected
    <2>1. ProtectedPaths \in SUBSET Paths
      BY DEF ProtectedPaths, TypeOK, Job
    <2> QED
      BY <1>18, <2>1 DEF ListProtected, TypeInv, TypeOK, RunnerHasJob
  <1>19. CASE ReadCutoff
    BY <1>19 DEF ReadCutoff, TypeInv, TypeOK, RunnerHasJob
  <1>20. ASSUME NEW p \in Paths, StatClip(p) PROVE TypeInv'
    BY <1>20 DEF StatClip, TypeInv, TypeOK, RunnerHasJob
  <1>21. CASE UnlinkClip
    BY <1>21 DEF UnlinkClip, TypeInv, TypeOK, RunnerHasJob
  <1>22. CASE EndSweep
    BY <1>22 DEF EndSweep, TypeInv, TypeOK, RunnerHasJob
  <1>23. CASE ExpireAndLoop
    <2>1. jobs' \in [JobIds -> Job] /\ clips' \in [Paths -> Nat \cup {NoFile}]
      BY <1>23, ExpireType DEF ExpireAndLoop, TypeOK
    <2> QED
      BY <1>23, <2>1 DEF ExpireAndLoop, TypeInv, TypeOK, RunnerHasJob
  <1>24. CASE Stop
    BY <1>24 DEF Stop, TypeInv, TypeOK, RunnerHasJob
  <1>25. CASE Tick
    BY <1>25 DEF Tick, TypeInv, TypeOK, RunnerHasJob
  <1> QED
    BY <1>1, <1>2, <1>3, <1>4, <1>5, <1>6, <1>7, <1>8, <1>9, <1>10, <1>11, <1>12,
       <1>13, <1>14, <1>15, <1>16, <1>17, <1>18, <1>19, <1>20, <1>21, <1>22,
       <1>23, <1>24, <1>25
    DEF Next, Client, Runner

LEMMA TypeInvariance == Spec => []TypeInv
  <1>1. Init => TypeInv
    BY InitType, ConstantsAssumption DEF TypeInv, RunnerHasJob, Init
  <1> QED
    BY <1>1, TypeStep, PTL DEF Spec

\* Every variable keeps its type and the queue its bound.
THEOREM TypeCorrect == Spec => []TypeOK
  BY TypeInvariance, PTL DEF TypeInv

-----------------------------------------------------------------------------
(* Every queued job is in one place. *)

\* While the handler of a half-written result waits for the lock, the job may
\* be aged out, but it is never queued again.
HandledJob ==
    rpc = "handle" => jobs[rjob].status \in {"succeeded", "expired", "gone"}

PlaceInv == NoAcceptedJobLost /\ HandledJob

\* Expiring jobs only moves those with a verdict: to "expired", then "gone".
LEMMA ExpireStatus ==
  ASSUME TypeOK, NEW t \in Nat, ExpireOldJobs(t), NEW j \in JobIds
  PROVE  \/ jobs'[j] = jobs[j]
         \/ jobs[j].status \in Finished /\ jobs'[j].status = "expired"
         \/ jobs[j].status = "expired" /\ jobs'[j].status = "gone"
  BY DEF ExpireOldJobs, Due, Dead, NotInDict

\* Most actions leave the queue, the jobs in the hands of clients and of the
\* runner, and what makes a job queued or running, as they are.
LEMMA PlaceFrame ==
  ASSUME TypeOK, TypeOK', RunnerHasJob, PlaceInv,
         \A j \in JobIds :
            \/ jobs'[j] = jobs[j]
            \/ jobs[j].status \in Finished /\ jobs'[j].status = "expired"
            \/ jobs[j].status = "expired" /\ jobs'[j].status = "gone",
         queue' = queue,
         \A c \in Clients :
            /\ pc'[c] \in {"enqueue", "drop"} <=> pc[c] \in {"enqueue", "drop"}
            /\ pc[c] \in {"enqueue", "drop"} => job'[c] = job[c],
         rpc' = "start" <=> rpc = "start",
         rpc' \in {"call", "answer"} <=> rpc \in {"call", "answer"},
         rpc' = "handle" <=> rpc = "handle",
         rpc \in {"start", "call", "answer", "handle"} => rjob' = rjob
  PROVE  PlaceInv'
  <1>1. QueuedOnce' /\ SubmittedOnce'
    BY DEF PlaceInv, NoAcceptedJobLost, QueuedOnce, SubmittedOnce
  <1>2. ASSUME NEW j \in JobIds PROVE InOnePlace(j)'
    <2>1. Queued(j)' <=> Queued(j)
      BY DEF Queued
    <2>2. WithClient(j)' <=> WithClient(j)
      BY DEF WithClient
    <2>3. WithRunner(j)' <=> WithRunner(j)
      BY DEF WithRunner
    <2>4. /\ jobs'[j].status = "queued" <=> jobs[j].status = "queued"
          /\ jobs'[j].status = "running" <=> jobs[j].status = "running"
      OBVIOUS
    <2> QED
      BY <2>1, <2>2, <2>3, <2>4 DEF PlaceInv, NoAcceptedJobLost, InOnePlace
  <1>3. HandledJob'
    BY DEF PlaceInv, HandledJob, RunnerHasJob
  <1> QED
    BY <1>1, <1>2, <1>3 DEF PlaceInv, NoAcceptedJobLost

\* A job just taken from the unused ones is in the hands of its client.
LEMMA PlaceRegister ==
  ASSUME TypeOK, RunnerHasJob, PlaceInv,
         NEW c \in Clients, NEW j \in JobIds, Register(c, j)
  PROVE  PlaceInv'
  <1> USE DEF Register, runnerVars, historyVars
  <1>1. /\ jobs[j].status = "unused"
        /\ jobs'[j].status = "queued"
        /\ \A k \in JobIds : k # j => jobs'[k] = jobs[k]
    BY DEF TypeOK
  <1>2. ~Queued(j) /\ ~WithClient(j) /\ ~WithRunner(j) /\ ~(rpc \in {"call", "answer"} /\ rjob = j)
    BY <1>1 DEF PlaceInv, NoAcceptedJobLost, InOnePlace
  <1>3. \A k \in JobIds : (Queued(k)' <=> Queued(k)) /\ (WithRunner(k)' <=> WithRunner(k))
    BY DEF Queued, WithRunner
  <1>4. \A k \in JobIds : WithClient(k)' <=> WithClient(k) \/ k = j
    BY DEF WithClient, TypeOK
  <1>5. QueuedOnce'
    BY DEF PlaceInv, NoAcceptedJobLost, QueuedOnce
  <1>6. SubmittedOnce'
    BY <1>2 DEF PlaceInv, NoAcceptedJobLost, SubmittedOnce, WithClient, TypeOK
  <1>7. \A k \in JobIds : InOnePlace(k)'
    BY <1>1, <1>2, <1>3, <1>4 DEF PlaceInv, NoAcceptedJobLost, InOnePlace
  <1>8. HandledJob'
    BY <1>1 DEF PlaceInv, HandledJob, RunnerHasJob
  <1> QED
    BY <1>5, <1>6, <1>7, <1>8 DEF PlaceInv, NoAcceptedJobLost

\* It goes from there to the end of the queue ...
LEMMA PlaceEnqueue ==
  ASSUME TypeOK, RunnerHasJob, PlaceInv, NEW c \in Clients, Enqueue(c)
  PROVE  PlaceInv'
  <1> USE DEF Enqueue, runnerVars, historyVars
  <1>1. job[c] \in JobIds /\ WithClient(job[c])
    BY DEF RunnerHasJob, WithClient
  <1>2. /\ Len(queue) \in Nat
        /\ Len(queue') = Len(queue) + 1
        /\ queue'[Len(queue) + 1] = job[c]
        /\ \A i \in 1..Len(queue) : queue'[i] = queue[i]
    BY <1>1 DEF TypeOK
  <1>3. \A k \in JobIds : Queued(k)' <=> Queued(k) \/ k = job[c]
    BY <1>2 DEF Queued
  <1>4. \A k \in JobIds : WithClient(k)' <=> WithClient(k) /\ k # job[c]
    BY <1>1 DEF WithClient, TypeOK, PlaceInv, NoAcceptedJobLost, SubmittedOnce
  <1>5. \A k \in JobIds : WithRunner(k)' <=> WithRunner(k)
    BY DEF WithRunner
  <1>6. ~Queued(job[c]) /\ ~WithRunner(job[c])
    BY <1>1 DEF PlaceInv, NoAcceptedJobLost, InOnePlace
  <1>7. QueuedOnce'
    BY <1>2, <1>6 DEF PlaceInv, NoAcceptedJobLost, QueuedOnce, Queued
  <1>8. SubmittedOnce'
    BY DEF PlaceInv, NoAcceptedJobLost, SubmittedOnce, TypeOK
  <1>9. \A k \in JobIds : InOnePlace(k)'
    BY <1>1, <1>3, <1>4, <1>5, <1>6 DEF PlaceInv, NoAcceptedJobLost, InOnePlace
  <1>10. HandledJob'
    BY DEF PlaceInv, HandledJob
  <1> QED
    BY <1>7, <1>8, <1>9, <1>10 DEF PlaceInv, NoAcceptedJobLost

\* ... or is withdrawn.
LEMMA PlaceDrop ==
  ASSUME TypeOK, RunnerHasJob, PlaceInv, NEW c \in Clients, DropRefused(c)
  PROVE  PlaceInv'
  <1> USE DEF DropRefused, runnerVars, historyVars
  <1>1. job[c] \in JobIds /\ WithClient(job[c])
    BY DEF RunnerHasJob, WithClient
  <1>2. /\ jobs'[job[c]].status = "rejected"
        /\ \A k \in JobIds : k # job[c] => jobs'[k] = jobs[k]
        /\ jobs[job[c]].status = "queued"
    BY <1>1 DEF TypeOK, NotInDict, PlaceInv, NoAcceptedJobLost, InOnePlace
  <1>3. \A k \in JobIds : (Queued(k)' <=> Queued(k)) /\ (WithRunner(k)' <=> WithRunner(k))
    BY DEF Queued, WithRunner
  <1>4. \A k \in JobIds : WithClient(k)' <=> WithClient(k) /\ k # job[c]
    BY <1>1 DEF WithClient, TypeOK, PlaceInv, NoAcceptedJobLost, SubmittedOnce
  <1>5. QueuedOnce' /\ SubmittedOnce'
    BY DEF PlaceInv, NoAcceptedJobLost, QueuedOnce, SubmittedOnce, TypeOK
  <1>6. ~Queued(job[c]) /\ ~WithRunner(job[c]) /\ ~(rpc \in {"call", "answer"} /\ rjob = job[c])
    BY <1>1, <1>2 DEF PlaceInv, NoAcceptedJobLost, InOnePlace
  <1>7. \A k \in JobIds : InOnePlace(k)'
    BY <1>1, <1>2, <1>3, <1>4, <1>6 DEF PlaceInv, NoAcceptedJobLost, InOnePlace
  <1>8. HandledJob'
    BY <1>2 DEF PlaceInv, HandledJob, RunnerHasJob
  <1> QED
    BY <1>5, <1>7, <1>8 DEF PlaceInv, NoAcceptedJobLost

\* The head of the queue goes to the runner.
LEMMA PlaceDequeue ==
  ASSUME TypeOK, RunnerHasJob, PlaceInv, Dequeue
  PROVE  PlaceInv'
  <1> USE DEF Dequeue, clientVars, historyVars
  <1> DEFINE h == Head(queue)
  <1>1. /\ Len(queue) \in Nat \ {0}
        /\ h = queue[1] /\ h \in JobIds
        /\ Len(queue') = Len(queue) - 1
        /\ \A i \in 1..Len(queue') : queue'[i] = queue[i + 1]
    BY DEF TypeOK
  <1>2. Queued(h)
    BY <1>1 DEF Queued
  <1>3. \A k \in JobIds : Queued(k)' <=> Queued(k) /\ k # h
    <2>1. ASSUME NEW k \in JobIds, Queued(k), k # h PROVE Queued(k)'
      <3>1. PICK i \in 1..Len(queue) : queue[i] = k
        BY <2>1 DEF Queued
      <3>2. i - 1 \in 1..Len(queue') /\ queue'[i - 1] = k
        BY <1>1, <2>1, <3>1
      <3> QED
        BY <3>2 DEF Queued
    <2>2. ASSUME NEW k \in JobIds, Queued(k)' PROVE Queued(k) /\ k # h
      <3>1. PICK i \in 1..Len(queue') : queue'[i] = k
        BY <2>2 DEF Queued
      <3>2. i + 1 \in 1..Len(queue) /\ queue[i + 1] = k /\ i + 1 # 1
        BY <1>1, <3>1
      <3> QED
        BY <1>1, <3>2 DEF Queued, PlaceInv, NoAcceptedJobLost, QueuedOnce
    <2> QED
      BY <2>1, <2>2
  <1>4. \A k \in JobIds : WithClient(k)' <=> WithClient(k)
    BY DEF WithClient
  <1>5. \A k \in JobIds : (WithRunner(k)' <=> k = h) /\ ~WithRunner(k)
    BY DEF WithRunner
  <1>6. QueuedOnce'
    BY <1>1 DEF PlaceInv, NoAcceptedJobLost, QueuedOnce
  <1>7. SubmittedOnce'
    BY DEF PlaceInv, NoAcceptedJobLost, SubmittedOnce
  <1>8. \A k \in JobIds : InOnePlace(k)'
    <2>1. rpc = "get" /\ rpc' = "start" /\ jobs' = jobs
      OBVIOUS
    <2> QED
      BY <1>1, <1>2, <1>3, <1>4, <1>5, <2>1 DEF PlaceInv, NoAcceptedJobLost, InOnePlace
  <1>9. HandledJob'
    BY DEF HandledJob
  <1> QED
    BY <1>6, <1>7, <1>8, <1>9 DEF PlaceInv, NoAcceptedJobLost

\* The runner's own changes of its job's status.
LEMMA PlaceRunner ==
  ASSUME TypeOK, RunnerHasJob, PlaceInv, StartJob \/ HalfWriteResult \/ FinishJob
  PROVE  PlaceInv'
  <1> USE DEF StartJob, HalfWriteResult, FinishJob, clientVars, historyVars
  <1>1. /\ rjob \in JobIds
        /\ rpc = "start" => jobs[rjob].status = "queued"
        /\ rpc = "answer" => jobs[rjob].status = "running"
        /\ rpc = "handle" => jobs[rjob].status \in {"succeeded", "expired", "gone"}
    BY DEF RunnerHasJob, PlaceInv, NoAcceptedJobLost, InOnePlace, HandledJob, WithRunner
  <1>2. \A k \in JobIds : k # rjob => jobs'[k] = jobs[k]
    BY <1>1 DEF SetStatus, TypeOK
  <1>3. /\ StartJob => jobs'[rjob].status = "running"
        /\ HalfWriteResult => jobs'[rjob].status = "succeeded"
        /\ FinishJob => jobs'[rjob].status \in Finished \cup {"gone"}
    BY <1>1 DEF SetStatus, TypeOK, Job
  <1>4. QueuedOnce' /\ SubmittedOnce'
    BY DEF PlaceInv, NoAcceptedJobLost, QueuedOnce, SubmittedOnce
  <1>5. \A k \in JobIds : (Queued(k)' <=> Queued(k)) /\ (WithClient(k)' <=> WithClient(k))
    BY DEF Queued, WithClient
  <1>6. /\ \A k \in JobIds : ~WithRunner(k)'
        /\ \A k \in JobIds : WithRunner(k) <=> StartJob /\ k = rjob
    BY DEF WithRunner
  <1>7. ASSUME NEW k \in JobIds PROVE InOnePlace(k)'
    <2>1. InOnePlace(k)
      BY DEF PlaceInv, NoAcceptedJobLost
    <2>2. CASE k # rjob
      BY <1>2, <1>5, <1>6, <2>1, <2>2 DEF InOnePlace
    <2>3. CASE k = rjob
      <3>1. CASE StartJob
        <4>1. WithRunner(k) /\ rpc' = "call" /\ rjob' = k
          BY <1>6, <2>3, <3>1
        <4> QED
          BY <1>3, <1>5, <1>6, <2>1, <2>3, <3>1, <4>1 DEF InOnePlace
      <3>2. CASE ~StartJob
        <4>1. rpc' \notin {"call", "answer"} /\ jobs[k].status \notin {"queued"}
          BY <1>1, <2>3, <3>2
        <4> QED
          BY <1>3, <1>5, <1>6, <2>1, <2>3, <3>2, <4>1 DEF InOnePlace
      <3> QED
        BY <3>1, <3>2
    <2> QED
      BY <2>2, <2>3
  <1>8. HandledJob'
    BY <1>3 DEF HandledJob
  <1> QED
    BY <1>4, <1>7, <1>8 DEF PlaceInv, NoAcceptedJobLost

LEMMA PlaceStep == TypeInv /\ TypeInv' /\ PlaceInv /\ [Next]_vars => PlaceInv'
  <1> SUFFICES ASSUME TypeOK, TypeOK', RunnerHasJob, PlaceInv, [Next]_vars
               PROVE  PlaceInv'
    BY DEF TypeInv
  <1> USE DEF clientVars, runnerVars, historyVars
  <1>1. CASE UNCHANGED vars
    BY <1>1, PlaceFrame DEF vars
  <1>2. ASSUME NEW p \in Paths, QueryAudio(p) PROVE PlaceInv'
    BY <1>2, PlaceFrame DEF QueryAudio
  <1>3. ASSUME NEW c \in Clients, NEW p \in Paths, ExtractClip(c, p) PROVE PlaceInv'
    BY <1>3, PlaceFrame DEF ExtractClip, TypeOK
  <1>4. ASSUME NEW c \in Clients, ReadClock(c) PROVE PlaceInv'
    BY <1>4, PlaceFrame DEF ReadClock, TypeOK
  <1>5. ASSUME NEW c \in Clients, Expire(c) PROVE PlaceInv'
    <2>1. now[c] \in Nat
      BY DEF TypeOK
    <2>2. \A j \in JobIds :
            \/ jobs'[j] = jobs[j]
            \/ jobs[j].status \in Finished /\ jobs'[j].status = "expired"
            \/ jobs[j].status = "expired" /\ jobs'[j].status = "gone"
      BY <1>5, <2>1, ExpireStatus DEF Expire
    <2> QED
      BY <1>5, <2>2, PlaceFrame DEF Expire, TypeOK
  <1>6. ASSUME NEW c \in Clients, Refuse(c) \/ DeleteRefused(c) PROVE PlaceInv'
    BY <1>6, PlaceFrame DEF Refuse, DeleteRefused, TypeOK
  <1>7. CASE TestStop \/ GetTimesOut \/ ListProtected \/ ReadCutoff \/ EndSweep
    BY <1>7, PlaceFrame DEF TestStop, GetTimesOut, ListProtected, ReadCutoff, EndSweep
  <1>8. ASSUME NEW r \in Replies, CallWorker(r) PROVE PlaceInv'
    BY <1>8, PlaceFrame DEF CallWorker
  <1>9. ASSUME NEW p \in Paths, StatClip(p) PROVE PlaceInv'
    BY <1>9, PlaceFrame DEF StatClip
  <1>10. CASE UnlinkClip
    BY <1>10, PlaceFrame DEF UnlinkClip
  <1>11. CASE ExpireAndLoop
    <2>1. \A j \in JobIds :
            \/ jobs'[j] = jobs[j]
            \/ jobs[j].status \in Finished /\ jobs'[j].status = "expired"
            \/ jobs[j].status = "expired" /\ jobs'[j].status = "gone"
      BY <1>11, ExpireStatus DEF ExpireAndLoop, TypeOK
    <2> QED
      BY <1>11, <2>1, PlaceFrame DEF ExpireAndLoop
  <1>12. CASE Stop \/ Tick
    BY <1>12, PlaceFrame DEF Stop, Tick
  <1> QED
    BY <1>1, <1>2, <1>3, <1>4, <1>5, <1>6, <1>7, <1>8, <1>9, <1>10, <1>11, <1>12,
       PlaceRegister, PlaceEnqueue, PlaceDrop, PlaceDequeue, PlaceRunner
    DEF Next, Client, Runner

LEMMA PlaceInvariance == Spec => []PlaceInv
  <1>1. Init => PlaceInv
    BY ConstantsAssumption
    DEF Init, PlaceInv, NoAcceptedJobLost, QueuedOnce, SubmittedOnce, InOnePlace,
        HandledJob, Queued, WithClient, WithRunner, NotInDict
  <1> QED
    BY <1>1, PlaceStep, TypeInvariance, PTL DEF Spec

\* No accepted job is lost, duplicated or served twice, for any number of
\* clients, jobs and places in the queue and whatever the worker answers.
THEOREM JobsAreKept == Spec => []NoAcceptedJobLost
  BY PlaceInvariance, PTL DEF PlaceInv

-----------------------------------------------------------------------------
(* Clips are kept as long as a job refers to them. *)

\* What makes the clip directory and the sweep safe. A path has one owner, a
\* request or a job; an owned clip is on disk; a clip whose job may be missing
\* from the sweep's list of protected paths is too young for its cutoff.
OneOwner ==
    /\ \A i, j \in JobIds :
         i # j /\ jobs[i].audio_path # NoPath => jobs[i].audio_path # jobs[j].audio_path
    /\ \A c, d \in Clients : c # d /\ path[c] # NoPath => path[c] # path[d]
    /\ \A c \in Clients, j \in JobIds :
         path[c] # NoPath /\ jobs[j].audio_path = path[c]
            => pc[c] \in {"enqueue", "drop"} /\ job[c] = j

Known ==
    /\ \A p \in Paths : clips[p] # NoFile => asked[p] # "no"
    /\ \A j \in JobIds : jobs[j].audio_path # NoPath => asked[jobs[j].audio_path] # "no"
    /\ \A c \in Clients : path[c] # NoPath => asked[path[c]] # "no"

OnDisk ==
    \A j \in JobIds : jobs[j].audio_path # NoPath =>
        jobs[j].status \in Live /\ clips[jobs[j].audio_path] # NoFile

Fresh ==
    \A c \in Clients : pc[c] \in Registering =>
        clips[path[c]] = since[c] /\ since[c] <= clock /\ clock <= since[c] + MaxStall

SweepIsSafe ==
    /\ rnow <= clock
    /\ rpc = "cutoff" =>
         /\ clock <= rnow + MaxStall
         /\ \A j \in JobIds : jobs[j].audio_path \notin protected \cup {NoPath}
                => clips[jobs[j].audio_path] >= rnow - MaxStall
    /\ rpc \in {"sweep", "unlink"} =>
         \A j \in JobIds : jobs[j].audio_path \notin protected \cup {NoPath}
            => clips[jobs[j].audio_path] >= rnow - ClipTtl
    /\ rpc = "unlink" =>
         /\ victim \notin protected
         /\ asked[victim] # "no"
         /\ clips[victim] < rnow - ClipTtl

ClipInv == OneOwner /\ Known /\ OnDisk /\ Fresh /\ SweepIsSafe

\* Actions that touch no clip, owner or clock reading of the sweep.
LEMMA ClipFrame ==
  ASSUME TypeOK, TypeOK', ClipInv,
         \A j \in JobIds :
            /\ jobs'[j].audio_path = jobs[j].audio_path
            /\ jobs[j].status \in Live => jobs'[j].status \in Live,
         \A c \in Clients :
            /\ pc'[c] \in Registering => pc[c] \in Registering
            /\ pc[c] \in {"enqueue", "drop"} => pc'[c] \in {"enqueue", "drop"},
         UNCHANGED <<clips, path, job, asked, since, clock, rnow, protected, victim>>,
         rpc' = "cutoff" => rpc = "cutoff",
         rpc' \in {"sweep", "unlink"} => rpc = rpc'
  PROVE  ClipInv'
  <1> USE DEF ClipInv
  <1>1. OneOwner'
    BY DEF OneOwner
  <1>2. Known'
    BY DEF Known
  <1>3. OnDisk'
    BY DEF OnDisk
  <1>4. Fresh'
    BY DEF Fresh
  <1>5. SweepIsSafe'
    BY DEF SweepIsSafe
  <1> QED
    BY <1>1, <1>2, <1>3, <1>4, <1>5

\* A clip is written at a path nobody has asked for before.
LEMMA ClipWrite ==
  ASSUME AskOnce, TypeInv, TypeInv', ClipInv, NEW p \in Paths,
         QueryAudio(p) \/ \E c \in Clients : ExtractClip(c, p)
  PROVE  ClipInv'
  <1> USE DEF ClipInv, QueryAudio, ExtractClip, MayAsk, clientVars, runnerVars,
              historyVars, TypeInv
  <1>1. /\ asked[p] = "no"
        /\ asked'[p] # "no"
        /\ \A q \in Paths : q # p => asked'[q] = asked[q] /\ clips'[q] = clips[q]
        /\ clips'[p] = clock
        /\ UNCHANGED <<jobs, clock, rpc, rnow, protected, victim, job>>
    BY DEF TypeOK
  <1>2. /\ \A j \in JobIds : jobs[j].audio_path # p /\ jobs[j].audio_path \in Paths \cup {NoPath}
        /\ \A c \in Clients : path[c] # p
    BY <1>1, ConstantsAssumption DEF Known, TypeOK, Job
  <1>3. \/ UNCHANGED <<pc, path, since>>
        \/ \E c \in Clients :
              /\ pc[c] = "idle" /\ pc'[c] = "extracted" /\ path'[c] = p /\ since'[c] = clock
              /\ \A d \in Clients : d # c => pc'[d] = pc[d] /\ path'[d] = path[d] /\ since'[d] = since[d]
    BY DEF TypeOK
  <1>4. OneOwner'
    <2>1. CASE UNCHANGED <<pc, path, since>>
      BY <1>1, <2>1 DEF OneOwner
    <2>2. CASE ~UNCHANGED <<pc, path, since>>
      BY <1>1, <1>2, <1>3, <2>2 DEF OneOwner
    <2> QED
      BY <2>1, <2>2
  <1>5. Known'
    <2>1. \A q \in Paths : clips'[q] # NoFile => asked'[q] # "no"
      BY <1>1 DEF Known
    <2>2. \A j \in JobIds : jobs'[j].audio_path # NoPath => asked'[jobs'[j].audio_path] # "no"
      BY <1>1, <1>2 DEF Known
    <2>3. \A c \in Clients : path'[c] # NoPath => asked'[path'[c]] # "no"
      <3>1. \A c \in Clients : path[c] # NoPath => path[c] \in Paths
        BY DEF TypeOK
      <3>2. \A c \in Clients : path[c] # NoPath => asked'[path[c]] # "no"
        BY <1>1, <3>1 DEF Known
      <3>3. \A c \in Clients : path'[c] \in {path[c], p}
        BY <1>3
      <3> QED
        BY <1>1, <3>2, <3>3
    <2> QED
      BY <2>1, <2>2, <2>3 DEF Known
  <1>6. OnDisk'
    BY <1>1, <1>2 DEF OnDisk
  <1>7. Fresh'
    <2>1. ASSUME NEW d \in Clients, pc'[d] \in Registering
          PROVE  clips'[path'[d]] = since'[d] /\ since'[d] <= clock' /\ clock' <= since'[d] + MaxStall
      <3>1. CASE pc'[d] = pc[d] /\ path'[d] = path[d] /\ since'[d] = since[d]
        <4>1. path[d] \in Paths
          BY <2>1, <3>1 DEF RunnerHasJob, Registering
        <4> QED
          BY <1>1, <1>2, <2>1, <3>1, <4>1 DEF Fresh
      <3>2. CASE path'[d] = p /\ since'[d] = clock
        BY <1>1, <3>2, ConstantsAssumption DEF TypeOK
      <3> QED
        BY <1>3, <3>1, <3>2
    <2> QED
      BY <2>1 DEF Fresh
  <1>8. SweepIsSafe'
    BY <1>1, <1>2 DEF SweepIsSafe, RunnerHasJob
  <1> QED
    BY <1>4, <1>5, <1>6, <1>7, <1>8

\* Expiring a job deletes its clip and no other's.
LEMMA ClipExpire ==
  ASSUME TypeInv, TypeInv', ClipInv, NEW t \in Nat, ExpireOldJobs(t),
         UNCHANGED <<path, job, asked, since, clock, protected, victim>>,
         \A c \in Clients :
            /\ pc'[c] \in Registering <=> pc[c] \in Registering
            /\ pc[c] \in {"enqueue", "drop"} <=> pc'[c] \in {"enqueue", "drop"},
         \/ UNCHANGED <<rpc, rnow>>
         \/ rpc' = "test" /\ rnow' = 0
  PROVE  ClipInv'
  <1> USE DEF ClipInv, TypeInv
  <1>1. \A j \in JobIds :
          \/ jobs'[j] = jobs[j] /\ j \notin Due(t)
          \/ jobs'[j].audio_path = NoPath
    BY DEF ExpireOldJobs, NotInDict
  <1>2. \A p \in Paths : \/ clips'[p] = clips[p]
                         \/ \E j \in Due(t) : jobs[j].audio_path = p
    BY DEF ExpireOldJobs
  <1>3. \A p \in Paths : clips'[p] \in {clips[p], NoFile}
    BY DEF ExpireOldJobs
  <1>4. \A j \in JobIds : jobs'[j].audio_path # NoPath =>
          /\ jobs'[j] = jobs[j] /\ j \notin Due(t)
          /\ jobs[j].audio_path \in Paths
          /\ clips'[jobs[j].audio_path] = clips[jobs[j].audio_path]
    <2>1. SUFFICES ASSUME NEW j \in JobIds, jobs'[j].audio_path # NoPath
                   PROVE  /\ jobs'[j] = jobs[j] /\ j \notin Due(t)
                          /\ jobs[j].audio_path \in Paths
                          /\ clips'[jobs[j].audio_path] = clips[jobs[j].audio_path]
      OBVIOUS
    <2>2. jobs'[j] = jobs[j] /\ j \notin Due(t)
      BY <1>1, <2>1
    <2>3. jobs[j].audio_path \in Paths
      BY <2>1, <2>2 DEF TypeOK, Job
    <2>4. \A i \in Due(t) : i # j /\ i \in JobIds
      BY <2>2 DEF Due
    <2>5. \A i \in Due(t) : jobs[i].audio_path # jobs[j].audio_path
      BY <2>1, <2>2, <2>4 DEF OneOwner
    <2> QED
      BY <1>2, <2>2, <2>3, <2>5
  <1>5. OneOwner'
    BY <1>1 DEF OneOwner
  <1>6. Known'
    BY <1>1, <1>3 DEF Known
  <1>7. OnDisk'
    BY <1>4 DEF OnDisk
  <1>8. Fresh'
    <2>1. ASSUME NEW c \in Clients, pc[c] \in Registering
          PROVE  clips'[path[c]] = clips[path[c]]
      <3>1. path[c] \in Paths
        BY <2>1 DEF RunnerHasJob, Registering
      <3>2. \A j \in JobIds : jobs[j].audio_path # path[c]
        BY <2>1, <3>1, ConstantsAssumption DEF OneOwner, Registering
      <3> QED
        BY <1>2, <3>1, <3>2 DEF Due
    <2> QED
      BY <2>1 DEF Fresh
  <1>9. SweepIsSafe'
    <2>1. CASE UNCHANGED <<rpc, rnow>>
      <3>1. rpc = "unlink" => clips'[victim] < rnow - ClipTtl
        <4>1. ASSUME rpc = "unlink" PROVE clips'[victim] < rnow - ClipTtl
          <5>1. /\ victim \in Paths /\ clips[victim] < rnow - ClipTtl
                /\ clips[victim] \in Nat \cup {-1} /\ rnow \in Nat /\ ClipTtl \in Nat
            BY <4>1, ConstantsAssumption DEF SweepIsSafe, RunnerHasJob, TypeOK
          <5> QED
            BY <1>3, <5>1
        <4> QED
          BY <4>1
      <3> QED
        BY <1>4, <2>1, <3>1 DEF SweepIsSafe
    <2>2. CASE rpc' = "test" /\ rnow' = 0
      BY <2>2 DEF SweepIsSafe, TypeOK
    <2> QED
      BY <2>1, <2>2
  <1> QED
    BY <1>5, <1>6, <1>7, <1>8, <1>9

\* The clip goes from a request to its job ...
LEMMA ClipRegister ==
  ASSUME 2 * MaxStall <= ClipTtl, TypeInv, TypeInv', ClipInv,
         NEW c \in Clients, NEW j \in JobIds, Register(c, j)
  PROVE  ClipInv'
  <1> USE ConstantsAssumption DEF ClipInv, Register, runnerVars, historyVars, TypeInv
  <1>1. /\ path[c] \in Paths
        /\ clips[path[c]] = since[c] /\ since[c] \in Nat
        /\ clock \in Nat /\ clock <= since[c] + MaxStall
        /\ \A i \in JobIds : jobs[i].audio_path # path[c]
        /\ asked[path[c]] # "no"
    <2>1. path[c] \in Paths /\ path[c] # NoPath
      BY DEF RunnerHasJob
    <2>2. /\ clips[path[c]] = since[c] /\ since[c] \in Nat
          /\ clock \in Nat /\ clock <= since[c] + MaxStall
      BY DEF Fresh, Registering, TypeOK
    <2>3. \A i \in JobIds : jobs[i].audio_path # path[c]
      BY <2>1 DEF OneOwner
    <2>4. asked[path[c]] # "no"
      BY <2>1 DEF Known
    <2> QED
      BY <2>1, <2>2, <2>3, <2>4
  <1>2. /\ jobs'[j].audio_path = path[c] /\ jobs'[j].status = "queued"
        /\ \A i \in JobIds : i # j => jobs'[i] = jobs[i]
        /\ pc'[c] = "enqueue" /\ job'[c] = j
        /\ \A d \in Clients : d # c => pc'[d] = pc[d] /\ job'[d] = job[d] /\ since'[d] = since[d]
    BY DEF TypeOK
  <1>3. OneOwner'
    <2>1. \A d \in Clients : pc[d] \in {"enqueue", "drop"} => d # c
      OBVIOUS
    <2>2. \A i, k \in JobIds : i # k /\ jobs'[i].audio_path # NoPath
                              => jobs'[i].audio_path # jobs'[k].audio_path
      BY <1>1, <1>2 DEF OneOwner
    <2>3. \A d \in Clients, k \in JobIds : path[d] # NoPath /\ jobs'[k].audio_path = path[d]
              => pc'[d] \in {"enqueue", "drop"} /\ job'[d] = k
      BY <1>1, <1>2 DEF OneOwner
    <2> QED
      BY <2>2, <2>3 DEF OneOwner
  <1>4. Known'
    BY <1>1, <1>2 DEF Known
  <1>5. OnDisk'
    BY <1>1, <1>2 DEF OnDisk
  <1>6. Fresh'
    BY <1>2 DEF Fresh, Registering
  <1>7. SweepIsSafe'
    <2>1. rnow \in Nat /\ rnow <= clock
      BY DEF SweepIsSafe, TypeOK
    <2>2. clips[path[c]] >= rnow - MaxStall /\ clips[path[c]] >= rnow - ClipTtl
      BY <1>1, <2>1
    <2> QED
      BY <1>2, <2>2 DEF SweepIsSafe
  <1> QED
    BY <1>3, <1>4, <1>5, <1>6, <1>7

\* ... or back to it, when the job is refused, to be deleted.
LEMMA ClipRefused ==
  ASSUME TypeInv, TypeInv', PlaceInv, ClipInv, NEW c \in Clients,
         Enqueue(c) \/ DropRefused(c) \/ DeleteRefused(c)
  PROVE  ClipInv'
  <1> USE ConstantsAssumption DEF ClipInv, runnerVars, historyVars, TypeInv
  <1>1. CASE Enqueue(c)
    <2> USE <1>1 DEF Enqueue
    <2>1. \A d \in Clients : d # c => pc'[d] = pc[d] /\ job'[d] = job[d] /\ path'[d] = path[d]
      BY DEF TypeOK
    <2>2. path'[c] = NoPath /\ pc'[c] = "idle"
      BY DEF TypeOK
    <2>3. OneOwner'
      BY <2>1, <2>2 DEF OneOwner
    <2>4. Known' /\ OnDisk'
      BY <2>1, <2>2 DEF Known, OnDisk
    <2>5. Fresh' /\ SweepIsSafe'
      BY <2>1, <2>2 DEF Fresh, SweepIsSafe, Registering
    <2> QED
      BY <2>3, <2>4, <2>5
  <1>2. CASE DropRefused(c)
    <2> USE <1>2 DEF DropRefused
    <2>1. /\ job[c] \in JobIds
          /\ jobs'[job[c]].audio_path = NoPath
          /\ \A i \in JobIds : i # job[c] => jobs'[i] = jobs[i]
      BY DEF RunnerHasJob, TypeOK, NotInDict
    <2>2. /\ pc'[c] = "delete"
          /\ \A d \in Clients : d # c => pc'[d] = pc[d] /\ job'[d] = job[d]
      BY DEF TypeOK
    <2>3. \A i \in JobIds : jobs'[i].audio_path # NoPath
             => jobs'[i] = jobs[i] /\ i # job[c]
      BY <2>1
    <2>4. OneOwner'
      BY <2>1, <2>2, <2>3 DEF OneOwner
    <2>5. Known' /\ OnDisk'
      BY <2>3 DEF Known, OnDisk
    <2>6. Fresh'
      BY <2>2 DEF Fresh, Registering
    <2>7. SweepIsSafe'
      BY <2>3 DEF SweepIsSafe
    <2> QED
      BY <2>4, <2>5, <2>6, <2>7
  <1>3. CASE DeleteRefused(c)
    <2> USE <1>3 DEF DeleteRefused
    <2>1. /\ path[c] \in Paths
          /\ \A i \in JobIds : jobs[i].audio_path # path[c]
          /\ \A d \in Clients : d # c => path[d] # path[c]
      BY DEF RunnerHasJob, OneOwner
    <2>2. /\ clips'[path[c]] = NoFile
          /\ \A p \in Paths : p # path[c] => clips'[p] = clips[p]
          /\ path'[c] = NoPath /\ pc'[c] = "idle"
          /\ \A d \in Clients : d # c => pc'[d] = pc[d] /\ path'[d] = path[d]
      BY <2>1 DEF TypeOK
    <2>3. \A i \in JobIds : jobs[i].audio_path # NoPath
             => jobs[i].audio_path \in Paths /\ clips'[jobs[i].audio_path] = clips[jobs[i].audio_path]
      BY <2>1, <2>2 DEF TypeOK, Job
    <2>4. OneOwner' /\ Known'
      BY <2>1, <2>2 DEF OneOwner, Known
    <2>5. OnDisk'
      BY <2>3 DEF OnDisk
    <2>6. Fresh'
      <3>1. ASSUME NEW d \in Clients, pc'[d] \in Registering
            PROVE  pc[d] \in Registering /\ path'[d] = path[d] /\ clips'[path[d]] = clips[path[d]]
        BY <2>1, <2>2, <3>1 DEF Registering, RunnerHasJob
      <3> QED
        BY <3>1 DEF Fresh
    <2>7. SweepIsSafe'
      <3>1. ASSUME rpc = "unlink" PROVE clips'[victim] < rnow - ClipTtl
        <4>1. /\ victim \in Paths /\ clips[victim] < rnow - ClipTtl
              /\ clips[victim] \in Nat \cup {-1} /\ rnow \in Nat /\ ClipTtl \in Nat
          BY <3>1 DEF SweepIsSafe, RunnerHasJob, TypeOK
        <4>2. clips'[victim] \in {clips[victim], -1}
          BY <2>2, <4>1
        <4> QED
          BY <4>1, <4>2
      <3> QED
        BY <2>3, <3>1 DEF SweepIsSafe
    <2> QED
      BY <2>4, <2>5, <2>6, <2>7
  <1> QED
    BY <1>1, <1>2, <1>3

\* The sweep: the list of protected paths has every live job's; by the time of
\* the cutoff at most MaxStall has passed, so a job registered since then has a
\* clip at most 2 * MaxStall old; and no such clip is below the cutoff.
LEMMA ClipSweep ==
  ASSUME 2 * MaxStall <= ClipTtl, TypeInv, TypeInv', ClipInv,
         \/ ListProtected \/ ReadCutoff \/ EndSweep \/ UnlinkClip
         \/ \E p \in Paths : StatClip(p)
  PROVE  ClipInv'
  <1> USE ConstantsAssumption DEF ClipInv, clientVars, historyVars, TypeInv
  <1>1. CASE ListProtected
    <2> USE <1>1 DEF ListProtected
    <2>1. \A j \in JobIds : jobs[j].audio_path \in protected' \cup {NoPath}
      BY DEF OnDisk, ProtectedPaths
    <2>2. SweepIsSafe'
      BY <2>1 DEF SweepIsSafe, TypeOK
    <2> QED
      BY <2>2 DEF OneOwner, Known, OnDisk, Fresh
  <1>2. CASE ReadCutoff
    <2> USE <1>2 DEF ReadCutoff
    <2>1. clock <= rnow + MaxStall /\ rnow \in Nat /\ clock \in Nat
      BY DEF SweepIsSafe, TypeOK
    <2>2. \A j \in JobIds : jobs[j].audio_path \notin protected \cup {NoPath}
             => clips[jobs[j].audio_path] >= clock - ClipTtl
      <3>1. ASSUME NEW j \in JobIds, jobs[j].audio_path \notin protected \cup {NoPath}
            PROVE  clips[jobs[j].audio_path] >= clock - ClipTtl
        <4>1. /\ clips[jobs[j].audio_path] \in Nat \cup {-1}
              /\ clips[jobs[j].audio_path] >= rnow - MaxStall
          BY <3>1 DEF SweepIsSafe, TypeOK, Job
        <4> QED
          BY <2>1, <4>1
      <3> QED
        BY <3>1
    <2>3. SweepIsSafe'
      BY <2>1, <2>2 DEF SweepIsSafe
    <2> QED
      BY <2>3 DEF OneOwner, Known, OnDisk, Fresh
  <1>3. CASE EndSweep
    <2> USE <1>3 DEF EndSweep
    <2>1. SweepIsSafe'
      BY DEF SweepIsSafe, TypeOK
    <2> QED
      BY <2>1 DEF OneOwner, Known, OnDisk, Fresh
  <1>4. ASSUME NEW p \in Paths, StatClip(p) PROVE ClipInv'
    <2> USE <1>4 DEF StatClip
    <2>1. SweepIsSafe'
      BY DEF SweepIsSafe, TooOld, Known
    <2> QED
      BY <2>1 DEF OneOwner, Known, OnDisk, Fresh
  <1>5. CASE UnlinkClip
    <2> USE <1>5 DEF UnlinkClip
    <2>1. /\ victim \in Paths /\ victim \notin protected
          /\ clips[victim] < rnow - ClipTtl /\ asked[victim] # "no"
          /\ rnow \in Nat /\ clock \in Nat /\ rnow <= clock
          /\ clips[victim] \in Nat \cup {-1}
      BY DEF SweepIsSafe, RunnerHasJob, TypeOK
    <2>2. \A j \in JobIds : jobs[j].audio_path # victim
      <3>1. ASSUME NEW j \in JobIds, jobs[j].audio_path = victim PROVE FALSE
        <4>1. clips[victim] >= rnow - ClipTtl
          BY <2>1, <3>1 DEF SweepIsSafe
        <4> QED
          BY <2>1, <4>1
      <3> QED
        BY <3>1
    <2>3. \A c \in Clients : pc[c] \in Registering => path[c] # victim
      <3>1. ASSUME NEW c \in Clients, pc[c] \in Registering, path[c] = victim PROVE FALSE
        <4>1. clips[victim] = since[c] /\ since[c] \in Nat /\ clock <= since[c] + MaxStall
          BY <3>1 DEF Fresh, TypeOK
        <4> QED
          BY <2>1, <4>1
      <3> QED
        BY <3>1
    <2>4. \A q \in Paths : q # victim => clips'[q] = clips[q]
      BY DEF TypeOK
    <2>5. \A j \in JobIds : jobs[j].audio_path # NoPath
             => clips'[jobs[j].audio_path] = clips[jobs[j].audio_path]
      BY <2>2, <2>4 DEF TypeOK, Job
    <2>6. OneOwner'
      BY DEF OneOwner
    <2>7. Known'
      BY <2>1, <2>4 DEF Known
    <2>8. OnDisk'
      BY <2>5 DEF OnDisk
    <2>9. Fresh'
      BY <2>3, <2>4 DEF Fresh, RunnerHasJob, Registering
    <2>10. SweepIsSafe'
      BY <2>5 DEF SweepIsSafe
    <2> QED
      BY <2>6, <2>7, <2>8, <2>9, <2>10
  <1> QED
    BY <1>1, <1>2, <1>3, <1>4, <1>5

LEMMA ClipTick ==
  ASSUME TypeInv, TypeInv', ClipInv, Tick
  PROVE  ClipInv'
  <1> USE ConstantsAssumption DEF ClipInv, Tick, clientVars, runnerVars, historyVars, TypeInv
  <1>1. OneOwner' /\ Known' /\ OnDisk'
    BY DEF OneOwner, Known, OnDisk
  <1>2. clock \in Nat /\ rnow \in Nat /\ \A c \in Clients : since[c] \in Nat
    BY DEF TypeOK
  <1>3. Fresh'
    BY <1>2 DEF Fresh
  <1>4. SweepIsSafe'
    BY <1>2 DEF SweepIsSafe
  <1> QED
    BY <1>1, <1>3, <1>4

LEMMA ClipStep ==
  ASSUME AskOnce, 2 * MaxStall <= ClipTtl
  PROVE  TypeInv /\ TypeInv' /\ PlaceInv /\ ClipInv /\ [Next]_vars => ClipInv'
  <1> SUFFICES ASSUME TypeInv, TypeInv', PlaceInv, ClipInv, [Next]_vars
               PROVE  ClipInv'
    OBVIOUS
  <1> USE DEF clientVars, runnerVars, historyVars
  <1>0. TypeOK /\ TypeOK'
    BY DEF TypeInv
  <1>1. CASE UNCHANGED vars
    BY <1>0, <1>1, ClipFrame DEF vars
  <1>2. ASSUME NEW c \in Clients, ReadClock(c) \/ Refuse(c) PROVE ClipInv'
    BY <1>0, <1>2, ClipFrame DEF ReadClock, Refuse, TypeOK, Registering
  <1>3. ASSUME NEW c \in Clients, Expire(c) PROVE ClipInv'
    <2>1. now[c] \in Nat
      BY <1>0 DEF TypeOK
    <2> QED
      BY <1>0, <1>3, <2>1, ClipExpire DEF Expire, TypeOK, Registering
  <1>4. CASE ExpireAndLoop
    <2>1. rnow \in Nat
      BY <1>0 DEF TypeOK
    <2> QED
      BY <1>0, <1>4, <2>1, ClipExpire DEF ExpireAndLoop
  <1>5. CASE TestStop \/ Dequeue \/ GetTimesOut \/ \E r \in Replies : CallWorker(r)
    BY <1>0, <1>5, ClipFrame DEF TestStop, Dequeue, GetTimesOut, CallWorker
  <1>6. CASE StartJob \/ HalfWriteResult \/ FinishJob
    <2>1. rjob \in JobIds
      BY <1>6 DEF TypeInv, RunnerHasJob, StartJob, HalfWriteResult, FinishJob
    <2>2. \A j \in JobIds : /\ jobs'[j].audio_path = jobs[j].audio_path
                            /\ jobs[j].status \in Live => jobs'[j].status \in Live
      <3>1. \A j \in JobIds : j # rjob => jobs'[j] = jobs[j]
        BY <1>0, <1>6, <2>1 DEF StartJob, HalfWriteResult, FinishJob, SetStatus, TypeOK
      <3>2. /\ jobs'[rjob].audio_path = jobs[rjob].audio_path
            /\ jobs[rjob].status \in Live => jobs'[rjob].status \in Live
        <4>1. jobs[rjob] \in Job
          BY <1>0, <2>1 DEF TypeOK
        <4>2. CASE StartJob
          BY <1>0, <2>1, <4>1, <4>2 DEF StartJob, SetStatus, TypeOK, Job
        <4>3. CASE HalfWriteResult
          BY <1>0, <2>1, <4>1, <4>3 DEF HalfWriteResult, TypeOK, Job
        <4>4. CASE FinishJob
          BY <1>0, <2>1, <4>1, <4>4 DEF FinishJob, SetStatus, TypeOK, Job
        <4> QED
          BY <1>6, <4>2, <4>3, <4>4
      <3> QED
        BY <3>1, <3>2
    <2> QED
      BY <1>0, <1>6, <2>2, ClipFrame DEF StartJob, HalfWriteResult, FinishJob
  <1>7. CASE Stop
    BY <1>0, <1>7, ClipFrame DEF Stop
  <1> QED
    BY <1>1, <1>2, <1>3, <1>4, <1>5, <1>6, <1>7,
       ClipWrite, ClipRegister, ClipRefused, ClipSweep, ClipTick
    DEF Next, Client, Runner

LEMMA ClipInit == Init => ClipInv
  <1> SUFFICES ASSUME Init PROVE ClipInv
    OBVIOUS
  <1>1. /\ \A j \in JobIds : jobs[j].audio_path = NoPath
        /\ \A c \in Clients : pc[c] = "idle" /\ path[c] = NoPath
        /\ \A p \in Paths : clips[p] = NoFile
        /\ clock = 0 /\ rnow = 0 /\ rpc = "test"
    BY DEF Init, NotInDict
  <1> QED
    BY <1>1 DEF ClipInv, OneOwner, Known, OnDisk, Fresh, SweepIsSafe, Registering

\* If windows are not asked for twice, and a request or the sweep is suspended
\* for at most half the clips' TTL, no job loses its clip.
THEOREM ClipsAreKept ==
  ASSUME AskOnce, 2 * MaxStall <= ClipTtl
  PROVE  Spec => []ReferencedClipKept
  <1>1. ClipInv => ReferencedClipKept
    BY DEF ClipInv, OnDisk, ReferencedClipKept
  <1>2. TypeInv /\ TypeInv' /\ PlaceInv /\ ClipInv /\ [Next]_vars => ClipInv'
    BY ClipStep
  <1> QED
    BY <1>1, <1>2, ClipInit, TypeInvariance, PlaceInvariance, PTL DEF Spec

LEMMA ClipGone ==
  ASSUME 2 * MaxStall <= ClipTtl, TypeInv, PlaceInv, ClipInv, [Next]_vars,
         NEW p \in Paths, clips[p] # NoFile, clips'[p] = NoFile
  PROVE  \/ \E j \in JobIds : jobs[j].audio_path = p /\ jobs'[j].status = "expired"
         \/ \E c \in Clients : pc[c] = "delete" /\ path[c] = p
         \/ p \notin ProtectedPaths /\ clock - clips[p] > ClipTtl
  <1> USE ConstantsAssumption DEF TypeInv, clientVars, runnerVars, historyVars
  <1> DEFINE Goal == \/ \E j \in JobIds : jobs[j].audio_path = p /\ jobs'[j].status = "expired"
                     \/ \E c \in Clients : pc[c] = "delete" /\ path[c] = p
                     \/ p \notin ProtectedPaths /\ clock - clips[p] > ClipTtl
  <1>1. CASE \E q \in Paths : QueryAudio(q) \/ \E c \in Clients : ExtractClip(c, q)
    BY <1>1 DEF QueryAudio, ExtractClip, TypeOK
  <1>2. ASSUME NEW t \in Nat, ExpireOldJobs(t) PROVE Goal
    <2>1. PICK j \in Due(t) : jobs[j].audio_path = p
      BY <1>2 DEF ExpireOldJobs
    <2>2. j \in JobIds /\ jobs'[j].status = "expired"
      BY <1>2, <2>1 DEF ExpireOldJobs, Due
    <2> QED
      BY <2>1, <2>2
  <1>3. CASE \E c \in Clients : DeleteRefused(c)
    BY <1>3 DEF DeleteRefused, TypeOK
  <1>4. CASE UnlinkClip
    <2>1. victim = p
      BY <1>4 DEF UnlinkClip, TypeOK
    <2>2. /\ p \notin protected /\ clips[p] < rnow - ClipTtl /\ rnow <= clock
          /\ \A j \in JobIds : jobs[j].audio_path = p => clips[p] >= rnow - ClipTtl
          /\ rnow \in Nat /\ clock \in Nat /\ clips[p] \in Nat
      BY <1>4, <2>1 DEF UnlinkClip, ClipInv, SweepIsSafe, TypeOK
    <2>3. \A j \in JobIds : jobs[j].audio_path # p
      BY <2>2
    <2> QED
      BY <2>2, <2>3 DEF ProtectedPaths
  <1>5. CASE clips' = clips
    BY <1>5
  <1>6. /\ \A c \in Clients : now[c] \in Nat
        /\ rnow \in Nat
    BY DEF TypeOK
  <1>7. CASE UNCHANGED vars
    BY <1>5, <1>7 DEF vars
  <1>8. CASE \E c \in Clients : Client(c)
    <2>1. PICK c \in Clients : Client(c)
      BY <1>8
    <2>2. CASE Expire(c)
      BY <1>2, <1>6, <2>2 DEF Expire
    <2>3. CASE ~Expire(c)
      BY <1>1, <1>3, <1>5, <2>1, <2>3
      DEF Client, ReadClock, Register, Enqueue, Refuse, DropRefused
    <2> QED
      BY <2>2, <2>3
  <1>9. CASE Runner
    <2>1. CASE ExpireAndLoop
      BY <1>2, <1>6, <2>1 DEF ExpireAndLoop
    <2>2. CASE ~ExpireAndLoop
      BY <1>4, <1>5, <1>9, <2>2
      DEF Runner, TestStop, Dequeue, GetTimesOut, StartJob, CallWorker, HalfWriteResult,
          FinishJob, ListProtected, ReadCutoff, StatClip, EndSweep
    <2> QED
      BY <2>1, <2>2
  <1>10. CASE Stop \/ Tick
    BY <1>5, <1>10 DEF Stop, Tick
  <1> QED
    BY <1>1, <1>7, <1>8, <1>9, <1>10 DEF Next

\* Under the same assumptions a clip leaves the disk with its job's result, with
\* its refused submission, or unreferenced and past its TTL.
THEOREM ClipsOutliveTheirTtl ==
  ASSUME AskOnce, 2 * MaxStall <= ClipTtl
  PROVE  Spec => ClipKeptForTtl
  <1>1. TypeInv /\ PlaceInv /\ ClipInv /\ [Next]_vars =>
          [\A p \in Paths :
             clips[p] # NoFile /\ clips'[p] = NoFile =>
                \/ \E j \in JobIds : jobs[j].audio_path = p /\ jobs'[j].status = "expired"
                \/ \E c \in Clients : pc[c] = "delete" /\ path[c] = p
                \/ p \notin ProtectedPaths /\ clock - clips[p] > ClipTtl]_vars
    BY ClipGone
  <1>2. TypeInv /\ TypeInv' /\ PlaceInv /\ ClipInv /\ [Next]_vars => ClipInv'
    BY ClipStep
  <1> QED
    BY <1>1, <1>2, ClipInit, TypeInvariance, PlaceInvariance, PTL DEF Spec, ClipKeptForTtl

-----------------------------------------------------------------------------
(* Results are kept. *)

\* No thread's reading of the clock is in the future; a verdict carries the time
\* it was written, and an expired job a time JobTtl later or more.
ResultInv ==
    /\ rpc # "handle" /\ reply # "malformed"
    /\ rnow <= clock
    /\ \A c \in Clients : now[c] <= clock
    /\ \A j \in JobIds :
         /\ jobs[j].status \in Finished => jobs[j].updated_at = finishedAt[j]
         /\ jobs[j].status = "expired" => jobs[j].updated_at >= finishedAt[j] + JobTtl

LEMMA ResultExpire ==
  ASSUME TypeOK, ResultInv, NEW t \in Nat, t <= clock, ExpireOldJobs(t),
         NEW j \in JobIds, finishedAt' = finishedAt
  PROVE  /\ jobs'[j].status \in Finished => jobs'[j].updated_at = finishedAt'[j]
         /\ jobs'[j].status = "expired" => jobs'[j].updated_at >= finishedAt'[j] + JobTtl
         /\ jobs[j].status \in Finished /\ jobs'[j].status = "expired"
               => clock - finishedAt[j] >= JobTtl
         /\ jobs[j].status # "gone" /\ jobs'[j].status = "gone"
               => clock - finishedAt[j] >= 2 * JobTtl
  <1> USE ConstantsAssumption
  <1>1. /\ jobs[j].updated_at \in Nat /\ finishedAt[j] \in Nat /\ clock \in Nat
        /\ JobTtl \in Nat
    BY DEF TypeOK, Job
  <1>2. CASE j \in Due(t)
    <2>1. /\ t - jobs[j].updated_at >= JobTtl
          /\ jobs[j].updated_at = finishedAt[j]
          /\ jobs'[j].status = "expired" /\ jobs'[j].updated_at = t
          /\ jobs[j].status \in Finished
      BY <1>2 DEF Due, ExpireOldJobs, ResultInv
    <2> QED
      BY <1>1, <2>1
  <1>3. CASE j \notin Due(t) /\ j \in Dead(t)
    <2>1. /\ t - jobs[j].updated_at >= JobTtl
          /\ jobs[j].updated_at >= finishedAt[j] + JobTtl
          /\ jobs'[j].status = "gone"
      BY <1>3 DEF Dead, ExpireOldJobs, ResultInv, NotInDict
    <2> QED
      BY <1>1, <2>1
  <1>4. CASE j \notin Due(t) /\ j \notin Dead(t)
    BY <1>4 DEF ExpireOldJobs, ResultInv
  <1> QED
    BY <1>2, <1>3, <1>4

\* What one step may do to a result.
ResultStep(j) ==
    /\ jobs[j].status \in Finished /\ jobs'[j].status = "expired"
          => clock - finishedAt[j] >= JobTtl
    /\ jobs[j].status # "gone" /\ jobs'[j].status = "gone"
          => clock - finishedAt[j] >= 2 * JobTtl

LEMMA ResultInvStep ==
  ASSUME "malformed" \notin Replies, TypeInv, PlaceInv, ResultInv, [Next]_vars
  PROVE  ResultInv' /\ \A j \in JobIds : ResultStep(j)
  <1> USE ConstantsAssumption DEF TypeInv, clientVars, runnerVars, historyVars
  <1>1. CASE UNCHANGED <<jobs, clock, now, rpc, reply, rnow, finishedAt>>
    BY <1>1 DEF ResultInv, ResultStep
  <1>2. CASE UNCHANGED vars \/ Stop \/ \E p \in Paths : QueryAudio(p)
    BY <1>1, <1>2 DEF vars, Stop, QueryAudio
  <1>3. ASSUME NEW c \in Clients, Client(c)
        PROVE  ResultInv' /\ \A j \in JobIds : ResultStep(j)
    <2>1. CASE \/ \E p \in Paths : ExtractClip(c, p)
               \/ Enqueue(c) \/ Refuse(c) \/ DeleteRefused(c)
      BY <1>1, <2>1 DEF ExtractClip, Enqueue, Refuse, DeleteRefused
    <2>2. CASE ReadClock(c)
      BY <2>2 DEF ReadClock, ResultInv, ResultStep, TypeOK
    <2>3. CASE Expire(c)
      <3>1. now[c] \in Nat /\ now[c] <= clock
        BY DEF TypeOK, ResultInv
      <3>2. \A j \in JobIds :
              /\ jobs'[j].status \in Finished => jobs'[j].updated_at = finishedAt'[j]
              /\ jobs'[j].status = "expired" => jobs'[j].updated_at >= finishedAt'[j] + JobTtl
              /\ ResultStep(j)
        BY <2>3, <3>1, ResultExpire DEF Expire, ResultStep
      <3>3. \A d \in Clients : now'[d] <= clock' /\ clock' = clock
        BY <2>3 DEF Expire, TypeOK, ResultInv
      <3> QED
        BY <2>3, <3>2, <3>3 DEF Expire, ResultInv
    <2>4. ASSUME NEW j \in JobIds, Register(c, j)
          PROVE  ResultInv' /\ \A k \in JobIds : ResultStep(k)
      <3>1. /\ jobs'[j].status = "queued"
            /\ \A k \in JobIds : k # j => jobs'[k] = jobs[k]
        BY <2>4 DEF Register, TypeOK
      <3> QED
        BY <2>4, <3>1 DEF Register, ResultInv, ResultStep
    <2>5. CASE DropRefused(c)
      <3>1. /\ job[c] \in JobIds
            /\ jobs'[job[c]].status = "rejected"
            /\ \A k \in JobIds : k # job[c] => jobs'[k] = jobs[k]
        BY <2>5 DEF DropRefused, TypeOK, RunnerHasJob, NotInDict
      <3> QED
        BY <2>5, <3>1 DEF DropRefused, ResultInv, ResultStep
    <2> QED
      BY <1>3, <2>1, <2>2, <2>3, <2>4, <2>5 DEF Client
  <1>4. CASE Runner
    <2>1. CASE TestStop \/ Dequeue \/ GetTimesOut \/ (\E p \in Paths : StatClip(p)) \/ UnlinkClip
      BY <2>1 DEF TestStop, Dequeue, GetTimesOut, StatClip, UnlinkClip, ResultInv, ResultStep
    <2>2. CASE ListProtected \/ ReadCutoff \/ EndSweep
      BY <2>2 DEF ListProtected, ReadCutoff, EndSweep, ResultInv, ResultStep, TypeOK
    <2>3. ASSUME NEW r \in Replies, CallWorker(r)
          PROVE  ResultInv' /\ \A j \in JobIds : ResultStep(j)
      BY <2>3 DEF CallWorker, ResultInv, ResultStep
    <2>4. CASE HalfWriteResult
      BY <2>4 DEF HalfWriteResult, ResultInv
    <2>5. CASE StartJob
      <3>1. rjob \in JobIds /\ jobs[rjob].status = "queued"
        BY <2>5 DEF StartJob, RunnerHasJob, PlaceInv, NoAcceptedJobLost, InOnePlace, WithRunner
      <3>2. /\ jobs'[rjob].status = "running"
            /\ \A k \in JobIds : k # rjob => jobs'[k] = jobs[k]
        BY <2>5, <3>1 DEF StartJob, SetStatus, TypeOK, Job
      <3> QED
        BY <2>5, <3>2 DEF StartJob, ResultInv, ResultStep
    <2>6. CASE FinishJob
      <3>1. rjob \in JobIds /\ jobs[rjob].status = "running"
        BY <2>6 DEF FinishJob, RunnerHasJob, PlaceInv, NoAcceptedJobLost, InOnePlace, ResultInv
      <3>2. /\ jobs'[rjob].status \in Finished /\ jobs'[rjob].updated_at = clock
            /\ \A k \in JobIds : k # rjob => jobs'[k] = jobs[k]
        BY <2>6, <3>1 DEF FinishJob, SetStatus, TypeOK, Job
      <3>3. /\ finishedAt'[rjob] = clock
            /\ \A k \in JobIds : k # rjob => finishedAt'[k] = finishedAt[k]
        BY <2>6, <3>1 DEF FinishJob, TypeOK
      <3> QED
        BY <2>6, <3>1, <3>2, <3>3 DEF FinishJob, ResultInv, ResultStep
    <2>7. CASE ExpireAndLoop
      <3>1. rnow \in Nat /\ rnow <= clock
        BY DEF TypeOK, ResultInv
      <3>2. \A j \in JobIds :
              /\ jobs'[j].status \in Finished => jobs'[j].updated_at = finishedAt'[j]
              /\ jobs'[j].status = "expired" => jobs'[j].updated_at >= finishedAt'[j] + JobTtl
              /\ ResultStep(j)
        BY <2>7, <3>1, ResultExpire DEF ExpireAndLoop, ResultStep
      <3> QED
        BY <2>7, <3>2 DEF ExpireAndLoop, ResultInv, TypeOK
    <2> QED
      BY <1>4, <2>1, <2>2, <2>3, <2>4, <2>5, <2>6, <2>7 DEF Runner
  <1>5. CASE Tick
    BY <1>5 DEF Tick, ResultInv, ResultStep, TypeOK
  <1> QED
    BY <1>2, <1>3, <1>4, <1>5 DEF Next

\* If the worker's replies are well formed, a result is served for JobTtl after
\* it was written and the job is known for twice that, however the threads that
\* expire jobs interleave.
THEOREM ResultsAreKept ==
  ASSUME "malformed" \notin Replies
  PROVE  Spec => ResultsKeptForTtl
  <1>1. Init => ResultInv
    BY DEF Init, ResultInv, NotInDict
  <1>2. TypeInv /\ PlaceInv /\ ResultInv /\ [Next]_vars => ResultInv'
    BY ResultInvStep
  <1>3. TypeInv /\ PlaceInv /\ ResultInv /\ [Next]_vars =>
          [\A j \in JobIds :
             /\ jobs[j].status \in Finished /\ jobs'[j].status = "expired"
                   => clock - finishedAt[j] >= JobTtl
             /\ jobs[j].status # "gone" /\ jobs'[j].status = "gone"
                   => clock - finishedAt[j] >= 2 * JobTtl]_vars
    BY ResultInvStep DEF ResultStep
  <1> QED
    BY <1>1, <1>2, <1>3, TypeInvariance, PlaceInvariance, PTL DEF Spec, ResultsKeptForTtl

-----------------------------------------------------------------------------
(* SttJobs implements JobService (its safety part). *)

Outcomes == [j \in JobIds |-> Outcome(j)]

\* Outcome(j) by the status of j, for a job that is in one place.
LEMMA OutcomeIs ==
  ASSUME NEW j \in JobIds, InOnePlace(j), TypeOK
  PROVE  /\ Queued(j) => Outcome(j) = "waiting"
         /\ WithRunner(j) => Outcome(j) = "serving"
         /\ WithClient(j) => Outcome(j) = "none"
         /\ jobs[j].status = "running" => Outcome(j) = "serving"
         /\ jobs[j].status \in Finished \cup {"expired"} => Outcome(j) = jobs[j].status
         /\ jobs[j].status = "gone" => Outcome(j) = "forgotten"
         /\ jobs[j].status \in {"unused", "rejected"} => Outcome(j) = "none"
  <1>1. jobs[j].status = "queued" \/ jobs[j].status = "running" \/ jobs[j].status = "gone"
          \/ jobs[j].status \in Finished \cup {"expired"} \/ jobs[j].status \in {"unused", "rejected"}
    BY DEF TypeOK, Job
  <1> QED
    BY <1>1 DEF InOnePlace, Outcome

\* A step that changes none of queue, stopping and the outcomes is a stutter.
LEMMA ServiceStutter ==
  ASSUME queue' = queue, stopping' = stopping,
         \A j \in JobIds : Outcome(j)' = Outcome(j)
  PROVE  UNCHANGED Service!vars
  BY DEF Service!vars

\* Every outcome follows from the job's record and its place.
LEMMA OutcomeSame ==
  ASSUME NEW j \in JobIds,
         jobs'[j].status = jobs[j].status,
         Queued(j)' <=> Queued(j),
         WithRunner(j)' <=> WithRunner(j)
  PROVE  Outcome(j)' = Outcome(j)
  BY DEF Outcome

LEMMA ServiceAccept ==
  ASSUME TypeInv, TypeInv', PlaceInv, PlaceInv', NEW c \in Clients, Enqueue(c),
         NEW j \in JobIds, job[c] = j
  PROVE  Service!Accept(j)
  <1>1. WithClient(j) /\ InOnePlace(j)
    BY DEF Enqueue, WithClient, PlaceInv, NoAcceptedJobLost
  <1>2. Outcome(j) = "none"
    BY <1>1, OutcomeIs DEF TypeInv
  <1>3. QueueSize = 0 \/ Len(queue) < QueueSize
    BY ConstantsAssumption DEF Enqueue, QueueFull, TypeInv, TypeOK
  <1>4. /\ Len(queue) \in Nat /\ Len(queue') = Len(queue) + 1
        /\ queue'[Len(queue) + 1] = j
        /\ \A i \in 1..Len(queue) : queue'[i] = queue[i]
    BY DEF Enqueue, TypeInv, TypeOK
  <1>5. \A k \in JobIds : Queued(k)' <=> Queued(k) \/ k = j
    BY <1>4 DEF Queued
  <1>6. Outcome(j)' = "waiting"
    <2>1. Queued(j)' /\ InOnePlace(j)'
      BY <1>5 DEF PlaceInv, NoAcceptedJobLost
    <2>2. ~WithRunner(j)' /\ jobs'[j].status = "queued"
      BY <2>1 DEF InOnePlace
    <2> QED
      BY <2>1, <2>2 DEF Outcome
  <1>7. ASSUME NEW k \in JobIds, k # j PROVE Outcome(k)' = Outcome(k)
    <2>1. WithRunner(k)' <=> WithRunner(k)
      BY DEF Enqueue, runnerVars, WithRunner
    <2>2. jobs' = jobs
      BY DEF Enqueue
    <2> QED
      BY <1>5, <1>7, <2>1, <2>2, OutcomeSame
  <1>8. Outcomes' = [Outcomes EXCEPT ![j] = "waiting"]
    BY <1>6, <1>7 DEF Outcomes
  <1> QED
    BY <1>2, <1>3, <1>8 DEF Service!Accept, Outcomes, Enqueue

LEMMA ServiceServe ==
  ASSUME TypeInv, TypeInv', PlaceInv, PlaceInv', Dequeue,
         NEW h \in JobIds, Head(queue) = h
  PROVE  Service!Serve
  <1>1. \A k \in JobIds : InOnePlace(k) /\ InOnePlace(k)'
    BY DEF PlaceInv, NoAcceptedJobLost
  <1>2. \A k \in JobIds : ~WithRunner(k) /\ jobs[k].status # "running"
    BY <1>1 DEF Dequeue, WithRunner, InOnePlace
  <1>3. ASSUME NEW k \in JobIds PROVE Outcome(k) # "serving"
    BY <1>1, <1>2 DEF Outcome, InOnePlace
  <1>4. \A k \in JobIds : WithRunner(k)' <=> k = h
    BY DEF Dequeue, WithRunner
  <1>5. Outcome(h)' = "serving"
    <2>1. ~Queued(h)' /\ WithRunner(h)' /\ jobs'[h].status = "queued"
      BY <1>1, <1>4 DEF InOnePlace
    <2> QED
      BY <2>1 DEF Outcome
  <1>6. ASSUME NEW k \in JobIds, k # h PROVE Outcome(k)' = Outcome(k)
    <2>1. jobs' = jobs /\ (WithClient(k)' <=> WithClient(k))
      BY DEF Dequeue, clientVars, WithClient
    <2>2. ~WithRunner(k)' /\ ~WithRunner(k)
      BY <1>2, <1>4, <1>6
    <2>3. Queued(k)' <=> Queued(k)
      BY <1>1, <2>1, <2>2 DEF InOnePlace
    <2> QED
      BY <2>1, <2>2, <2>3, OutcomeSame
  <1>7. Outcomes' = [Outcomes EXCEPT ![h] = "serving"]
    BY <1>5, <1>6 DEF Outcomes
  <1> QED
    BY <1>3, <1>7 DEF Service!Serve, Outcomes, Dequeue

LEMMA ServiceDeliver ==
  ASSUME TypeInv, TypeInv', PlaceInv, PlaceInv', ResultInv, FinishJob,
         NEW j \in JobIds, rjob = j
  PROVE  \E verdict \in Service!Verdicts : Service!Deliver(j, verdict)
  <1>1. rpc = "answer" /\ rpc' = "protect"
    BY DEF FinishJob, ResultInv
  <1>2. \A k \in JobIds : InOnePlace(k) /\ InOnePlace(k)'
    BY DEF PlaceInv, NoAcceptedJobLost
  <1>3. jobs[j].status = "running"
    BY <1>1, <1>2 DEF InOnePlace
  <1>4. PICK verdict \in Finished : jobs'[j].status = verdict
    BY <1>3 DEF FinishJob, SetStatus, TypeInv, TypeOK, Job
  <1>5. \A k \in JobIds : k # j => jobs'[k] = jobs[k]
    BY <1>3 DEF FinishJob, SetStatus, TypeInv, TypeOK
  <1>6. Outcome(j) = "serving"
    <2>1. ~Queued(j)
      BY <1>2, <1>3 DEF InOnePlace
    <2> QED
      BY <1>3, <2>1 DEF Outcome
  <1>7. Outcome(j)' = verdict
    <2>1. ~Queued(j)' /\ ~WithRunner(j)'
      BY <1>2, <1>4 DEF InOnePlace
    <2> QED
      BY <1>4, <2>1 DEF Outcome
  <1>8. ASSUME NEW k \in JobIds, k # j PROVE Outcome(k)' = Outcome(k)
    <2>1. (WithRunner(k)' <=> WithRunner(k)) /\ (Queued(k)' <=> Queued(k))
      BY <1>1 DEF FinishJob, WithRunner, Queued
    <2> QED
      BY <1>5, <1>8, <2>1, OutcomeSame
  <1>9. Outcomes' = [Outcomes EXCEPT ![j] = verdict]
    BY <1>7, <1>8 DEF Outcomes
  <1>10. Service!Deliver(j, verdict)
    BY <1>6, <1>9 DEF Service!Deliver, Outcomes, FinishJob
  <1> QED
    BY <1>10 DEF Service!Verdicts

LEMMA ServiceAge ==
  ASSUME TypeInv, TypeInv', PlaceInv, PlaceInv', NEW t \in Nat, ExpireOldJobs(t),
         queue' = queue, stopping' = stopping,
         \A j \in JobIds : WithRunner(j)' <=> WithRunner(j)
  PROVE  Service!Age(Due(t), Dead(t))
  <1>1. \A k \in JobIds : InOnePlace(k) /\ InOnePlace(k)'
    BY DEF PlaceInv, NoAcceptedJobLost
  <1>2. \A j \in Due(t) : j \in JobIds /\ Outcome(j) \in Service!Verdicts
    BY <1>1, OutcomeIs DEF Due, TypeInv, Service!Verdicts
  <1>3. \A j \in Dead(t) : j \in JobIds /\ Outcome(j) = "expired"
    BY <1>1, OutcomeIs DEF Dead, TypeInv
  <1>4. ASSUME NEW j \in JobIds
        PROVE  Outcome(j)' = IF j \in Due(t) THEN "expired"
                             ELSE IF j \in Dead(t) THEN "forgotten" ELSE Outcome(j)
    <2>1. Queued(j)' <=> Queued(j)
      BY DEF Queued
    <2>2. CASE j \in Due(t)
      <3>1. jobs'[j].status = "expired" /\ jobs[j].status \in Finished
        BY <2>2 DEF ExpireOldJobs, Due
      <3>2. ~Queued(j)' /\ ~WithRunner(j)'
        BY <1>1, <3>1 DEF InOnePlace
      <3> QED
        BY <2>2, <3>1, <3>2 DEF Outcome
    <2>3. CASE j \notin Due(t) /\ j \in Dead(t)
      <3>1. jobs'[j].status = "gone" /\ jobs[j].status = "expired"
        BY <2>3 DEF ExpireOldJobs, Dead, NotInDict
      <3>2. ~Queued(j)' /\ ~WithRunner(j)'
        BY <1>1, <3>1 DEF InOnePlace
      <3> QED
        BY <2>3, <3>1, <3>2 DEF Outcome
    <2>4. CASE j \notin Due(t) /\ j \notin Dead(t)
      <3>1. jobs'[j] = jobs[j]
        BY <2>4 DEF ExpireOldJobs
      <3> QED
        BY <2>1, <2>4, <3>1, OutcomeSame
    <2> QED
      BY <2>2, <2>3, <2>4
  <1>5. Outcomes' = [j \in JobIds |-> IF j \in Due(t) THEN "expired"
                                      ELSE IF j \in Dead(t) THEN "forgotten"
                                      ELSE Outcomes[j]]
    BY <1>4 DEF Outcomes
  <1> QED
    BY <1>2, <1>3, <1>5 DEF Service!Age, Outcomes

LEMMA ServiceInit == Init => Service!Init
  <1> SUFFICES ASSUME Init PROVE Service!Init
    OBVIOUS
  <1>1. ASSUME NEW j \in JobIds PROVE Outcome(j) = "none"
    BY ConstantsAssumption DEF Init, Outcome, Queued, WithRunner, NotInDict
  <1> QED
    BY <1>1 DEF Service!Init, Init

LEMMA ServiceStep ==
  ASSUME "malformed" \notin Replies
  PROVE  TypeInv /\ TypeInv' /\ PlaceInv /\ PlaceInv' /\ ResultInv /\ [Next]_vars
           => [Service!Next]_(Service!vars)
  <1> SUFFICES ASSUME TypeInv, TypeInv', PlaceInv, PlaceInv', ResultInv, [Next]_vars
               PROVE  [Service!Next]_(Service!vars)
    OBVIOUS
  <1> USE DEF clientVars, runnerVars, historyVars
  <1>0. TypeOK /\ RunnerHasJob /\ \A j \in JobIds : InOnePlace(j) /\ InOnePlace(j)'
    BY DEF TypeInv, PlaceInv, NoAcceptedJobLost
  <1>1. ASSUME \A j \in JobIds : jobs'[j].status = jobs[j].status,
               queue' = queue, stopping' = stopping,
               rpc' = "start" <=> rpc = "start",
               rpc = "start" => rjob' = rjob
        PROVE  UNCHANGED Service!vars
    <2>1. \A j \in JobIds : (Queued(j)' <=> Queued(j)) /\ (WithRunner(j)' <=> WithRunner(j))
      BY <1>1 DEF Queued, WithRunner
    <2> QED
      BY <1>1, <2>1, OutcomeSame, ServiceStutter
  <1>2. CASE UNCHANGED vars \/ (\E p \in Paths : QueryAudio(p)) \/ Tick
    BY <1>1, <1>2 DEF vars, QueryAudio, Tick
  <1>3. ASSUME NEW c \in Clients, Client(c) PROVE [Service!Next]_(Service!vars)
    <2>1. CASE \/ \E p \in Paths : ExtractClip(c, p)
               \/ ReadClock(c) \/ Refuse(c) \/ DeleteRefused(c)
      BY <1>1, <2>1 DEF ExtractClip, ReadClock, Refuse, DeleteRefused
    <2>2. CASE Expire(c)
      <3>1. now[c] \in Nat
        BY <1>0 DEF TypeOK
      <3>2. PICK t \in Nat : now[c] = t
        BY <3>1
      <3>3. Service!Age(Due(t), Dead(t))
        BY <2>2, <3>2, ServiceAge DEF Expire, WithRunner
      <3>4. Due(t) \in SUBSET JobIds /\ Dead(t) \in SUBSET JobIds
        BY DEF Due, Dead
      <3> QED
        BY <3>3, <3>4 DEF Service!Next
    <2>3. ASSUME NEW j \in JobIds, Register(c, j) PROVE UNCHANGED Service!vars
      <3>1. /\ jobs[j].status = "unused" /\ jobs'[j].status = "queued"
            /\ \A k \in JobIds : k # j => jobs'[k] = jobs[k]
        BY <1>0, <2>3 DEF Register, TypeOK
      <3>2. \A k \in JobIds : (Queued(k)' <=> Queued(k)) /\ (WithRunner(k)' <=> WithRunner(k))
        BY <2>3 DEF Register, Queued, WithRunner
      <3>3. Outcome(j)' = Outcome(j)
        <4>1. ~Queued(j) /\ ~WithRunner(j)
          BY <1>0, <3>1 DEF InOnePlace
        <4>2. Outcome(j) = "none"
          BY <3>1, <4>1 DEF Outcome
        <4>3. Outcome(j)' = "none"
          BY <3>1, <3>2, <4>1 DEF Outcome
        <4> QED
          BY <4>2, <4>3
      <3>4. \A k \in JobIds : Outcome(k)' = Outcome(k)
        BY <3>1, <3>2, <3>3, OutcomeSame
      <3> QED
        BY <2>3, <3>4, ServiceStutter DEF Register
    <2>4. CASE Enqueue(c)
      <3>1. PICK j \in JobIds : job[c] = j
        BY <1>0, <2>4 DEF Enqueue, RunnerHasJob
      <3> QED
        BY <2>4, <3>1, ServiceAccept DEF Service!Next
    <2>5. CASE DropRefused(c)
      <3>1. PICK j \in JobIds : job[c] = j
        BY <1>0, <2>5 DEF DropRefused, RunnerHasJob
      <3>2. /\ WithClient(j) /\ jobs[j].status = "queued" /\ ~Queued(j) /\ ~WithRunner(j)
            /\ jobs'[j].status = "rejected"
            /\ \A k \in JobIds : k # j => jobs'[k] = jobs[k]
        BY <1>0, <2>5, <3>1 DEF DropRefused, WithClient, InOnePlace, NotInDict, TypeOK
      <3>3. \A k \in JobIds : (Queued(k)' <=> Queued(k)) /\ (WithRunner(k)' <=> WithRunner(k))
        BY <2>5 DEF DropRefused, Queued, WithRunner
      <3>4. Outcome(j) = "none" /\ Outcome(j)' = "none"
        BY <3>2, <3>3 DEF Outcome
      <3>5. \A k \in JobIds : Outcome(k)' = Outcome(k)
        BY <3>2, <3>3, <3>4, OutcomeSame
      <3> QED
        BY <2>5, <3>5, ServiceStutter DEF DropRefused
    <2> QED
      BY <1>3, <2>1, <2>2, <2>3, <2>4, <2>5 DEF Client
  <1>4. CASE Runner
    <2>1. CASE \/ TestStop \/ GetTimesOut \/ ListProtected \/ ReadCutoff \/ EndSweep
               \/ (\E p \in Paths : StatClip(p)) \/ UnlinkClip
               \/ \E r \in Replies : CallWorker(r)
      BY <1>1, <2>1 DEF TestStop, GetTimesOut, ListProtected, ReadCutoff, EndSweep,
                        StatClip, UnlinkClip, CallWorker
    <2>2. CASE Dequeue
      <3>1. PICK h \in JobIds : Head(queue) = h
        BY <1>0, <2>2 DEF Dequeue, TypeOK
      <3> QED
        BY <2>2, <3>1, ServiceServe DEF Service!Next
    <2>3. CASE StartJob
      <3>1. PICK j \in JobIds : rjob = j
        BY <1>0, <2>3 DEF StartJob, RunnerHasJob
      <3>2. /\ WithRunner(j) /\ jobs[j].status = "queued" /\ ~Queued(j)
            /\ \A k \in JobIds : ~WithRunner(k)'
        BY <1>0, <2>3, <3>1 DEF StartJob, WithRunner, InOnePlace
      <3>3. /\ jobs'[j].status = "running"
            /\ \A k \in JobIds : k # j => jobs'[k] = jobs[k] /\ ~WithRunner(k)
        BY <1>0, <2>3, <3>1, <3>2 DEF StartJob, SetStatus, TypeOK, Job, WithRunner
      <3>4. \A k \in JobIds : Queued(k)' <=> Queued(k)
        BY <2>3 DEF StartJob, Queued
      <3>5. Outcome(j) = "serving" /\ Outcome(j)' = "serving"
        BY <3>2, <3>3, <3>4 DEF Outcome
      <3>6. \A k \in JobIds : Outcome(k)' = Outcome(k)
        BY <3>2, <3>3, <3>4, <3>5, OutcomeSame
      <3> QED
        BY <2>3, <3>6, ServiceStutter DEF StartJob
    <2>4. CASE HalfWriteResult
      BY <2>4 DEF HalfWriteResult, ResultInv
    <2>5. CASE FinishJob
      <3>1. PICK j \in JobIds : rjob = j
        BY <1>0, <2>5 DEF FinishJob, RunnerHasJob
      <3>2. \E verdict \in Service!Verdicts : Service!Deliver(j, verdict)
        BY <2>5, <3>1, ServiceDeliver
      <3> QED
        BY <3>2 DEF Service!Next
    <2>6. CASE ExpireAndLoop
      <3>1. PICK t \in Nat : rnow = t
        BY <1>0 DEF TypeOK
      <3>2. Service!Age(Due(t), Dead(t))
        BY <2>6, <3>1, ServiceAge DEF ExpireAndLoop, WithRunner
      <3>3. Due(t) \in SUBSET JobIds /\ Dead(t) \in SUBSET JobIds
        BY DEF Due, Dead
      <3> QED
        BY <3>2, <3>3 DEF Service!Next
    <2> QED
      BY <1>4, <2>1, <2>2, <2>3, <2>4, <2>5, <2>6 DEF Runner
  <1>5. CASE Stop
    <2>1. \A j \in JobIds : Outcome(j)' = Outcome(j)
      BY <1>5, OutcomeSame DEF Stop, Queued, WithRunner
    <2> QED
      BY <1>5, <2>1 DEF Stop, Service!Stop, Service!Next
  <1> QED
    BY <1>2, <1>3, <1>4, <1>5 DEF Next

\* With well-formed replies the job manager implements JobService: first come
\* first served, one at a time, at most QueueSize waiting, one verdict per job.
THEOREM JobsImplementService ==
  ASSUME "malformed" \notin Replies
  PROVE  Spec => ServiceSpec
  <1>1. Init => ResultInv
    BY DEF Init, ResultInv, NotInDict
  <1>2. TypeInv /\ PlaceInv /\ ResultInv /\ [Next]_vars => ResultInv'
    BY ResultInvStep
  <1>3. TypeInv /\ TypeInv' /\ PlaceInv /\ PlaceInv' /\ ResultInv /\ [Next]_vars
           => [Service!Next]_(Service!vars)
    BY ServiceStep
  <1> QED
    BY <1>1, <1>2, <1>3, ServiceInit, TypeInvariance, PlaceInvariance, PTL
    DEF Spec, Service!Spec, ServiceSpec

-----------------------------------------------------------------------------
(* So it promises what JobService promises. *)

Promise == INSTANCE JobServiceProofs WITH
    Jobs     <- JobIds,
    Capacity <- QueueSize,
    waiting  <- queue,
    outcome  <- [j \in JobIds |-> Outcome(j)],
    stopped  <- stopping

LEMMA PromisedService == ServiceSpec => Promise!Spec
  <1>1. Service!Init => Promise!Init
    BY DEF Service!Init, Promise!Init
  <1>2. [Service!Next]_(Service!vars) => [Promise!Next]_(Promise!vars)
    BY DEF Service!Next, Service!vars, Service!Accept, Service!Serve, Service!Deliver,
           Service!Age, Service!Stop, Service!Verdicts,
           Promise!Next, Promise!vars, Promise!Accept, Promise!Serve, Promise!Deliver,
           Promise!Age, Promise!Stop, Promise!Verdicts
  <1> QED
    BY <1>1, <1>2, PTL DEF ServiceSpec, Service!Spec, Promise!Spec

\* What callers see of a job that waits, or is served.
LEMMA OutcomeWaits ==
  ASSUME TypeInv, PlaceInv, NEW j \in JobIds
  PROVE  /\ Outcome(j) = "waiting" <=> Queued(j)
         /\ Outcome(j) = "serving" => rjob = j
  <1>1. InOnePlace(j)
    BY DEF PlaceInv, NoAcceptedJobLost
  <1>2. jobs[j].status \in Status
    BY DEF TypeInv, TypeOK, Job
  <1>3. WithRunner(j) \/ jobs[j].status = "running" => rjob = j
    BY <1>1 DEF InOnePlace, WithRunner
  <1>4. CASE Queued(j)
    <2>1. Outcome(j) = "waiting"
      BY <1>1, <1>4, OutcomeIs DEF TypeInv
    <2> QED
      BY <1>4, <2>1
  <1>5. CASE WithRunner(j) \/ jobs[j].status = "running"
    <2>1. Outcome(j) = "serving" /\ ~Queued(j)
      BY <1>1, <1>5, OutcomeIs DEF TypeInv, InOnePlace
    <2> QED
      BY <1>3, <1>5, <2>1
  <1>6. CASE ~Queued(j) /\ ~(WithRunner(j) \/ jobs[j].status = "running")
    <2>1. WithClient(j) \/ jobs[j].status \in {"succeeded", "failed", "expired", "gone",
                                             "unused", "rejected"}
      BY <1>1, <1>2, <1>6 DEF InOnePlace
    <2>2. Outcome(j) \in {"succeeded", "failed", "expired", "forgotten", "none"}
      BY <1>1, <2>1, OutcomeIs DEF TypeInv
    <2> QED
      BY <1>6, <2>2
  <1> QED
    BY <1>4, <1>5, <1>6

\* As callers see it, at most QueueSize jobs wait, each once, and one is served at a
\* time, whatever the replies (SttJobManager.submit and _run).
THEOREM QueueIsOrderly == Spec => []Promise!Orderly
  <1>1. ASSUME TypeInv, PlaceInv PROVE Promise!Orderly
    <2>1. QueueSize = 0 \/ Len(queue) <= QueueSize
      BY <1>1, ConstantsAssumption DEF TypeInv, TypeOK
    <2>2. \A j \in JobIds : Outcomes[j] = "waiting" <=> Queued(j)
      BY <1>1, OutcomeWaits DEF Outcomes
    <2>3. \A i, k \in 1..Len(queue) : queue[i] = queue[k] => i = k
      BY <1>1 DEF PlaceInv, NoAcceptedJobLost, QueuedOnce
    <2>4. \A j \in JobIds : Outcomes[j] = "serving" => rjob = j
      BY <1>1, OutcomeWaits DEF Outcomes
    <2> QED
      BY <2>1, <2>2, <2>3, <2>4 DEF Promise!Orderly, Outcomes, Queued
  <1> QED
    BY <1>1, TypeInvariance, PlaceInvariance, PTL

\* A step takes at most the first job out of the queue.
LEMMA QueueStep ==
  ASSUME TypeInv, [Next]_vars, NEW j \in JobIds,
         NEW i \in 1..Len(queue), i # 1, queue[i] = j
  PROVE  Queued(j)'
  <1>1. Len(queue) \in Nat
    BY DEF TypeInv, TypeOK
  <1>2. CASE Dequeue
    <2>1. i - 1 \in 1..Len(queue') /\ queue'[i - 1] = j
      BY <1>1, <1>2 DEF Dequeue, TypeInv, TypeOK
    <2> QED
      BY <2>1 DEF Queued
  <1>3. CASE \E c \in Clients : Enqueue(c)
    <2>1. PICK c \in Clients : queue' = Append(queue, job[c]) /\ job[c] \in JobIds
      BY <1>3 DEF Enqueue, TypeInv, RunnerHasJob
    <2>2. i \in 1..Len(queue') /\ queue'[i] = queue[i]
      BY <1>1, <2>1 DEF TypeInv, TypeOK
    <2> QED
      BY <2>2 DEF Queued
  <1>4. CASE queue' = queue
    BY <1>4 DEF Queued
  <1> QED
    BY <1>2, <1>3, <1>4
    DEF Next, vars, QueryAudio, Client, ExtractClip, ReadClock, Expire, Register, Refuse,
        DropRefused, DeleteRefused, Runner, TestStop, GetTimesOut, StartJob, CallWorker,
        HalfWriteResult, FinishJob, ListProtected, ReadCutoff, StatClip, UnlinkClip,
        EndSweep, ExpireAndLoop, Stop, Tick

\* Jobs are served in the order their requests were accepted, whatever the request
\* threads and the runner do at the same time and whatever the replies.
THEOREM QueueIsFifo == Spec => Promise!FirstComeFirstServed
  <1>1. ASSUME TypeInv, PlaceInv, [Next]_vars, NEW j \in JobIds, NEW k \in JobIds,
               Promise!Before(j, k)
        PROVE  Outcomes'[k] = "waiting"
    <2>1. PICK i \in 1..Len(queue), l \in 1..Len(queue) : i < l /\ queue[l] = k
      BY <1>1 DEF Promise!Before
    <2>2. l # 1
      BY <2>1
    <2>3. Queued(k)'
      BY <1>1, <2>1, <2>2, QueueStep
    <2>4. TypeInv' /\ PlaceInv'
      BY <1>1, TypeStep, PlaceStep
    <2>5. InOnePlace(k)'
      BY <2>4 DEF PlaceInv, NoAcceptedJobLost
    <2>6. ~WithRunner(k)' /\ jobs'[k].status = "queued"
      BY <2>3, <2>5 DEF InOnePlace
    <2>7. Outcome(k)' = "waiting"
      BY <2>3, <2>6 DEF Outcome
    <2> QED
      BY <2>7 DEF Outcomes
  <1>2. TypeInv /\ PlaceInv /\ [Next]_vars =>
          [\A j, k \in JobIds : Promise!Before(j, k) => Outcomes'[k] = "waiting"]_(Promise!vars)
    BY <1>1
  <1> QED
    BY <1>2, TypeInvariance, PlaceInvariance, PTL
    DEF Spec, Promise!FirstComeFirstServed, Outcomes

\* A caller that was shown a verdict is never shown another one, or the job at work
\* again; and a job that expired stays so until it is forgotten (_set_status,
\* _expire_old_jobs).
THEOREM VerdictsNeverChange ==
  ASSUME "malformed" \notin Replies
  PROVE  Spec => Promise!VerdictsStand
  BY JobsImplementService, PromisedService, Promise!VerdictsAreFinal, ConstantsAssumption, PTL
=============================================================================

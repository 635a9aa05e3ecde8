------------------------------- MODULE SttJobs -------------------------------
(***************************************************************************)
(* The speech-to-text jobs of the hub (hub/jobs.py), with the parts of     *)
(* hub/services.py, hub/extractor.py and hub/storage.py that write and     *)
(* delete the clips the jobs refer to.                                     *)
(*                                                                         *)
(* Threads: one HTTP or MCP thread per client, in submit_stt_query,        *)
(* query_audio or get_stt_job, and the manager's own thread (`runner'),    *)
(* which takes jobs from the queue, calls the worker, and sweeps old clips *)
(* after every job and every idle second. A step below is a region under   *)
(* the manager's lock, a queue operation, a reading of the clock or an     *)
(* access to the clip directory: other threads may run between any two.    *)
(*                                                                         *)
(* A clip is its wav file, or rather the file's modification time; the     *)
(* metadata beside it and half-done writes are the business of ClipFiles.  *)
(* A clip's path is a function of node and window (build_clip_path), so    *)
(* Paths stands for the windows a client may ask for.                      *)
(***************************************************************************)
EXTENDS Integers, Sequences, FiniteSets

CONSTANTS
    JobIds,      \* the identifiers uuid4 may return, never the same one twice
    Clients,     \* the threads that serve requests
    Paths,       \* the clip paths, one for each node and window
    NoJob, NoPath,
    QueueSize,   \* max_queue_size; 0 means no limit, as in queue.Queue
    JobTtl,      \* job_ttl_seconds
    ClipTtl,     \* clip_ttl_seconds
    MaxStall,    \* no thread is suspended longer than this in the two places
                 \* that Tick names
    MaxTime,     \* bound on the clock
    AskOnce,     \* whether every window is asked for at most once
    Replies      \* what the worker may answer

ReplyKinds == {"ok",           \* a transcript; the worker has read the clip
               "error",        \* status "error"
               "unreachable",  \* _call_worker raises: URLError, timeout, bad JSON
               "malformed"}    \* status "ok" and a segment float() rejects

ASSUME ConstantsAssumption ==
    /\ NoJob \notin JobIds
    /\ NoPath \notin Paths
    /\ QueueSize \in Nat
    /\ JobTtl \in Nat \ {0}
    /\ ClipTtl \in Nat
    /\ MaxStall \in Nat \ {0}
    /\ MaxTime \in Nat
    /\ AskOnce \in BOOLEAN
    /\ Replies \subseteq ReplyKinds

VARIABLES
    jobs,        \* SttJobManager._jobs, with a status for ids not in the dict
    queue,       \* SttJobManager._queue
    clips,       \* the clip directory: modification time of every wav file
    clock,       \* time.time()
    stopping,    \* _stop_event
    pc, path, job, now, since,   \* the request threads, one value per client
    rpc, rjob, reply, rnow,      \* the manager's thread ...
    protected, todo, victim,     \* ... and its sweep in cleanup_expired
    asked, finishedAt            \* history: how a window was first asked for,
                                 \* and when a job's verdict was written

clientVars  == <<pc, path, job, now, since>>
runnerVars  == <<rpc, rjob, reply, rnow, protected, todo, victim>>
historyVars == <<asked, finishedAt>>
vars == <<jobs, queue, clips, clock, stopping, clientVars, runnerVars, historyVars>>

NoFile == -1

\* "unused", "rejected" and "gone" are not in the dict: an id not yet drawn,
\* one popped because the queue was full, one popped after its second window.
Absent   == {"unused", "rejected", "gone"}
Finished == {"succeeded", "failed"}
Live     == {"queued", "running"} \cup Finished
Status   == Absent \cup Live \cup {"expired"}

Job == [status : Status, updated_at : Nat, audio_path : Paths \cup {NoPath}]

NotInDict(status) == [status |-> status, updated_at |-> 0, audio_path |-> NoPath]

Init ==
    /\ jobs = [j \in JobIds |-> NotInDict("unused")]
    /\ queue = <<>>
    /\ clips = [p \in Paths |-> NoFile]
    /\ clock = 0
    /\ stopping = FALSE
    /\ pc = [c \in Clients |-> "idle"]
    /\ path = [c \in Clients |-> NoPath]
    /\ job = [c \in Clients |-> NoJob]
    /\ now = [c \in Clients |-> 0]
    /\ since = [c \in Clients |-> 0]
    /\ rpc = "test"
    /\ rjob = NoJob
    /\ reply = "none"
    /\ rnow = 0
    /\ protected = {}
    /\ todo = {}
    /\ victim = NoPath
    /\ asked = [p \in Paths |-> "no"]
    /\ finishedAt = [j \in JobIds |-> 0]

-----------------------------------------------------------------------------
(* Shared by both kinds of threads. *)

\* Broken forms of the operators below: a result is expired a second too soon;
\* only the clips of jobs still to be done are protected.
DueEarly(t) == {j \in JobIds : /\ jobs[j].status \in Finished
                               /\ t - jobs[j].updated_at >= JobTtl - 1}
ProtectedUnfinished ==
    {jobs[j].audio_path : j \in {i \in JobIds : jobs[i].status \in {"queued", "running"}}}

\* The jobs _expire_old_jobs turns into "expired", and those it pops, when the
\* clock read before the lock was taken is t.
Due(t)  == {j \in JobIds : /\ jobs[j].status \in Finished
                           /\ t - jobs[j].updated_at >= JobTtl}
Dead(t) == {j \in JobIds : /\ jobs[j].status = "expired"
                           /\ t - jobs[j].updated_at >= JobTtl}

ExpireOldJobs(t) ==
    /\ jobs' = [j \in JobIds |->
                  IF j \in Due(t) THEN [status |-> "expired", updated_at |-> t,
                                        audio_path |-> NoPath]
                  ELSE IF j \in Dead(t) THEN NotInDict("gone")
                  ELSE jobs[j]]
    /\ clips' = [p \in Paths |->
                  IF \E j \in Due(t) : jobs[j].audio_path = p THEN NoFile
                  ELSE clips[p]]

\* _set_status: a job that is no longer in the dict is left alone.
SetStatus(j, status) ==
    jobs' = IF jobs[j].status \in Absent THEN jobs
            ELSE [jobs EXCEPT ![j].status = status, ![j].updated_at = clock]

\* _protected_audio_paths
ProtectedPaths ==
    {jobs[j].audio_path : j \in {i \in JobIds : jobs[i].status \in Live}} \ {NoPath}

-----------------------------------------------------------------------------
(* Request threads. *)

MayAsk(p) == AskOnce => asked[p] = "no"

\* query_audio: the clip is written and its path given to the caller.
QueryAudio(p) ==
    /\ MayAsk(p)
    /\ clips' = [clips EXCEPT ![p] = clock]
    /\ asked' = [asked EXCEPT ![p] = IF @ = "no" THEN "query" ELSE @]
    /\ UNCHANGED <<jobs, queue, clock, stopping, clientVars, runnerVars, finishedAt>>

\* submit_stt_query: the clip is written first, then submit is called.
ExtractClip(c, p) ==
    /\ pc[c] = "idle"
    /\ MayAsk(p)
    /\ clips' = [clips EXCEPT ![p] = clock]
    /\ asked' = [asked EXCEPT ![p] = IF @ = "no" THEN "submit" ELSE @]
    /\ pc' = [pc EXCEPT ![c] = "extracted"]
    /\ path' = [path EXCEPT ![c] = p]
    /\ since' = [since EXCEPT ![c] = clock]
    /\ UNCHANGED <<jobs, queue, clock, stopping, job, now, runnerVars, finishedAt>>

\* submit and get both start with _expire_old_jobs, which reads the clock
\* before it takes the lock. A client in "idle" is calling get_stt_job.
ReadClock(c) ==
    /\ pc[c] \in {"idle", "extracted"}
    /\ pc' = [pc EXCEPT ![c] = IF @ = "idle" THEN "get" ELSE "expire"]
    /\ now' = [now EXCEPT ![c] = clock]
    /\ UNCHANGED <<jobs, queue, clips, clock, stopping, path, job, since,
                   runnerVars, historyVars>>

\* What get does next, reading the job under the lock, changes nothing.
Expire(c) ==
    /\ pc[c] \in {"get", "expire"}
    /\ ExpireOldJobs(now[c])
    /\ pc' = [pc EXCEPT ![c] = IF @ = "get" THEN "idle" ELSE "register"]
    /\ now' = [now EXCEPT ![c] = 0]
    /\ UNCHANGED <<queue, clock, stopping, path, job, since, runnerVars, historyVars>>

Register(c, j) ==
    /\ pc[c] = "register"
    /\ jobs[j].status = "unused"
    /\ jobs' = [jobs EXCEPT ![j] = [status |-> "queued", updated_at |-> clock,
                                    audio_path |-> path[c]]]
    /\ pc' = [pc EXCEPT ![c] = "enqueue"]
    /\ job' = [job EXCEPT ![c] = j]
    /\ since' = [since EXCEPT ![c] = 0]
    /\ UNCHANGED <<queue, clips, clock, stopping, path, now, runnerVars, historyVars>>

\* Broken forms: one entry too many; a refused job left in the dict.
QueueOverfull == QueueSize > 0 /\ Len(queue) > QueueSize
RefuseAndLeave(c) ==
    /\ pc[c] = "enqueue"
    /\ QueueSize > 0 /\ Len(queue) >= QueueSize
    /\ pc' = [pc EXCEPT ![c] = "delete"]
    /\ job' = [job EXCEPT ![c] = NoJob]
    /\ UNCHANGED <<jobs, queue, clips, clock, stopping, path, now, since,
                   runnerVars, historyVars>>

QueueFull == QueueSize > 0 /\ Len(queue) >= QueueSize

Enqueue(c) ==
    /\ pc[c] = "enqueue"
    /\ ~QueueFull
    /\ queue' = Append(queue, job[c])
    /\ pc' = [pc EXCEPT ![c] = "idle"]
    /\ path' = [path EXCEPT ![c] = NoPath]
    /\ job' = [job EXCEPT ![c] = NoJob]
    /\ UNCHANGED <<jobs, clips, clock, stopping, now, since, runnerVars, historyVars>>

\* put_nowait raised queue.Full.
Refuse(c) ==
    /\ pc[c] = "enqueue"
    /\ QueueFull
    /\ pc' = [pc EXCEPT ![c] = "drop"]
    /\ UNCHANGED <<jobs, queue, clips, clock, stopping, path, job, now, since,
                   runnerVars, historyVars>>

DropRefused(c) ==
    /\ pc[c] = "drop"
    /\ jobs' = [jobs EXCEPT ![job[c]] = NotInDict("rejected")]
    /\ pc' = [pc EXCEPT ![c] = "delete"]
    /\ job' = [job EXCEPT ![c] = NoJob]
    /\ UNCHANGED <<queue, clips, clock, stopping, path, now, since, runnerVars,
                   historyVars>>

DeleteRefused(c) ==
    /\ pc[c] = "delete"
    /\ clips' = [clips EXCEPT ![path[c]] = NoFile]
    /\ pc' = [pc EXCEPT ![c] = "idle"]
    /\ path' = [path EXCEPT ![c] = NoPath]
    /\ UNCHANGED <<jobs, queue, clock, stopping, job, now, since, runnerVars,
                   historyVars>>

Client(c) ==
    \/ \E p \in Paths : ExtractClip(c, p)
    \/ ReadClock(c)
    \/ Expire(c)
    \/ \E j \in JobIds : Register(c, j)
    \/ Enqueue(c)
    \/ Refuse(c)
    \/ DropRefused(c)
    \/ DeleteRefused(c)

-----------------------------------------------------------------------------
(* The manager's thread, _run. *)

\* The loop tests the stop event before every wait for a job, and not during it.
TestStop ==
    /\ rpc = "test"
    /\ rpc' = IF stopping THEN "done" ELSE "get"
    /\ UNCHANGED <<jobs, queue, clips, clock, stopping, clientVars, rjob, reply,
                   rnow, protected, todo, victim, historyVars>>

Dequeue ==
    /\ rpc = "get"
    /\ queue # <<>>
    /\ rjob' = Head(queue)
    /\ queue' = Tail(queue)
    /\ rpc' = "start"
    /\ UNCHANGED <<jobs, clips, clock, stopping, clientVars, reply, rnow,
                   protected, todo, victim, historyVars>>

\* queue.get(timeout=1) raised queue.Empty.
GetTimesOut ==
    /\ rpc = "get"
    /\ queue = <<>>
    /\ rpc' = "protect"
    /\ UNCHANGED <<jobs, queue, clips, clock, stopping, clientVars, rjob, reply,
                   rnow, protected, todo, victim, historyVars>>

StartJob ==
    /\ rpc = "start"
    /\ SetStatus(rjob, "running")
    /\ rpc' = "call"
    /\ UNCHANGED <<queue, clips, clock, stopping, clientVars, rjob, reply, rnow,
                   protected, todo, victim, historyVars>>

\* _call_worker: the worker cannot transcribe a clip that is not there.
CallWorker(r) ==
    /\ rpc = "call"
    /\ r \in {"ok", "malformed"} => clips[jobs[rjob].audio_path] # NoFile
    /\ reply' = r
    /\ rpc' = "answer"
    /\ UNCHANGED <<jobs, queue, clips, clock, stopping, clientVars, rjob, rnow,
                   protected, todo, victim, historyVars>>

\* A malformed reply makes _set_status raise after it has written the status
\* and before it writes updated_at; the handler then takes the lock again.
HalfWriteResult ==
    /\ rpc = "answer"
    /\ reply = "malformed"
    /\ jobs' = [jobs EXCEPT ![rjob].status = "succeeded"]
    /\ rpc' = "handle"
    /\ UNCHANGED <<queue, clips, clock, stopping, clientVars, rjob, reply, rnow,
                   protected, todo, victim, historyVars>>

\* Broken form: without the handler for the exceptions of _call_worker.
FinishAnswered ==
    /\ rpc = "answer"
    /\ reply \in {"ok", "error"}
    /\ SetStatus(rjob, IF reply = "ok" THEN "succeeded" ELSE "failed")
    /\ finishedAt' = [finishedAt EXCEPT ![rjob] = clock]
    /\ rpc' = "protect"
    /\ rjob' = NoJob
    /\ reply' = "none"
    /\ UNCHANGED <<queue, clips, clock, stopping, clientVars, rnow, protected,
                   todo, victim, asked>>

FinishJob ==
    /\ \/ rpc = "answer" /\ reply # "malformed"
       \/ rpc = "handle"
    /\ SetStatus(rjob, IF reply = "ok" THEN "succeeded" ELSE "failed")
    /\ finishedAt' = [finishedAt EXCEPT ![rjob] = clock]
    /\ rpc' = "protect"
    /\ rjob' = NoJob
    /\ reply' = "none"
    /\ UNCHANGED <<queue, clips, clock, stopping, clientVars, rnow, protected,
                   todo, victim, asked>>

\* cleanup_expired(protected_paths=self._protected_audio_paths()): the list is
\* made first, the cutoff is computed later.
ListProtected ==
    /\ rpc = "protect"
    /\ protected' = ProtectedPaths
    /\ rnow' = clock
    /\ rpc' = "cutoff"
    /\ UNCHANGED <<jobs, queue, clips, clock, stopping, clientVars, rjob, reply,
                   todo, victim, historyVars>>

ReadCutoff ==
    /\ rpc = "cutoff"
    /\ rnow' = clock
    /\ todo' = Paths
    /\ rpc' = "sweep"
    /\ UNCHANGED <<jobs, queue, clips, clock, stopping, clientVars, rjob, reply,
                   protected, victim, historyVars>>

\* Broken form: the boundary of the clip's lifetime is taken as past it.
OldAtCutoff(p) ==
    clips[p] # NoFile /\ p \notin protected /\ clips[p] <= rnow - ClipTtl

\* One file of rglob: skipped, or found old and deleted in the next step.
TooOld(p) == clips[p] # NoFile /\ p \notin protected /\ clips[p] < rnow - ClipTtl

StatClip(p) ==
    /\ rpc = "sweep"
    /\ p \in todo
    /\ todo' = todo \ {p}
    /\ IF TooOld(p) THEN rpc' = "unlink" /\ victim' = p
                    ELSE UNCHANGED <<rpc, victim>>
    /\ UNCHANGED <<jobs, queue, clips, clock, stopping, clientVars, rjob, reply,
                   rnow, protected, historyVars>>

UnlinkClip ==
    /\ rpc = "unlink"
    /\ clips' = [clips EXCEPT ![victim] = NoFile]
    /\ victim' = NoPath
    /\ rpc' = "sweep"
    /\ UNCHANGED <<jobs, queue, clock, stopping, clientVars, rjob, reply, rnow,
                   protected, todo, historyVars>>

EndSweep ==
    /\ rpc = "sweep"
    /\ todo = {}
    /\ rnow' = clock
    /\ protected' = {}
    /\ rpc' = "expire"
    /\ UNCHANGED <<jobs, queue, clips, clock, stopping, clientVars, rjob, reply,
                   todo, victim, historyVars>>

ExpireAndLoop ==
    /\ rpc = "expire"
    /\ ExpireOldJobs(rnow)
    /\ rnow' = 0
    /\ rpc' = "test"
    /\ UNCHANGED <<queue, clock, stopping, clientVars, rjob, reply, protected,
                   todo, victim, historyVars>>

Runner ==
    \/ TestStop
    \/ Dequeue
    \/ GetTimesOut
    \/ StartJob
    \/ \E r \in Replies : CallWorker(r)
    \/ HalfWriteResult
    \/ FinishJob
    \/ ListProtected
    \/ ReadCutoff
    \/ \E p \in Paths : StatClip(p)
    \/ UnlinkClip
    \/ EndSweep
    \/ ExpireAndLoop

-----------------------------------------------------------------------------
\* stop(): sets the event and waits at most two seconds for the thread.
Stop ==
    /\ ~stopping
    /\ stopping' = TRUE
    /\ UNCHANGED <<jobs, queue, clips, clock, clientVars, runnerVars, historyVars>>

\* Time passes, up to MaxTime. A request that has written its clip and not yet
\* registered its job, and the runner between its list of protected paths and
\* its cutoff, are there for at most MaxStall.
Registering == {"extracted", "expire", "register"}

Tick ==
    /\ clock < MaxTime
    /\ \A c \in Clients : pc[c] \in Registering => clock < since[c] + MaxStall
    /\ rpc = "cutoff" => clock < rnow + MaxStall
    /\ clock' = clock + 1
    /\ UNCHANGED <<jobs, queue, clips, stopping, clientVars, runnerVars, historyVars>>

Next ==
    \/ \E p \in Paths : QueryAudio(p)
    \/ \E c \in Clients : Client(c)
    \/ Runner
    \/ Stop
    \/ Tick

Spec == Init /\ [][Next]_vars

\* The manager's thread is scheduled: its waits end (queue.get after a second,
\* _call_worker after 120), and no request holds the lock for long.
FairSpec == Spec /\ WF_vars(Runner)

-----------------------------------------------------------------------------
(* Properties. *)

\* Every variable keeps its type, and the queue its bound.
TypeOK ==
    /\ jobs \in [JobIds -> Job]
    /\ queue \in Seq(JobIds)
    /\ QueueSize > 0 => Len(queue) <= QueueSize
    /\ clips \in [Paths -> Nat \cup {NoFile}]
    /\ clock \in Nat
    /\ stopping \in BOOLEAN
    /\ pc \in [Clients -> {"idle", "get", "extracted", "expire", "register",
                           "enqueue", "drop", "delete"}]
    /\ path \in [Clients -> Paths \cup {NoPath}]
    /\ job \in [Clients -> JobIds \cup {NoJob}]
    /\ now \in [Clients -> Nat]
    /\ since \in [Clients -> Nat]
    /\ rpc \in {"test", "get", "start", "call", "answer", "handle", "protect",
                "cutoff", "sweep", "unlink", "expire", "done"}
    /\ rjob \in JobIds \cup {NoJob}
    /\ reply \in ReplyKinds \cup {"none"}
    /\ rnow \in Nat
    /\ protected \in SUBSET Paths
    /\ todo \in SUBSET Paths
    /\ victim \in Paths \cup {NoPath}
    /\ asked \in [Paths -> {"no", "query", "submit"}]
    /\ finishedAt \in [JobIds -> Nat]

Queued(j)       == \E i \in 1..Len(queue) : queue[i] = j
WithClient(j)   == \E c \in Clients : pc[c] \in {"enqueue", "drop"} /\ job[c] = j
WithRunner(j)   == rpc = "start" /\ rjob = j

\* A job shown as queued is in exactly one place: in the queue, once, in the
\* hands of the one request that is about to queue or to withdraw it, or in
\* those of the runner. So no accepted job is lost or served twice, whatever
\* submissions race with a full queue. A job shown as running is the runner's.
QueuedOnce ==
    \A i, k \in 1..Len(queue) : i # k => queue[i] # queue[k]

SubmittedOnce ==
    \A c, d \in Clients :
        c # d /\ {pc[c], pc[d]} \subseteq {"enqueue", "drop"} => job[c] # job[d]

InOnePlace(j) ==
    /\ jobs[j].status = "queued" <=> Queued(j) \/ WithClient(j) \/ WithRunner(j)
    /\ ~(Queued(j) /\ WithClient(j))
    /\ ~(Queued(j) /\ WithRunner(j))
    /\ ~(WithClient(j) /\ WithRunner(j))
    /\ jobs[j].status = "running" <=> rpc \in {"call", "answer"} /\ rjob = j

NoAcceptedJobLost == QueuedOnce /\ SubmittedOnce /\ \A j \in JobIds : InOnePlace(j)

\* The clip of a job that waits, runs or has a result is on disk, whatever the
\* sweep and other requests do. The sweep's list of protected paths is stale
\* when the sweep runs; what saves a job registered since is that its clip is
\* younger than the cutoff.
ReferencedClipKept ==
    \A j \in JobIds :
        jobs[j].status \in Live /\ jobs[j].audio_path # NoPath
            => clips[jobs[j].audio_path] # NoFile

\* A clip disappears only with the result it belongs to, with a submission that
\* was refused, or when nothing refers to it and it is older than its TTL: the
\* path query_audio returned is good for that long.
ClipKeptForTtl ==
    [][\A p \in Paths :
        clips[p] # NoFile /\ clips'[p] = NoFile =>
            \/ \E j \in JobIds : jobs[j].audio_path = p /\ jobs'[j].status = "expired"
            \/ \E c \in Clients : pc[c] = "delete" /\ path[c] = p
            \/ p \notin ProtectedPaths /\ clock - clips[p] > ClipTtl]_vars

\* A caller may fetch a result for job_ttl_seconds after it was written, and is
\* told "expired" and not "unknown job" until twice that, though the clock is
\* read before the lock is taken and several threads expire jobs at once.
ResultsKeptForTtl ==
    [][\A j \in JobIds :
        /\ jobs[j].status \in Finished /\ jobs'[j].status = "expired"
               => clock - finishedAt[j] >= JobTtl
        /\ jobs[j].status # "gone" /\ jobs'[j].status = "gone"
               => clock - finishedAt[j] >= 2 * JobTtl]_vars

\* The jobs as their callers see them implement JobService. A job in the hands
\* of a request thread that has not queued it yet is not accepted: its id was
\* not returned.
Outcome(j) ==
    CASE Queued(j)                                  -> "waiting"
      [] WithRunner(j) \/ jobs[j].status = "running" -> "serving"
      [] jobs[j].status \in Finished \cup {"expired"} -> jobs[j].status
      [] jobs[j].status = "gone"                     -> "forgotten"
      [] OTHER                                       -> "none"

Service == INSTANCE JobService WITH
    Jobs     <- JobIds,
    Capacity <- QueueSize,
    waiting  <- queue,
    outcome  <- [j \in JobIds |-> Outcome(j)],
    stopped  <- stopping

ServiceSpec == Service!Spec
ImplementsService == Service!FairSpec
=============================================================================
